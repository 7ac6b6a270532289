----------------------------- MODULE MCScanner -----------------------------
EXTENDS Scanning

\* "or" stands for the keywords, "#" for the characters Lox does not have.
MCLetters == {"o", "r"}
MCKeywords == [text \in {<<"o", "r">>} |-> "Or"]
MCAlphabet == MCLetters \cup {"1", ".", "\"", "/", "=", " ", "\n", "#"}
=============================================================================
