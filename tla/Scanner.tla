------------------------------ MODULE Scanner ------------------------------
(***************************************************************************)
(* The scanner of loxx (src/src/Scanner.cpp).  A text is a sequence of     *)
(* characters.  A step is one call of scan_token, with an action for each  *)
(* kind of first character; current counts the characters consumed before  *)
(* it.  An error is the number of the line it names.                       *)
(***************************************************************************)
EXTENDS Integers, Sequences

LOCAL INSTANCE FiniteSetsExt

CONSTANTS
    Letters,    \* the characters for which is_alpha holds
    Digits,     \* those for which is_digit holds
    Keywords    \* keywords_: a function from texts to token types

VARIABLES src, current, line, tokens, errors, returned

vars == <<src, current, line, tokens, errors, returned>>

Single ==
    [c \in {"(", ")", "{", "}", ",", ".", "-", "+", ";", "*"} |->
        CASE c = "(" -> "LeftParen" [] c = ")" -> "RightParen"
          [] c = "{" -> "LeftBrace" [] c = "}" -> "RightBrace"
          [] c = "," -> "Comma" [] c = "." -> "Dot" [] c = "-" -> "Minus"
          [] c = "+" -> "Plus" [] c = ";" -> "SemiColon" [] c = "*" -> "Star"]

\* The type without "=" behind it, and with it.
Double ==
    [c \in {"!", "=", "<", ">"} |->
        CASE c = "!" -> <<"Bang", "BangEqual">>
          [] c = "=" -> <<"Equal", "EqualEqual">>
          [] c = "<" -> <<"Less", "LessEqual">>
          [] c = ">" -> <<"Greater", "GreaterEqual">>]

Blanks == {" ", "\r", "\t"}

-----------------------------------------------------------------------------
Init(text) ==
    /\ src = text
    /\ current = 0
    /\ line = 1
    /\ tokens = <<>> /\ errors = <<>>
    /\ returned = FALSE

BadIsAtEnd == current = Len(src)
IsAtEnd == current >= Len(src)

\* peek, when n characters are consumed: nothing is beyond the text.
Peek(n) == IF n < Len(src) THEN src[n + 1] ELSE "end"

\* How many characters are consumed when a loop has taken those of a set, with n
\* consumed before it.
While(n, chars) == Min({k \in n .. Len(src) : Peek(k) \notin chars})

\* add_token, when n characters are consumed.
AddToken(type, n) ==
    tokens' = Append(tokens, [type |-> type, line |-> line',
                              lexeme |-> SubSeq(src, current + 1, n)])

\* One token of n characters.
Take(type, n) ==
    /\ current' = current + n
    /\ UNCHANGED <<line, errors>>
    /\ AddToken(type, current + n)

\* advance returns a character of the set.
First(chars) ==
    Peek(current) \in chars /\ UNCHANGED <<src, returned>>
c == src[current + 1]

ScanSingle == First(DOMAIN Single) /\ Take(Single[c], 1)

ScanDouble ==
    /\ First(DOMAIN Double)
    /\ IF Peek(current + 1) = "=" THEN Take(Double[c][2], 2)
       ELSE Take(Double[c][1], 1)

ScanSlash ==
    /\ First({"/"})
    /\ Peek(current + 1) # "/"
    /\ Take("Slash", 1)

\* A comment ends before the line break.
ScanComment ==
    /\ First({"/"})
    /\ Peek(current + 1) = "/"
    /\ current' = While(current, Range(src) \ {"\n"})
    /\ UNCHANGED <<line, tokens, errors>>

ScanBlank ==
    /\ First(Blanks)
    /\ current' = current + 1
    /\ UNCHANGED <<line, tokens, errors>>

ScanLineBreak ==
    /\ First({"\n"})
    /\ current' = current + 1
    /\ line' = line + 1
    /\ UNCHANGED <<tokens, errors>>

BadScanString ==                    \* line breaks are not counted
    LET close == While(current + 1, Range(src) \ {"\""})
    IN  /\ First({"\""})
        /\ line' = line
        /\ errors' = IF close = Len(src) THEN Append(errors, line') ELSE errors
        /\ current' = close + 1
        /\ AddToken("String", Min({close + 1, Len(src)}))

\* string.  Without a closing quote there is an error and a token as well, which
\* ends one character beyond the text.
ScanString ==
    LET close == While(current + 1, Range(src) \ {"\""})
    IN  /\ First({"\""})
        /\ line' = line + Cardinality({i \in current + 1 .. close : src[i] = "\n"})
        /\ errors' = IF close = Len(src) THEN Append(errors, line') ELSE errors
        /\ current' = close + 1
        /\ AddToken("String", Min({close + 1, Len(src)}))

BadFraction(n) ==                   \* a dot alone is taken too
    IF Peek(n) = "." THEN While(n + 1, Digits) ELSE n

Fraction(n) ==
    IF Peek(n) = "." /\ Peek(n + 1) \in Digits THEN While(n + 1, Digits) ELSE n

\* number: digits, and a fraction if a digit follows the dot.
ScanNumber ==
    /\ First(Digits)
    /\ Take("Number", Fraction(While(current, Digits)) - current)

\* identifier
ScanIdentifier ==
    LET n == While(current, Letters \cup Digits) - current
        text == SubSeq(src, current + 1, current + n)
    IN  /\ First(Letters)
        /\ Take(IF text \in DOMAIN Keywords THEN Keywords[text] ELSE "Identifier", n)

Known ==
    Letters \cup Digits \cup DOMAIN Single \cup DOMAIN Double \cup Blanks
        \cup {"/", "\n", "\""}

Unexpected ==
    /\ First(Range(src) \ Known)
    /\ current' = current + 1
    /\ errors' = Append(errors, line)
    /\ UNCHANGED <<line, tokens>>

\* The end of scan_tokens.
Return ==
    /\ IsAtEnd /\ ~returned
    /\ returned' = TRUE
    /\ tokens' = Append(tokens, [type |-> "Eof", line |-> line, lexeme |-> <<>>])
    /\ UNCHANGED <<src, current, line, errors>>

Next ==
    \/ ScanSingle \/ ScanDouble \/ ScanSlash \/ ScanComment \/ ScanBlank
    \/ ScanLineBreak \/ ScanString \/ ScanNumber \/ ScanIdentifier
    \/ Unexpected \/ Return
=============================================================================
