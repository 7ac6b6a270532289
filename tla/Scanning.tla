------------------------------ MODULE Scanning ------------------------------
(***************************************************************************)
(* The scanner on every text of the instance, and what its tokens must be: *)
(* a text is read from the left as the longest pieces that the grammar of  *)
(* tokens of Lox allows.                                                   *)
(***************************************************************************)
EXTENDS Scanner

LOCAL INSTANCE SequencesExt
LOCAL INSTANCE FiniteSetsExt

CONSTANTS Alphabet, MaxText     \* bound: the length of a text

ScanningInit == \E text \in BoundedSeq(Alphabet, MaxText) : Init(text)

\* The loop of scan_tokens goes on until it returns.
ScanningSpec == ScanningInit /\ [][Next]_vars /\ WF_vars(Next)

-----------------------------------------------------------------------------
(* The grammar of tokens.                                                  *)

Consists(text, chars) == text # <<>> /\ Range(text) \subseteq chars

IsIdentifier(text) ==
    Consists(text, Letters \cup Digits) /\ text[1] \in Letters

IsNumber(text) ==
    \/ Consists(text, Digits)
    \/ \E i \in 2 .. Len(text) - 1 :
          /\ text[i] = "."
          /\ Consists(SubSeq(text, 1, i - 1), Digits)
          /\ Consists(SubSeq(text, i + 1, Len(text)), Digits)

IsString(text) ==
    /\ Len(text) >= 2
    /\ {i \in DOMAIN text : text[i] = "\""} = {1, Len(text)}

\* The type of a piece of text, "none" if it is no piece.
Type(text) ==
    CASE IsIdentifier(text) ->
            IF text \in DOMAIN Keywords THEN Keywords[text] ELSE "Identifier"
      [] IsNumber(text) -> "Number"
      [] IsString(text) -> "String"
      [] Len(text) = 1 /\ text[1] \in DOMAIN Single -> Single[text[1]]
      [] Len(text) = 1 /\ text[1] \in DOMAIN Double -> Double[text[1]][1]
      [] Len(text) = 2 /\ text[1] \in DOMAIN Double /\ text[2] = "=" ->
            Double[text[1]][2]
      [] text = <<"/">> -> "Slash"
      [] Len(text) = 1 /\ text[1] \in Blanks \cup {"\n"} -> "Blank"
      [] Len(text) >= 2 /\ text[1] = "/" /\ text[2] = "/"
            /\ "\n" \notin Range(text) -> "Blank"
      [] OTHER -> "none"

\* The length of the next piece after n characters.  A text that begins with a
\* quote and is no string is unreadable to its end, another one for a character.
Longest(n) ==
    LET Prefix(k) == SubSeq(src, n + 1, n + k)
        pieces == {k \in 1 .. Len(src) - n : Type(Prefix(k)) # "none"}
    IN  IF pieces # {} THEN Max(pieces)
        ELSE IF src[n + 1] = "\"" THEN Len(src) - n
        ELSE 1

\* The line of the last of the first n characters, or the next line after a break.
LineAt(n) == 1 + Cardinality({i \in 1 .. n : src[i] = "\n"})

RECURSIVE Pieces(_)

\* The pieces of the text after n characters.
Pieces(n) ==
    IF n = Len(src) THEN <<>>
    ELSE LET k == Longest(n)
             text == SubSeq(src, n + 1, n + k)
         IN  << [type |-> Type(text), line |-> LineAt(n + k), lexeme |-> text] >>
                 \o Pieces(n + k)

Eof == [type |-> "Eof", line |-> LineAt(Len(src)), lexeme |-> <<>>]

-----------------------------------------------------------------------------
\* An error is reported on the line of each piece that cannot be read, and no
\* other: a text without them is never rejected.
ErrorsExact ==
    LET Unreadable(p) == p.type = "none"
        bad == SelectSeq(Pieces(0), Unreadable)
    IN  returned => errors = [i \in DOMAIN bad |-> bad[i].line]

\* The tokens of a text that is read without an error are its longest pieces,
\* each with its type, its text and the line it ends on.
TokensExact ==
    LET Counts(p) == p.type # "Blank"
    IN  returned /\ errors = <<>> =>
            tokens = Append(SelectSeq(Pieces(0), Counts), Eof)

\* The scanner reads every text to its end.
Ends == <>returned
=============================================================================
