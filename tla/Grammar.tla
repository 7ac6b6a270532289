------------------------------- MODULE Grammar -------------------------------
(***************************************************************************)
(* The sentences of Lox, as a reference for the parser.  The grammar is    *)
(* context free and says nothing of precedence; it is ambiguous, and holds *)
(* no bound on parameters and arguments.  A symbol without productions is  *)
(* a type of token (src/src/Token.hpp).                                    *)
(***************************************************************************)
EXTENDS Integers, Sequences

LOCAL INSTANCE SequencesExt

BinaryOperators ==
    {"Or", "And", "BangEqual", "EqualEqual", "Greater", "GreaterEqual", "Less",
     "LessEqual", "Minus", "Plus", "Slash", "Star"}

Productions ==
    [program |-> {<<"declarations", "Eof">>},
     declarations |-> {<<>>, <<"declaration", "declarations">>},
     declaration |->
         {<<"Class", "Identifier", "superclass", "LeftBrace", "methods",
            "RightBrace">>,
          <<"Fun", "function">>, <<"variable">>, <<"statement">>},
     superclass |-> {<<>>, <<"Less", "Identifier">>},
     methods |-> {<<>>, <<"function", "methods">>},
     function |->
         {<<"Identifier", "LeftParen", "parameters", "RightParen", "block">>},
     parameters |-> {<<>>, <<"Identifier", "parameterTail">>},
     parameterTail |-> {<<>>, <<"Comma", "Identifier", "parameterTail">>},
     block |-> {<<"LeftBrace", "declarations", "RightBrace">>},
     variable |->
         {<<"Var", "Identifier", "SemiColon">>,
          <<"Var", "Identifier", "Equal", "expression", "SemiColon">>},
     statement |->
         {<<"If", "LeftParen", "expression", "RightParen", "statement">>,
          <<"If", "LeftParen", "expression", "RightParen", "statement",
            "Else", "statement">>,
          <<"Print", "expression", "SemiColon">>,
          <<"Return", "optional", "SemiColon">>,
          <<"block">>,
          <<"While", "LeftParen", "expression", "RightParen", "statement">>,
          <<"For", "LeftParen", "first", "optional", "SemiColon", "optional",
            "RightParen", "statement">>,
          <<"expression", "SemiColon">>},
     first |-> {<<"variable">>, <<"optional", "SemiColon">>},
     optional |-> {<<>>, <<"expression">>},
     expression |-> {<<"target", "Equal", "expression">>, <<"operation">>},
     target |-> {<<"Identifier">>, <<"primary", "calls", "Dot", "Identifier">>},
     operation |-> {<<"unary", "operations">>},
     operations |-> {<<>>} \cup {<<op, "operation">> : op \in BinaryOperators},
     unary |-> {<<"Bang", "unary">>, <<"Minus", "unary">>, <<"primary", "calls">>},
     calls |->
         {<<>>, <<"Dot", "Identifier", "calls">>,
          <<"LeftParen", "arguments", "RightParen", "calls">>},
     arguments |-> {<<>>, <<"expression", "argumentTail">>},
     argumentTail |-> {<<>>, <<"Comma", "expression", "argumentTail">>},
     primary |->
         {<<"False">>, <<"True">>, <<"Nil">>, <<"Number">>, <<"String">>,
          <<"This">>, <<"Identifier">>, <<"Super", "Dot", "Identifier">>,
          <<"LeftParen", "expression", "RightParen">>}]

\* The tokens a sentence of a symbol may begin with: those of the first symbols
\* of its productions, as far as the ones before can be empty.  Eight rounds reach
\* a fixed point.
Empty(symbol) == symbol \in DOMAIN Productions /\ <<>> \in Productions[symbol]
Leading(p) ==
    {p[i] : i \in {j \in DOMAIN p : \A k \in 1 .. j - 1 : Empty(p[k])}}
Begins(first, symbol) ==
    IF symbol \in DOMAIN Productions THEN first[symbol] ELSE {symbol}
First ==
    LET Round(first, n) ==
            [x \in DOMAIN Productions |->
                UNION {UNION {Begins(first, y) : y \in Leading(p)} :
                       p \in Productions[x]}]
    IN  FoldLeft(Round, [x \in DOMAIN Productions |-> {}],
                 [n \in 1 .. 8 |-> n])

\* A form whose sentences are to go on with the token t: the forms in which its
\* first symbol is replaced by productions that may begin with t or be empty.
\* There is none if it is another token.
Replaced(form, t) ==
    LET MayBegin(p) == p = <<>> \/ Empty(p[1]) \/ t \in Begins(First, p[1])
    IN  IF Head(form) \in DOMAIN Productions
        THEN {p \o Tail(form) : p \in {q \in Productions[Head(form)] : MayBegin(q)}}
        ELSE IF Head(form) = t THEN {form} ELSE {}
=============================================================================
