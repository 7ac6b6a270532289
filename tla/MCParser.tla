------------------------------ MODULE MCParser ------------------------------
EXTENDS Parsing

\* The input may end everywhere.
Every(n, kinds) == [i \in 1 .. n |-> kinds \cup {"Eof"}]
One(kinds) == <<kinds>>
Just(tokenTypes) == [i \in DOMAIN tokenTypes |-> {tokenTypes[i]}]

Assignments ==
    Every(5, {"Identifier", "Minus", "Equal", "Dot", "LeftParen", "RightParen"})
        \o One({"SemiColon", "Identifier"}) \o Just(<<"SemiColon">>)

Precedence ==
    <<{"Identifier"}, BinaryOperators, {"Number"}, BinaryOperators,
      {"Bang", "Identifier"}, BinaryOperators \cup {"Identifier"}, {"String"},
      {"SemiColon"}>>

\* Up to two "else" for two or three nested "if" and loops.
Conditionals ==
    LET Tested == <<{"If", "While"}, {"LeftParen"}, {"True"}, {"RightParen"}>>
    IN  Tested \o Tested
            \o <<{"Identifier", "LeftBrace"}, {"SemiColon", "Identifier"},
                 {"Else", "RightBrace", "SemiColon"},
                 {"Identifier", "Else", "RightBrace"},
                 {"SemiColon", "Identifier", "Else"},
                 {"Else", "SemiColon"}, {"Nil"}, {"SemiColon"}>>
Fors ==
    Just(<<"For", "LeftParen">>)
        \o Every(5, {"Identifier", "SemiColon", "RightParen", "Var"})
        \o <<{"RightParen", "Identifier", "SemiColon"}, {"SemiColon", "LeftBrace"},
             {"This", "RightBrace"}, {"SemiColon"}>>
Classes ==
    Just(<<"Class", "Identifier">>)
        \o <<{"Less", "LeftBrace"}, {"Identifier", "RightBrace"},
             {"LeftBrace", "LeftParen"}, {"Identifier", "RightBrace"},
             {"LeftParen", "RightBrace"}, {"RightParen", "Identifier"},
             {"LeftBrace", "RightParen"}, {"RightBrace", "LeftBrace"},
             {"RightBrace", "Identifier", "Eof"}, {"RightBrace", "LeftParen"}>>
Functions ==
    Just(<<"Fun", "Identifier", "LeftParen">>)
        \o <<{"Identifier", "RightParen"}, {"Comma", "RightParen", "LeftBrace"},
             {"Identifier", "LeftBrace", "Eof"},
             {"RightParen", "Return", "RightBrace"},
             {"LeftBrace", "Identifier", "SemiColon"},
             {"Return", "RightBrace", "SemiColon"},
             {"Super", "SemiColon", "RightBrace"},
             {"Dot", "RightBrace"}, {"Identifier"}, {"SemiColon"}, {"RightBrace"}>>
Recovery ==
    Every(5, {"Var", "Print", "Identifier", "SemiColon", "LeftBrace",
              "RightBrace", "RightParen"})
Kinds ==
    BinaryOperators \cup
        {"LeftParen", "RightParen", "LeftBrace", "RightBrace", "Comma", "Dot",
         "SemiColon", "Bang", "Equal", "Identifier", "String", "Number",
         "Class", "Else", "False", "Fun", "For", "If", "Nil", "Print", "Return",
         "Super", "This", "True", "Var", "While"}
Start == Every(2, Kinds) \o Just(<<"SemiColon">>)

\* Seven parameters or arguments, and more.
Items ==
    LET Seven == [i \in 1 .. 14 |-> IF i % 2 = 1 THEN {"Identifier"} ELSE {"Comma"}]
        more == Seven \o <<{"Identifier"}, {"Comma", "RightParen"},
                           {"Identifier", "LeftBrace"},
                           {"Comma", "RightParen", "RightBrace"},
                           {"Identifier", "LeftBrace", "SemiColon"},
                           {"RightParen", "RightBrace"}, {"LeftBrace", "SemiColon"},
                           {"RightBrace"}>>
    IN  {Just(<<"Identifier", "LeftParen">>) \o more,
         Just(<<"Fun", "Identifier", "LeftParen">>) \o more}

MCInputs ==
    {Assignments, Precedence, Conditionals, Fors, Classes, Functions, Recovery,
     Start} \cup Items
=============================================================================
