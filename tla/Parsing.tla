------------------------------- MODULE Parsing -------------------------------
(***************************************************************************)
(* The parser and the grammar together: when parse has returned, the       *)
(* tokens are derived from the grammar, for the comparison with what the   *)
(* parser reported and built.                                              *)
(***************************************************************************)
EXTENDS Parser, Grammar

LOCAL INSTANCE FiniteSetsExt
LOCAL INSTANCE SequencesExt

VARIABLES
    read,       \* how many of the tokens have been derived
    forms       \* the forms of what the grammar allows after them

parsingVars == <<vars, read, forms>>

ParsingInit == Init /\ read = 0 /\ forms = {<<"program">>}

Parsing == Next /\ UNCHANGED <<read, forms>>

\* The derivation of the next token takes a step for each replacement.
Deriving == Finished /\ forms # {} /\ read < Len(tokens)
IsNext(form) == form # <<>> /\ Head(form) = tokens[read + 1]

Derive ==
    /\ Deriving /\ ~ \A f \in forms : IsNext(f)
    /\ forms' = UNION {Replaced(f, tokens[read + 1]) : f \in forms \ {<<>>}}
    /\ UNCHANGED <<vars, read>>

Shift ==
    /\ Deriving /\ \A f \in forms : IsNext(f)
    /\ forms' = {Tail(f) : f \in forms}
    /\ read' = read + 1
    /\ UNCHANGED vars

ParsingNext == Parsing \/ Derive \/ Shift

\* parse goes on until it returns.
ParsingSpec ==
    ParsingInit /\ [][ParsingNext]_parsingVars /\ WF_parsingVars(Parsing)

-----------------------------------------------------------------------------
Derived == Finished /\ ~Deriving

\* The parser accepts the sentences of the grammar and nothing else, and its
\* first error is at the first token that no program has there; for an "=" after
\* an expression that is no target, errors in the value come first.
AcceptsGrammar ==
    LET reported == SelectSeq(errors, LAMBDA e : e.kind # "limit")
    IN  Derived =>
            IF reported = <<>> THEN forms # {}
            ELSE /\ forms = {}
                 /\ \/ reported[1].at = read + 1
                    \/ tokens[read + 1] = "Equal" /\ reported[1].at > read

-----------------------------------------------------------------------------
(* The trees.                                                              *)

Node(part) == nodes[part.at]

\* How tightly an expression binds: its operator's level, or more.
LevelOf(part) ==
    LET node == Node(part)
    IN  CASE node.type \in {"Assign", "Set"} -> 0
          [] node.type \in {"Logical", "Binary"} ->
                 Min({l \in DOMAIN Levels : tokens[node.parts[2].at] \in Levels[l]})
          [] node.type = "Unary" -> 7
          [] OTHER -> 8

\* A branch that an "else" would belong to, coming after it.
Open[i \in Nat] ==
    LET node == nodes[i]
    IN  \/ node.type = "If" /\ (node.parts[3] = Null \/ Open[node.parts[3].at])
        \/ node.type = "While" /\ Open[node.parts[2].at]

\* The trees are those of the precedence of operators, which associate to the
\* left, and an "else" belongs to the nearest "if".
RightShape ==
    Finished =>
        \A i \in DOMAIN nodes :
            LET part == nodes[i].parts
                level == LevelOf(Tree(i))
            IN  CASE nodes[i].type \in {"Logical", "Binary"} ->
                         LevelOf(part[1]) >= level /\ LevelOf(part[3]) > level
                  [] nodes[i].type = "Unary" -> LevelOf(part[2]) >= 7
                  [] nodes[i].type \in {"Call", "Get"} -> LevelOf(part[1]) = 8
                  [] nodes[i].type = "If" -> part[3] = Null \/ ~Open[part[2].at]
                  [] OTHER -> TRUE

\* Punctuation and the keywords of statements leave no trace in the trees.
Punctuation ==
    {"LeftParen", "RightParen", "LeftBrace", "RightBrace", "Comma", "Dot",
     "SemiColon", "Equal", "Class", "Fun", "Var", "If", "Else", "While", "For",
     "Print", "Eof"}
Kept(i) ==
    /\ tokens[i] \notin Punctuation
    /\ ~ (tokens[i] = "Less" /\ i > 2 /\ tokens[i - 2] = "Class")

\* The words of an expression statement that was the increment of a for: they
\* follow a ";" that is in parentheses.
IsIncrement(ws) ==
    /\ ws # <<>>
    /\ LET before == 1 .. Head(ws) - 1
           Of(kind) == {j \in before : tokens[j] = kind}
           last == Max({0} \cup (before \ Of("LeftParen")))
       IN  /\ last \in Of("SemiColon")
           /\ Cardinality(Of("LeftParen") \cap 1 .. last)
                  > Cardinality(Of("RightParen") \cap 1 .. last)

\* The tokens of a tree from left to right.  The body and the increment of a for
\* are read backwards: the increment is executed after the body and stands
\* before it in the source.
RECURSIVE Words(_)
Words(part) ==
    LET node == Node(part)
        all == [j \in DOMAIN node.parts |-> Words(node.parts[j])]
        round == /\ node.type = "Block"
                 /\ \E j \in DOMAIN all : /\ IsIncrement(all[j])
                                          /\ Node(node.parts[j]).type = "Expression"
    IN  CASE part.is = "null" -> <<>>
          [] part.is = "token" -> IF Kept(part.at) THEN <<part.at>> ELSE <<>>
          [] OTHER -> FlattenSeq(IF round THEN Reverse(all) ELSE all)

\* When there is no error, the trees have every other token of the source, once
\* and in the order of the source, but the increment of a for behind the body.
NothingLost ==
    Finished /\ errors = <<>> =>
        FlattenSeq([j \in DOMAIN held |-> Words(held[j])]) =
            SelectSeq([i \in DOMAIN tokens |-> i], Kept)

\* Every parameter and argument after the eighth is reported, and no other.
LimitReported ==
    LET Items(node) ==
            CASE node.type = "Call" -> Len(node.parts) - 2
              [] node.type = "Function" ->
                     Len(SelectSeq(node.parts, LAMBDA p : p.is = "token")) - 1
              [] OTHER -> 0
        reported == {i \in DOMAIN errors : errors[i].kind = "limit"}
    IN  Finished /\ (\A i \in DOMAIN errors : errors[i].kind # "syntax") =>
            Cardinality(reported) =
                SumFunction([i \in DOMAIN nodes |-> Max({0, Items(nodes[i]) - 8})])

\* parse returns, whatever the tokens.
Ends == <>Finished
=============================================================================
