-------------------------------- MODULE Parser --------------------------------
(***************************************************************************)
(* The recursive descent parser (src/src/Parser.cpp), over the types of    *)
(* tokens.  The call stack of its functions is the list todo: the head is  *)
(* what runs next.  Their local variables, trees and tokens, are in held.  *)
(*                                                                         *)
(* The tokens of the input are chosen when the parser first looks at them: *)
(* tokens holds tokens_ up to peek(), so that current_ is its length less  *)
(* one.  Nothing depends on a token the parser has not looked at.          *)
(***************************************************************************)
EXTENDS Integers, Sequences

CONSTANT Inputs     \* each a sequence of sets: the types a token may have

VARIABLES
    input, tokens,
    todo, held,
    nodes,      \* the nodes of the syntax trees
    errors      \* what loxx::error has reported

vars == <<input, tokens, todo, held, nodes, errors>>
source == <<input, tokens>>

At == Len(tokens)
Peek == tokens[At]

\* A token, a tree of nodes, or a null pointer.
Token(i) == [is |-> "token", at |-> i]
Tree(i) == [is |-> "tree", at |-> i]
Null == [is |-> "null", at |-> 0]

-----------------------------------------------------------------------------
(* What the functions call.                                                *)

KindsAt(i) == IF i <= Len(input) THEN input[i] ELSE {"Eof"}

\* advance.  The last token is Eof, and there is no way past it.
Advance ==
    IF Peek = "Eof" THEN UNCHANGED source
    ELSE \E t \in KindsAt(At + 1) :
             /\ tokens' = Append(tokens, t)
             /\ UNCHANGED input

\* Tasks: calls of functions and what is left of them after a call.
Rule(name) == [is |-> name]
Want(kind) == [is |-> "consume", kind |-> kind, keep |-> FALSE]
Keep(kind) == [is |-> "consume", kind |-> kind, keep |-> TRUE]
Make(type, n) == [is |-> "make", type |-> type, n |-> n]
Unless(kind) == [is |-> "unless", kind |-> kind]
IfMatch(kind, tasks) == [is |-> "match", kind |-> kind, tasks |-> tasks]
Caught(n) == [is |-> "caught", n |-> n]

Calling(name) == todo # <<>> /\ Head(todo).is = name
Task == Head(todo)

\* A step that leaves the tokens, or goes on to the next, and replaces the
\* current task by others, with these values in variables.
Do(tasks, values) ==
    /\ todo' = tasks \o Tail(todo)
    /\ held' = held \o values
    /\ UNCHANGED nodes
Step(tasks, values) == Do(tasks, values) /\ UNCHANGED <<source, errors>>
Match(tasks, values) == Advance /\ Do(tasks, values) /\ UNCHANGED errors

\* loxx::error
Error(kind, at) == errors' = Append(errors, [kind |-> kind, at |-> at])

\* The exception ParseError goes up to the catch of the nearest declaration,
\* which recovers and returns a null pointer.
Catches(i) ==
    /\ todo[i].is = "caught"
    /\ \A j \in 1 .. i - 1 : todo[j].is # "caught"
Throw ==
    \E i \in DOMAIN todo :
        /\ Catches(i)
        /\ Error("syntax", At)
        /\ todo' = <<Rule("synchronise")>> \o SubSeq(todo, i + 1, Len(todo))
        /\ held' = Append(SubSeq(held, 1, todo[i].n), Null)
        /\ UNCHANGED <<source, nodes>>

Consume ==
    /\ Calling("consume")
    /\ IF Peek = Task.kind
       THEN Match(<<>>, IF Task.keep THEN <<Token(At)>> ELSE <<>>)
       ELSE Throw

\* A new node of the last n values, which it owns.
BadMakeNode(type, parts, n) ==      \* the node is the one made before it
    /\ nodes' = Append(nodes, [type |-> type, parts |-> parts])
    /\ held' = Append(SubSeq(held, 1, Len(held) - n), Tree(Len(nodes)))
    /\ todo' = Tail(todo)
    /\ UNCHANGED <<source, errors>>
MakeNode(type, parts, n) ==
    /\ nodes' = Append(nodes, [type |-> type, parts |-> parts])
    /\ held' = Append(SubSeq(held, 1, Len(held) - n), Tree(Len(nodes) + 1))
    /\ todo' = Tail(todo)
    /\ UNCHANGED <<source, errors>>
Held(n) == SubSeq(held, Len(held) - n + 1, Len(held))

MakeTree ==
    Calling("make") /\ MakeNode(Task.type, Held(Task.n), Task.n)

\* An expression unless the next token is of the kind: it has been left out.
ExpressionUnless ==
    /\ Calling("unless")
    /\ IF Peek = Task.kind THEN Step(<<>>, <<Null>>)
       ELSE Step(<<Rule("expression")>>, <<>>)

\* What follows a token that may be left out.
AfterMatch ==
    /\ Calling("match")
    /\ IF Peek = Task.kind THEN Match(Task.tasks, <<>>) ELSE Step(<<>>, <<Null>>)

-----------------------------------------------------------------------------
(* Declarations and statements.                                            *)

DeclarationRule ==
    [Class |-> "class_declaration", Fun |-> "function", Var |-> "var_declaration"]

BadDeclaration ==                   \* a class comes before the try block
    LET end == Caught(Len(held))
    IN  /\ Calling("declaration")
        /\ CASE Peek = "Class" -> Match(<<Rule("class_declaration")>>, <<>>)
             [] Peek \in DOMAIN DeclarationRule \ {"Class"} ->
                    Match(<<Rule(DeclarationRule[Peek]), end>>, <<>>)
             [] OTHER -> Step(<<Rule("statement"), end>>, <<>>)
Declaration ==
    LET end == Caught(Len(held))
    IN  /\ Calling("declaration")
        /\ IF Peek \in DOMAIN DeclarationRule
           THEN Match(<<Rule(DeclarationRule[Peek]), end>>, <<>>)
           ELSE Step(<<Rule("statement"), end>>, <<>>)

\* The end of the try block.
EndDeclaration == Calling("caught") /\ Step(<<>>, <<>>)

Methods(n) == [is |-> "methods", n |-> n]
ClassDeclaration ==
    /\ Calling("class_declaration")
    /\ Step(<<Keep("Identifier"),
              IfMatch("Less", <<Keep("Identifier"), Make("Variable", 1)>>),
              Want("LeftBrace"), Methods(2)>>, <<>>)

\* The loop over the methods; the class has n parts so far.
NextMethod ==
    /\ Calling("methods")
    /\ IF Peek \notin {"RightBrace", "Eof"}
       THEN Step(<<Rule("function"), Methods(Task.n + 1)>>, <<>>)
       ELSE Step(<<Want("RightBrace"), Make("Class", Task.n)>>, <<>>)

Statements(type, n) == [is |-> "statements", type |-> type, n |-> n]

StatementKeywords == {"If", "Print", "Return", "LeftBrace", "While", "For"}
StatementTasks(keyword) ==
    LET Parenthesised == <<Want("LeftParen"), Rule("expression"),
                           Want("RightParen"), Rule("statement")>>
    IN  CASE keyword = "If" ->
                 Parenthesised
                     \o <<IfMatch("Else", <<Rule("statement")>>), Make("If", 3)>>
          [] keyword = "Print" ->
                 <<Rule("expression"), Want("SemiColon"), Make("Print", 1)>>
          [] keyword = "Return" ->
                 <<Unless("SemiColon"), Want("SemiColon"), Make("Return", 2)>>
          [] keyword = "LeftBrace" -> <<Statements("Block", 0)>>
          [] keyword = "While" -> Parenthesised \o <<Make("While", 2)>>
          [] keyword = "For" ->
                 <<Want("LeftParen"), Rule("for_initialiser"),
                   Unless("SemiColon"), Want("SemiColon"),
                   Unless("RightParen"), Want("RightParen"),
                   Rule("statement"), Rule("for_desugared")>>

Statement ==
    /\ Calling("statement")
    /\ IF Peek \in StatementKeywords
       THEN Match(StatementTasks(Peek),
                  IF Peek = "Return" THEN <<Token(At)>> ELSE <<>>)
       ELSE Step(<<Rule("expression_statement")>>, <<>>)

ExpressionStatement ==
    /\ Calling("expression_statement")
    /\ Step(<<Rule("expression"), Want("SemiColon"), Make("Expression", 1)>>, <<>>)

VarDeclaration ==
    /\ Calling("var_declaration")
    /\ Step(<<Keep("Identifier"), IfMatch("Equal", <<Rule("expression")>>),
              Want("SemiColon"), Make("Var", 2)>>, <<>>)

ForInitialiser ==
    /\ Calling("for_initialiser")
    /\ CASE Peek = "SemiColon" -> Match(<<>>, <<Null>>)
         [] Peek = "Var" -> Match(<<Rule("var_declaration")>>, <<>>)
         [] OTHER -> Step(<<Rule("expression_statement")>>, <<>>)

\* The end of for_statement, which makes a while loop in a block.
Plus(ns, type, parts) == Append(ns, [type |-> type, parts |-> parts])
Top(ns) == Tree(Len(ns))
BadRound(ns, body, increment) ==    \* the increment before the body
    LET step == Plus(ns, "Expression", <<increment>>)
    IN  Plus(step, "Block", <<Top(step), body>>)
Round(ns, body, increment) ==
    LET step == Plus(ns, "Expression", <<increment>>)
    IN  Plus(step, "Block", <<body, Top(step)>>)

BadForDesugared ==                  \* a condition left out stays so
    LET part == Held(4)
        round == IF part[3] = Null THEN nodes ELSE Round(nodes, part[4], part[3])
        body == IF part[3] = Null THEN part[4] ELSE Top(round)
        loop == Plus(round, "While", <<part[2], body>>)
        all == IF part[1] = Null THEN loop
               ELSE Plus(loop, "Block", <<part[1], Top(loop)>>)
    IN  /\ Calling("for_desugared")
        /\ nodes' = all
        /\ held' = Append(SubSeq(held, 1, Len(held) - 4), Top(all))
        /\ todo' = Tail(todo)
        /\ UNCHANGED <<source, errors>>
ForDesugared ==
    LET part == Held(4)             \* initialiser, condition, increment, body
        round == IF part[3] = Null THEN nodes ELSE Round(nodes, part[4], part[3])
        body == IF part[3] = Null THEN part[4] ELSE Top(round)
        test == IF part[2] = Null THEN Plus(round, "Literal", <<>>) ELSE round
        loop == Plus(test, "While",
                     <<IF part[2] = Null THEN Top(test) ELSE part[2], body>>)
        all == IF part[1] = Null THEN loop
               ELSE Plus(loop, "Block", <<part[1], Top(loop)>>)
    IN  /\ Calling("for_desugared")
        /\ nodes' = all
        /\ held' = Append(SubSeq(held, 1, Len(held) - 4), Top(all))
        /\ todo' = Tail(todo)
        /\ UNCHANGED <<source, errors>>

\* The loop of block: the node has n parts so far, the statements the last.
NextStatement ==
    /\ Calling("statements")
    /\ IF Peek \notin {"RightBrace", "Eof"}
       THEN Step(<<Rule("declaration"), Statements(Task.type, Task.n + 1)>>, <<>>)
       ELSE Step(<<Want("RightBrace"), Make(Task.type, Task.n)>>, <<>>)

\* The loops over parameters and arguments.  The node has n parts so far, the
\* first of which is the name or the callee.
List(type, n) == [is |-> "list", type |-> type, n |-> n]
Item(type, n) == [is |-> "item", type |-> type, n |-> n]
EndOfList(type, n) ==
    IF type = "Call" THEN <<Keep("RightParen"), Make("Call", n + 1)>>
    ELSE <<Want("RightParen"), Want("LeftBrace"), Statements("Function", n)>>

FunctionRule ==
    /\ Calling("function")
    /\ Step(<<Keep("Identifier"), Want("LeftParen"), List("Function", 1)>>, <<>>)

BeginList ==
    /\ Calling("list")
    /\ IF Peek = "RightParen" THEN Step(EndOfList(Task.type, Task.n), <<>>)
       ELSE Step(<<Item(Task.type, Task.n)>>, <<>>)

MaxItems == 8

\* The error of a ninth item is reported and not thrown.
BadListItem ==                      \* reported one too late
    /\ Calling("item")
    /\ Do(<<IF Task.type = "Call" THEN Rule("expression") ELSE Keep("Identifier"),
            [is |-> "comma", type |-> Task.type, n |-> Task.n + 1]>>, <<>>)
    /\ IF Task.n - 1 > MaxItems THEN Error("limit", At) ELSE UNCHANGED errors
    /\ UNCHANGED source
ListItem ==
    /\ Calling("item")
    /\ Do(<<IF Task.type = "Call" THEN Rule("expression") ELSE Keep("Identifier"),
            [is |-> "comma", type |-> Task.type, n |-> Task.n + 1]>>, <<>>)
    /\ IF Task.n - 1 >= MaxItems THEN Error("limit", At) ELSE UNCHANGED errors
    /\ UNCHANGED source

NextItem ==
    /\ Calling("comma")
    /\ IF Peek = "Comma" THEN Match(<<Item(Task.type, Task.n)>>, <<>>)
       ELSE Step(EndOfList(Task.type, Task.n), <<>>)

-----------------------------------------------------------------------------
(* Expressions.                                                            *)

\* logical_or, logical_and, equality, comparison, addition, multiplication
Levels ==
    << {"Or"}, {"And"}, {"BangEqual", "EqualEqual"},
       {"Greater", "GreaterEqual", "Less", "LessEqual"},
       {"Minus", "Plus"}, {"Slash", "Star"} >>

\* A call of the function of a level calls those of the levels below it, down to
\* unary, and then each looks for its operators.
Operators(level) == [is |-> "operators", level |-> level]
Operand(level) ==
    <<Rule("unary")>> \o [i \in 1 .. 7 - level |-> Operators(7 - i)]

Assignment ==
    /\ Calling("expression")
    /\ Step(Operand(1) \o <<Rule("assignment")>>, <<>>)

BadNextOperator ==                  \* the operator becomes right associative
    LET level == Task.level
    IN  /\ Calling("operators")
        /\ IF Peek \in Levels[level]
           THEN Match(Operand(level)
                          \o <<Make(IF level <= 2 THEN "Logical" ELSE "Binary", 3)>>,
                      <<Token(At)>>)
           ELSE Step(<<>>, <<>>)
NextOperator ==
    LET level == Task.level
    IN  /\ Calling("operators")
        /\ IF Peek \in Levels[level]
           THEN Match(Operand(level + 1)
                          \o <<Make(IF level <= 2 THEN "Logical" ELSE "Binary", 3),
                               Operators(level)>>,
                      <<Token(At)>>)
           ELSE Step(<<>>, <<>>)

\* assignment after logical_or
AssignmentValue ==
    /\ Calling("assignment")
    /\ IF Peek = "Equal"
       THEN Match(<<Rule("expression"), Rule("assign")>>, <<Token(At)>>)
       ELSE Step(<<>>, <<>>)

\* assignment after the value: the target, the "=" and the value are held.
BadAssignTo ==                      \* any expression is a target
    LET part == Held(3)
    IN  /\ Calling("assign")
        /\ MakeNode("Set", nodes[part[1].at].parts \o <<part[3]>>, 3)
AssignTo ==
    LET part == Held(3)
        target == nodes[part[1].at]
    IN  /\ Calling("assign")
        /\ CASE target.type = "Variable" ->
                    MakeNode("Assign", target.parts \o <<part[3]>>, 3)
             [] target.type = "Get" ->
                    MakeNode("Set", target.parts \o <<part[3]>>, 3)
             [] OTHER ->
                    /\ Error("target", part[2].at)
                    /\ held' = SubSeq(held, 1, Len(held) - 2)
                    /\ todo' = Tail(todo)
                    /\ UNCHANGED <<source, nodes>>

Unary ==
    /\ Calling("unary")
    /\ IF Peek \in {"Bang", "Minus"}
       THEN Match(<<Rule("unary"), Make("Unary", 2)>>, <<Token(At)>>)
       ELSE Step(<<Rule("primary"), Rule("call")>>, <<>>)

\* A round of the loop of call, with finish_call.
CallOrGet ==
    /\ Calling("call")
    /\ CASE Peek = "LeftParen" -> Match(<<List("Call", 1), Rule("call")>>, <<>>)
         [] Peek = "Dot" ->
                Match(<<Keep("Identifier"), Make("Get", 2), Rule("call")>>, <<>>)
         [] OTHER -> Step(<<>>, <<>>)

Leaf ==
    [False |-> "Literal", True |-> "Literal", Nil |-> "Literal",
     Number |-> "Literal", String |-> "Literal",
     This |-> "This", Identifier |-> "Variable"]

Primary ==
    /\ Calling("primary")
    /\ CASE Peek \in DOMAIN Leaf -> Match(<<Make(Leaf[Peek], 1)>>, <<Token(At)>>)
         [] Peek = "LeftParen" ->
                Match(<<Rule("expression"), Want("RightParen"),
                        Make("Grouping", 1)>>, <<>>)
         [] Peek = "Super" ->
                Match(<<Want("Dot"), Keep("Identifier"), Make("Super", 2)>>,
                      <<Token(At)>>)
         [] OTHER -> Throw

-----------------------------------------------------------------------------
(* Recovery, and the loop of parse.                                        *)

Synchronise ==
    Calling("synchronise") /\ Match(<<Rule("synchronising")>>, <<>>)

Boundaries ==
    {"Class", "Fun", "Var", "For", "If", "While", "Print", "Return"}

BadSynchronising ==                 \* a closing brace is left to the caller
    /\ Calling("synchronising")
    /\ IF Peek = "Eof" \/ tokens[At - 1] = "SemiColon" \/ Peek \in Boundaries
       THEN Step(<<>>, <<>>)
       ELSE IF Peek = "RightBrace" THEN Step(<<Task>>, <<>>)
       ELSE Match(<<Task>>, <<>>)
Synchronising ==
    /\ Calling("synchronising")
    /\ IF Peek = "Eof" \/ tokens[At - 1] = "SemiColon" \/ Peek \in Boundaries
       THEN Step(<<>>, <<>>)
       ELSE Match(<<Task>>, <<>>)

Parse ==
    /\ Calling("parse")
    /\ IF Peek = "Eof" THEN Step(<<>>, <<>>)
       ELSE Step(<<Rule("declaration"), Task>>, <<>>)

Init ==
    /\ input \in Inputs
    /\ \E t \in KindsAt(1) : tokens = <<t>>
    /\ todo = <<Rule("parse")>>
    /\ held = <<>> /\ nodes = <<>> /\ errors = <<>>

Next ==
    \/ Parse \/ Declaration \/ EndDeclaration \/ ClassDeclaration \/ NextMethod
    \/ Statement \/ ExpressionStatement \/ VarDeclaration
    \/ ForInitialiser \/ ForDesugared \/ NextStatement \/ FunctionRule
    \/ BeginList \/ ListItem \/ NextItem
    \/ Assignment \/ NextOperator \/ AssignmentValue \/ AssignTo
    \/ Unary \/ CallOrGet \/ Primary
    \/ Consume \/ MakeTree \/ ExpressionUnless \/ AfterMatch
    \/ Synchronise \/ Synchronising

Finished == todo = <<>>

ParserSpec == Init /\ [][Next]_vars

-----------------------------------------------------------------------------
\* Every variable has values of its type.
TypeOK ==
    /\ \A i \in DOMAIN tokens : tokens[i] \in KindsAt(i)
    /\ \A i \in DOMAIN held :
           /\ held[i].is \in {"token", "tree", "null"}
           /\ held[i].is = "token" => held[i].at \in DOMAIN tokens
           /\ held[i].is = "tree" => held[i].at \in DOMAIN nodes
    /\ \A i \in DOMAIN errors :
           /\ errors[i].kind \in {"syntax", "target", "limit"}
           /\ errors[i].at \in DOMAIN tokens

-----------------------------------------------------------------------------
(* What the constructors of the nodes take (Expr.hpp, Stmt.hpp).           *)

Expressions ==
    {"Assign", "Binary", "Call", "Get", "Grouping", "Literal", "Logical", "Set",
     "Super", "This", "Unary", "Variable"}
Commands ==
    {"Block", "Class", "Expression", "Function", "If", "Print", "Return", "Var",
     "While"}

\* What the parser has looked at, made and reported.
Made == [tokens |-> tokens, nodes |-> nodes, errors |-> errors]

\* A pointer to one of the first n nodes, of one of these types.
PointsTo(m, v, types, n) ==
    \E i \in 1 .. n : v = Tree(i) /\ m.nodes[i].type \in types

\* What a value is used as.  A statement of a list is a null pointer if its
\* declaration failed, and then a syntax error has been reported.
Sorts ==
    {"Token", "Expr", "Stmt", "Function", "OptionalExpr", "OptionalStmt", "Declared"}
Has(m, v, sort, n) ==
    CASE sort = "Token" -> \E i \in DOMAIN m.tokens : v = Token(i)
      [] sort = "Expr" -> PointsTo(m, v, Expressions, n)
      [] sort = "Stmt" -> PointsTo(m, v, Commands, n)
      [] sort = "Function" -> PointsTo(m, v, {"Function"}, n)
      [] sort = "OptionalExpr" -> v = Null \/ PointsTo(m, v, Expressions, n)
      [] sort = "OptionalStmt" -> v = Null \/ PointsTo(m, v, Commands, n)
      [] sort = "Declared" ->
             \/ PointsTo(m, v, Commands, n)
             \/ v = Null /\ \E i \in DOMAIN m.errors : m.errors[i].kind = "syntax"
SortsOf(m, values, n) ==
    [j \in 1 .. Len(values) |-> {sort \in Sorts : Has(m, values[j], sort, n)}]

Fields ==
    [type \in (Expressions \cup Commands) \ {"Call", "Block", "Class", "Function"} |->
        CASE type \in {"Literal", "This", "Variable"} -> <<"Token">>
          [] type \in {"Grouping", "Expression", "Print"} -> <<"Expr">>
          [] type \in {"Assign", "Unary"} -> <<"Token", "Expr">>
          [] type \in {"Binary", "Logical", "Set"} -> <<"Expr", "Token", "Expr">>
          [] type = "Get" -> <<"Expr", "Token">>
          [] type = "Super" -> <<"Token", "Token">>
          [] type \in {"Return", "Var"} -> <<"Token", "OptionalExpr">>
          [] type = "If" -> <<"Expr", "Stmt", "OptionalStmt">>
          [] type = "While" -> <<"Expr", "Stmt">>]

\* The n parts of a node, of which part j has the sorts f[j], are ones that its
\* constructor takes.
Takes(type, n, f) ==
    \/ /\ type \in DOMAIN Fields /\ n = Len(Fields[type])
       /\ \A j \in 1 .. n : Fields[type][j] \in f[j]
    \/ type = "Literal" /\ n = 0
    \/ type = "Block" /\ \A j \in 1 .. n : "Declared" \in f[j]
    \/ /\ type = "Call" /\ n >= 2 /\ "Token" \in f[n]
       /\ \A j \in 1 .. n - 1 : "Expr" \in f[j]
    \/ /\ type = "Function"
       /\ \E k \in 1 .. n : \A j \in 1 .. n :
              (IF j <= k THEN "Token" ELSE "Declared") \in f[j]
    \/ /\ type = "Class" /\ n >= 2
       /\ "Token" \in f[1] /\ "OptionalExpr" \in f[2]
       /\ \A j \in 3 .. n : "Function" \in f[j]

Formed(m, i) ==
    LET node == m.nodes[i]
    IN  Takes(node.type, Len(node.parts), SortsOf(m, node.parts, i - 1))

\* Every node of a syntax tree has the parts that its constructor takes: a token,
\* an expression or a statement where one is expected, made before it, and a null
\* pointer only where a part can be left out or, in a list of statements, when a
\* syntax error has been reported.  So is what parse returns.  Neither the parser, which looks
\* at the targets of assignments and casts methods to functions, nor the compiler
\* looks whether these pointers are null.
TreesFormed ==
    /\ \A i \in DOMAIN nodes : Formed(Made, i)
    /\ Finished =>
           \A j \in DOMAIN held : Has(Made, held[j], "Declared", Len(nodes))

\* Wherever the parser may throw a ParseError, a declaration is being parsed that
\* catches it: none leaves parse, to end the program.
ErrorsCaught ==
    Calling("consume") \/ Calling("primary") => \E i \in DOMAIN todo : Catches(i)
=============================================================================
