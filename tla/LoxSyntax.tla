----------------------------- MODULE LoxSyntax -----------------------------
(***************************************************************************)
(* The syntax trees of Lox (src/src/Expr.hpp and Stmt.hpp), which the      *)
(* parser makes and the compiler visits.  A node is a record; "is" names   *)
(* its class.  Tokens are their lexemes, operators the names of their      *)
(* token types.                                                            *)
(***************************************************************************)
EXTENDS Values

\* Expressions
Assign(name, value) == [is |-> "Assign", name |-> name, value |-> value]
Binary(left, op, right) ==
    [is |-> "Binary", left |-> left, op |-> op, right |-> right]
Call(callee, arguments) ==
    [is |-> "Call", callee |-> callee, arguments |-> arguments]
Get(object, name) == [is |-> "Get", object |-> object, name |-> name]
Grouping(expression) == [is |-> "Grouping", expression |-> expression]
Literal(value) == [is |-> "Literal", value |-> value]
Logical(left, op, right) ==
    [is |-> "Logical", left |-> left, op |-> op, right |-> right]
Set(object, name, value) ==
    [is |-> "Set", object |-> object, name |-> name, value |-> value]
Super(method) == [is |-> "Super", method |-> method]
This == [is |-> "This"]
Unary(op, right) == [is |-> "Unary", op |-> op, right |-> right]
Variable(name) == [is |-> "Variable", name |-> name]

\* Statements
Block(statements) == [is |-> "Block", statements |-> statements]
Class(name, superclass, methods) ==
    [is |-> "Class", name |-> name, superclass |-> superclass,
     methods |-> methods]
Expression(expression) == [is |-> "Expression", expression |-> expression]
Function(name, parameters, body) ==
    [is |-> "Function", name |-> name, parameters |-> parameters,
     body |-> body]
If(condition, then, else) ==
    [is |-> "If", condition |-> condition, then |-> then, else |-> else]
PrintStmt(expression) == [is |-> "Print", expression |-> expression]
Return(value) == [is |-> "Return", value |-> value]
Var(name, initialiser) ==
    [is |-> "Var", name |-> name, initialiser |-> initialiser]
While(condition, body) ==
    [is |-> "While", condition |-> condition, body |-> body]

\* for_statement: the parser makes a while loop of a for loop.
For(initialiser, condition, increment, body) ==
    LET round == IF increment = Absent THEN body
                 ELSE Block(<<body, Expression(increment)>>)
        loop == While(IF condition = Absent THEN Literal(Bool(TRUE))
                      ELSE condition, round)
    IN  IF initialiser = Absent THEN loop ELSE Block(<<initialiser, loop>>)
=============================================================================
