-------------------------------- MODULE Trees --------------------------------
(***************************************************************************)
(* The shape of the syntax trees (src/src/Expr.hpp and Stmt.hpp): which    *)
(* classes there are and what their fields hold.  LoxSyntax makes them.    *)
(***************************************************************************)
EXTENDS Values, AnySequence

TreeKinds ==
    {"Literal", "Variable", "Assign", "Grouping", "Unary", "Binary", "Logical",
     "Call", "Get", "Set", "This", "Super", "Block", "Class", "Function",
     "Var", "Expression", "Print", "If", "While", "Return"}

BinaryOps ==
    {"Plus", "Minus", "Star", "Slash", "Less", "LessEqual", "Greater",
     "GreaterEqual", "EqualEqual", "BangEqual"}

IsFunction(t) == t.is = "Function"

\* What a node has in the places where the compiler looks for subtrees.
NodeOK(T, t) ==
    /\ t.is \in TreeKinds
    /\ t.is = "Literal" => ~Is(t.value, "obj")
    /\ t.is = "Assign" => t.value \in T
    /\ t.is \in {"Grouping", "Expression", "Print"} => t.expression \in T
    /\ t.is = "Unary" => t.right \in T
    /\ t.is \in {"Binary", "Logical"} => t.left \in T /\ t.right \in T
    /\ t.is = "Binary" => t.op \in BinaryOps
    /\ t.is = "Call" =>
           /\ t.arguments \in Seq(T)
           /\ IF t.callee.is = "Get" THEN t.callee.object \in T ELSE t.callee \in T
    /\ t.is = "Get" => t.object \in T
    /\ t.is = "Set" => t.object \in T /\ t.value \in T
    /\ t.is = "Block" => t.statements \in Seq(T)
    /\ t.is = "Class" =>
           /\ t.superclass = Absent \/ t.superclass \in T
           /\ t.methods \in Seq({m \in T : IsFunction(m)})
    /\ t.is = "Function" => IsSeq(t.parameters) /\ t.body \in Seq(T)
    /\ t.is = "Var" => t.initialiser = Absent \/ t.initialiser \in T
    /\ t.is = "If" =>
           /\ t.condition \in T /\ t.then \in T
           /\ t.else = Absent \/ t.else \in T
    /\ t.is = "While" => t.condition \in T /\ t.body \in T
    /\ t.is = "Return" => t.value = Absent \/ t.value \in T

\* A set of trees that has the subtrees of its members.
AreTrees(T) == \A t \in T : NodeOK(T, t)
=============================================================================
