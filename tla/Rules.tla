------------------------------- MODULE Rules -------------------------------
(***************************************************************************)
(* Which Lox programs must be rejected before they run.  The rules are     *)
(* those of the tests of the repository, each named below; they are stated *)
(* on syntax trees and know nothing of how the compiler finds them out.    *)
(***************************************************************************)
EXTENDS LoxSyntax, FiniteSets

LOCAL INSTANCE SequencesExt

CONSTANT MaxConstants

\* The nodes that are parts of a node, without the bodies of functions.
Parts(n) ==
    CASE n.is = "Assign" -> <<n.value>>
      [] n.is = "Set" -> <<n.object, n.value>>
      [] n.is \in {"Binary", "Logical"} -> <<n.left, n.right>>
      [] n.is = "Call" -> <<n.callee>> \o n.arguments
      [] n.is = "Get" -> <<n.object>>
      [] n.is = "Unary" -> <<n.right>>
      [] n.is \in {"Grouping", "Expression", "Print"} -> <<n.expression>>
      [] n.is = "Return" -> <<n.value>>
      [] n.is = "Var" -> <<n.initialiser>>
      [] n.is = "If" -> <<n.condition, n.then, n.else>>
      [] n.is = "While" -> <<n.condition, n.body>>
      [] n.is = "Class" -> <<n.superclass>>
      [] n.is = "Block" -> n.statements
      [] OTHER -> <<>>

Some(Test(_), nodes) == \E i \in DOMAIN nodes : Test(nodes[i])

\* The names that a list of statements declares in its scope; that of a class is
\* global.
Declared(stmts) ==
    LET Declares(s) == s.is \in {"Var", "Function"}
        decls == SelectSeq(stmts, Declares)
    IN  [i \in DOMAIN decls |-> decls[i].name]

Repeats(names) == ~IsInjective(names)

\* Where a node stands: the kind of the innermost function ("None" outside), the
\* kind of the innermost class, whether variables are local here, and the local
\* that is being initialised ("" if none is).
Outside == [fn |-> "None", cls |-> "None", local |-> FALSE, own |-> ""]

\* src/tests/return/at_top_level.lox, constructor/return_value.lox
WrongReturn(n, x) ==
    n.is = "Return" /\ ( \/ x.fn = "None"
                         \/ x.fn = "Initialiser" /\ n.value # Absent )

\* src/tests/this/this_at_top_level.lox, this_in_top_level_function.lox
WrongThis(n, x) == n.is = "This" /\ x.cls = "None"

\* src/tests/super/super_at_top_level.lox, no_superclass_call.lox
WrongSuper(n, x) == n.is = "Super" /\ x.cls # "Subclass"

\* src/tests/variable/use_local_in_initializer.lox
OwnInitialiser(n, x) == n.is \in {"Variable", "Assign"} /\ n.name = x.own

\* src/tests/variable/duplicate_local.lox
DuplicateLocal(n) == n.is = "Block" /\ Repeats(Declared(n.statements))

\* Where the parts of a node stand.
Inside(n, x) ==
    CASE n.is = "Block" -> [x EXCEPT !.local = TRUE]
      [] n.is = "Var" /\ x.local -> [x EXCEPT !.own = n.name]
      [] OTHER -> x

RECURSIVE Broken(_, _)
RECURSIVE FunctionBroken(_, _)

\* A node breaks a rule, or a part of it does.
Broken(n, x) ==
    \/ WrongReturn(n, x) \/ WrongThis(n, x) \/ WrongSuper(n, x)
    \/ OwnInitialiser(n, x) \/ DuplicateLocal(n)
    \/ Some(LAMBDA p : Broken(p, Inside(n, x)), Parts(n))
    \/ n.is = "Function" /\ FunctionBroken(n, [x EXCEPT !.fn = "Function"])
    \/ /\ n.is = "Class"
       /\ LET cls == IF n.superclass = Absent THEN "Superclass" ELSE "Subclass"
              Method(f) == IF f.name = "init" THEN "Initialiser" ELSE "Method"
          IN  Some(LAMBDA f : FunctionBroken(f, [x EXCEPT !.cls = cls,
                                                         !.fn = Method(f)]),
                  n.methods)

\* Parameters share the scope of the body (variable/duplicate_parameter.lox,
\* collide_with_parameter.lox).
FunctionBroken(f, x) ==
    \/ Repeats(f.parameters \o Declared(f.body))
    \/ Some(LAMBDA s : Broken(s, [x EXCEPT !.local = TRUE, !.own = ""]), f.body)

BreaksRule(stmts) == Some(LAMBDA s : Broken(s, Outside), stmts)

-----------------------------------------------------------------------------
RECURSIVE LiteralsIn(_)

\* The literals among these nodes that are constants of one code object.
LiteralsIn(nodes) ==
    UNION {LET n == nodes[i]
           IN  IF n.is = "Literal" /\ (Is(n.value, "num") \/ Is(n.value, "str"))
               THEN {n.value} ELSE LiteralsIn(Parts(n))
           : i \in DOMAIN nodes}

TooMany(nodes) == Cardinality(LiteralsIn(nodes)) > MaxConstants

RECURSIVE TooManyLiterals(_)

\* Some body in or under these nodes has more literals than fit.
TooManyLiterals(nodes) ==
    \/ TooMany(nodes)
    \/ Some(LAMBDA n :
               \/ Parts(n) # <<>> /\ TooManyLiterals(Parts(n))
               \/ n.is = "Function" /\ TooManyLiterals(n.body)
               \/ n.is = "Class" /\
                      Some(LAMBDA f : TooManyLiterals(f.body), n.methods),
           nodes)
=============================================================================
