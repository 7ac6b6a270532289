------------------------------- MODULE MCLox -------------------------------
EXTENDS Lox

L == INSTANCE LoxPrograms

\* One name for each value of a byte.
Names == <<"a", "b", "c", "d", "e", "f", "g", "h", "i", "j", "k", "l", "m", "n",
           "o", "p", "q", "r", "s", "t", "u", "v", "w", "x">>

Limits ==
    <<L!ManyLocals(Names)>> \o L!ManyLiterals(MaxConstants)
        \o L!ManyLiterals(MaxConstants + 1)
        \o L!LongJumps(42) \o L!LongJumps(43) \o L!LongJumps(48)
        \o L!LongJumps(49) \o L!LongJumps(50)

MainSources ==
    Limits \o L!Rejected \o L!Closures \o L!Counters \o L!LoopVariables
        \o L!Objects \o L!Fields \o L!Subclasses \o L!Nesting
        \o L!Expressions \o L!Recursion \o L!Scopes

\* The trees of the programs are the ones the proofs are about: Sources and the set
\* of their subtrees are Given (InterpreterProofs).
Shape == INSTANCE Trees

One == {"left", "right", "expression", "callee", "object", "condition", "then",
        "else", "superclass", "initialiser"}
Many == {"statements", "arguments", "methods"}

Children(t) ==
    {t[f] : f \in DOMAIN t \cap One}
        \cup (IF t.is \in {"Assign", "Set", "Return"} THEN {t.value} ELSE {})
        \cup (IF t.is = "While" THEN {t.body} ELSE {})
        \cup (IF t.is = "Function" THEN Range(t.body) ELSE {})
        \cup UNION {Range(t[f]) : f \in DOMAIN t \cap Many}

RECURSIVE Subtrees(_)
Subtrees(t) == {t} \cup UNION {Subtrees(c) : c \in Children(t) \ {Absent}}

ASSUME SourcesAreTrees ==
    \A i \in DOMAIN Sources :
        LET T == UNION {Subtrees(Sources[i][k]) : k \in DOMAIN Sources[i]}
        IN  Shape!AreTrees(T) /\ Sources[i] \in Seq(T)

Loops == L!Loops
OrWithFalsyLeft == L!OrWithFalsyLeft
=============================================================================
