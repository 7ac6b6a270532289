--------------------------- MODULE CompilerProofs ---------------------------
(***************************************************************************)
(* What the compiler hands over fits the machine (ProgramFits of           *)
(* Bytecode).  The invariant, Sound, says of a moment between two tasks    *)
(* what the remaining ones count on: a plan names, for each visitor under  *)
(* way, the marks it has left, whether they are jumps or labels and of     *)
(* which function, and each task leads from one plan to the next, so that  *)
(* the last one leads to the end, where no jump is without its target.     *)
(*                                                                         *)
(* The trees are those of a set T that has the subtrees of its members     *)
(* (Trees), which is how a theorem speaks of trees of any depth.           *)
(***************************************************************************)
EXTENDS Compiler, Trees, SequenceLemmas

-----------------------------------------------------------------------------
(* The state.                                                              *)

IsScope(f) ==
    /\ f = [type |-> f.type, depth |-> f.depth, ups |-> f.ups, code |-> f.code,
            constants |-> f.constants, locals |-> f.locals]
    /\ IsSeq(f.ups) /\ IsSeq(f.code) /\ IsSeq(f.locals)

ScopeOK(c, k) ==
    LET f == c.scopes[k]
    IN  /\ IsScope(f)
        /\ \A i \in 1 .. Len(f.code) : RefersWell(f.code[i], f.ups, c.funs)
        /\ k = 1 => f.ups = <<>>
        /\ k > 1 => \A u \in 1 .. Len(f.ups) :
                        InReach(f.ups[u], c.scopes[k - 1].ups)

StateOK(c) ==
    /\ c = [scopes |-> c.scopes, funs |-> c.funs, cls |-> c.cls,
            marks |-> c.marks, failed |-> c.failed, looping |-> c.looping]
    /\ IsSeq(c.scopes) /\ Len(c.scopes) > 0
    /\ IsSeq(c.funs) /\ Len(c.funs) > 0
    /\ IsSeq(c.marks)
    /\ \A k \in 1 .. Len(c.scopes) : ScopeOK(c, k)
    /\ \A g \in 2 .. Len(c.funs) : FunctionFits(c.funs, g)

-----------------------------------------------------------------------------
(* The plan: what the tasks do with the marks and the scopes.              *)

Jumps(level) == [is |-> "jump", level |-> level]
Label(level) == [is |-> "label", level |-> level]
At(marks, level) == [marks |-> marks, level |-> level]

PlainIns(ins) ==
    /\ ~IsJump(ins) /\ ins[1] \notin {"GetUpvalue", "SetUpvalue", "CreateClosure"}
    /\ ins[1] = "Literal" => ~Is(ins[2], "obj")
    /\ ins[1] = "Call" => ins[2] \in Nat
    /\ ins[1] = "Invoke" => ins[3] \in Nat

\* A task that leaves the marks and the scopes as they were, in the end.
Neutral(T, t) ==
    \/ t \in T
    \/ t.is = "Add" /\ PlainIns(t.ins)
    \/ t.is \in {"Assigned", "EndBlock", "EndClass", "Define"}
    \/ t.is = "Method" /\ t.fn \in T /\ IsFunction(t.fn)

TaskOK(T, t, a, b) ==
    \/ Neutral(T, t) /\ b = a
    \/ /\ t.is = "AddJump" /\ t.op \in {"Jump", "ConditionalJump"}
       /\ b = At(Append(a.marks, Jumps(a.level)), a.level)
    \/ /\ t.is = "PatchJump" /\ t.n \in 1 .. Len(a.marks)
       /\ LET i == Len(a.marks) + 1 - t.n
          IN  /\ a.marks[i] = Jumps(a.level)
              /\ b = At(RemoveAt(a.marks, i), a.level)
    \/ /\ t.is = "AddLoop" /\ Len(a.marks) > 1
       /\ LET i == Len(a.marks) - 1
          IN  /\ a.marks[i] = Label(a.level)
              /\ b = At(RemoveAt(a.marks, i), a.level)
    \/ /\ t.is = "EndFunction" /\ a.level > 1
       /\ \A i \in 1 .. Len(a.marks) : a.marks[i].level < a.level
       /\ b = At(a.marks, a.level - 1)

\* The tasks lead from a to b.
Leads(T, tasks, a, b) ==
    \E e : /\ e[0] = a /\ e[Len(tasks)] = b
           /\ \A i \in 1 .. Len(tasks) : TaskOK(T, tasks[i], e[i - 1], e[i])

\* The marks of c are as a says, and every jump has a target or is marked.
MarkOK(c, a, m) ==
    LET k == a.marks[m].level
        i == c.marks[m]
        code == c.scopes[k].code
    IN  /\ k \in 1 .. a.level
        /\ \/ a.marks[m] = Jumps(k) /\ i \in 1 .. Len(code) /\ IsJump(code[i])
              /\ code[i] = <<code[i][1], code[i][2]>>
           \/ a.marks[m] = Label(k) /\ i \in 1 .. Len(code) + 1

JumpOK(c, a, k, i) ==
    LET code == c.scopes[k].code
    IN  IsJump(code[i]) =>
            \/ code[i][2] \in 1 .. Len(code) + 1
            \/ \E m \in 1 .. Len(c.marks) : c.marks[m] = i /\ a.marks[m] = Jumps(k)

Follows(c, a) ==
    /\ IsSeq(a.marks)
    /\ a.level = Len(c.scopes) /\ Len(a.marks) = Len(c.marks)
    /\ \A m \in 1 .. Len(c.marks) : MarkOK(c, a, m)
    /\ \A k \in 1 .. Len(c.scopes) :
           \A i \in 1 .. Len(c.scopes[k].code) : JumpOK(c, a, k, i)
End == At(<<>>, 1)

-----------------------------------------------------------------------------
(* Steps of the compiler on the innermost function.                        *)

\* Code that is appended to, without jumps.
CodeGrows(s, t) ==
    /\ Len(s) <= Len(t)
    /\ \A i \in 1 .. Len(s) : t[i] = s[i]
    /\ \A i \in Len(s) + 1 .. Len(t) : ~IsJump(t[i])

ScopeGrows(f, g) == CodeGrows(f.code, g.code) /\ Len(f.ups) <= Len(g.ups)

\* What the visitors do to a state that is right.
Evolves(c, d) ==
    /\ StateOK(d)
    /\ d.marks = c.marks /\ d.funs = c.funs /\ Len(d.scopes) = Len(c.scopes)
    /\ \A k \in 1 .. Len(c.scopes) : ScopeGrows(c.scopes[k], d.scopes[k])

LEMMA CodeGrowsTrans ==
    ASSUME NEW r, IsSeq(r), NEW s, IsSeq(s), NEW t, IsSeq(t),
           CodeGrows(r, s), CodeGrows(s, t)
    PROVE  CodeGrows(r, t)
<1>1. Len(r) \in Nat /\ Len(s) \in Nat /\ Len(t) \in Nat
  BY DEF IsSeq
<1>2. \A i \in 1 .. Len(r) : i \in 1 .. Len(s)
  BY <1>1 DEF CodeGrows
<1>3. ASSUME NEW i \in Len(r) + 1 .. Len(t) PROVE ~IsJump(t[i])
  <2>1. i \in Len(r) + 1 .. Len(s) \/ i \in Len(s) + 1 .. Len(t)
    BY <1>1
  <2>2. i \in Len(r) + 1 .. Len(s) => i \in 1 .. Len(s)
    BY <1>1
  <2> QED  BY <2>1, <2>2 DEF CodeGrows, IsJump
<1> QED  BY <1>1, <1>2, <1>3 DEF CodeGrows

LEMMA ScopesAre ==
    ASSUME NEW c, StateOK(c), NEW k \in 1 .. Len(c.scopes)
    PROVE  LET f == c.scopes[k]
           IN  /\ ScopeOK(c, k) /\ IsScope(f)
               /\ IsSeq(f.code) /\ IsSeq(f.ups) /\ IsSeq(f.locals)
               /\ Len(f.code) \in Nat /\ Len(f.ups) \in Nat
               /\ Len(f.locals) \in Nat
BY DEF StateOK, ScopeOK, IsScope, IsSeq

LEMMA EvolvesTrans ==
    ASSUME NEW c, StateOK(c), NEW d, Evolves(c, d), NEW e, Evolves(d, e)
    PROVE  Evolves(c, e)
<1> SUFFICES ASSUME NEW k \in 1 .. Len(c.scopes)
             PROVE  ScopeGrows(c.scopes[k], e.scopes[k])
  BY DEF Evolves
<1>1. k \in 1 .. Len(d.scopes) /\ k \in 1 .. Len(e.scopes)
  BY DEF Evolves
<1>2. StateOK(d) /\ StateOK(e)
  BY DEF Evolves
<1> DEFINE f == c.scopes[k]
    g == d.scopes[k]
    h == e.scopes[k]
<1>3. /\ IsSeq(f.code) /\ IsSeq(g.code) /\ IsSeq(h.code)
      /\ Len(f.ups) \in Nat /\ Len(g.ups) \in Nat /\ Len(h.ups) \in Nat
  BY <1>1, <1>2, ScopesAre
<1>4. ScopeGrows(f, g) /\ ScopeGrows(g, h)
  BY <1>1 DEF Evolves
<1> HIDE DEF f, g, h
<1>5. ScopeGrows(f, h)
  BY <1>3, <1>4, CodeGrowsTrans DEF ScopeGrows
<1> QED  BY <1>5 DEF f, h

\* What is referred to is still there when there is more.
LEMMA ReachKept ==
    ASSUME NEW s, IsSeq(s), NEW t, IsSeq(t), Len(s) <= Len(t)
    PROVE  /\ \A u : InReach(u, s) => InReach(u, t)
           /\ \A ins, p : RefersWell(ins, s, p) => RefersWell(ins, t, p)
<1>1. \A x \in 1 .. Len(s) : x \in 1 .. Len(t)
  BY DEF IsSeq
<1>2. \A u : InReach(u, s) => InReach(u, t)
  BY <1>1 DEF InReach
<1> QED  BY <1>1, <1>2 DEF RefersWell

\* Scope k of c is f in d, and the rest is as it was.
WithScope(c, d, k, f) ==
    d = [scopes |-> [c.scopes EXCEPT ![k] = f], funs |-> c.funs, cls |-> d.cls,
         marks |-> c.marks, failed |-> d.failed, looping |-> d.looping]

LEMMA ScopeReplaced ==
    ASSUME NEW c, StateOK(c), NEW k \in 1 .. Len(c.scopes),
           NEW f, IsScope(f), ScopeGrows(c.scopes[k], f),
           \A i \in Len(c.scopes[k].code) + 1 .. Len(f.code) :
               RefersWell(f.code[i], f.ups, c.funs),
           k = 1 => f.ups = <<>>,
           k > 1 => \A u \in 1 .. Len(f.ups) :
                        InReach(f.ups[u], c.scopes[k - 1].ups),
           NEW d, WithScope(c, d, k, f)
    PROVE  Evolves(c, d)
<1> DEFINE n == Len(c.scopes)
    g == c.scopes[k]
<1>1. n \in Nat /\ n > 0 /\ c.scopes = [j \in 1 .. n |-> c.scopes[j]]
  BY DEF StateOK, IsSeq
<1>2. d = [scopes |-> d.scopes, funs |-> d.funs, cls |-> d.cls,
           marks |-> d.marks, failed |-> d.failed, looping |-> d.looping]
      /\ d.scopes = [c.scopes EXCEPT ![k] = f]
      /\ d.funs = c.funs /\ d.marks = c.marks
  BY DEF WithScope
<1>3. /\ d.scopes = [j \in 1 .. n |-> d.scopes[j]]
      /\ d.scopes[k] = f
      /\ \A j \in 1 .. n : j # k => d.scopes[j] = c.scopes[j]
  BY <1>1, <1>2
<1>4. IsSeq(d.scopes) /\ Len(d.scopes) = n
  BY <1>1, <1>3, FunctionIsSeq
<1>5. /\ IsSeq(g.ups) /\ IsSeq(f.ups) /\ Len(g.ups) <= Len(f.ups)
      /\ IsSeq(g.code) /\ IsSeq(f.code) /\ CodeGrows(g.code, f.code)
      /\ ScopeOK(c, k)
  BY ScopesAre DEF IsScope, ScopeGrows
<1>6. /\ \A u : InReach(u, g.ups) => InReach(u, f.ups)
      /\ \A ins, p : RefersWell(ins, g.ups, p) => RefersWell(ins, f.ups, p)
  BY <1>5, ReachKept
<1>7. ScopeOK(d, k)
  <2>1. ASSUME NEW i \in 1 .. Len(f.code)
        PROVE  RefersWell(f.code[i], f.ups, c.funs)
    <3>1. CASE i \in 1 .. Len(g.code)
      BY <1>5, <1>6, <3>1 DEF ScopeOK, CodeGrows
    <3>2. CASE i \notin 1 .. Len(g.code)
      <4>1. i \in Len(g.code) + 1 .. Len(f.code)
        BY <1>5, <3>2 DEF IsSeq
      <4> QED  BY <4>1
    <3> QED  BY <3>1, <3>2
  <2>2. k > 1 => k - 1 \in 1 .. n /\ k - 1 # k
    BY <1>1
  <2>3. k > 1 => d.scopes[k - 1] = c.scopes[k - 1]
    BY <1>3, <2>2
  <2> QED  BY <1>2, <1>3, <2>1, <2>3 DEF ScopeOK
<1>8. ASSUME NEW j \in 1 .. n, j # k PROVE ScopeOK(d, j)
  <2>1. ScopeOK(c, j) /\ d.scopes[j] = c.scopes[j]
    BY <1>3, <1>8 DEF StateOK
  <2>2. CASE j - 1 = k
    BY <1>2, <1>3, <1>6, <2>1, <2>2 DEF ScopeOK
  <2>3. CASE j - 1 # k
    <3>1. j > 1 => j - 1 \in 1 .. n
      BY <1>1
    <3>2. j > 1 => d.scopes[j - 1] = c.scopes[j - 1]
      BY <1>3, <2>3, <3>1
    <3> QED  BY <1>2, <2>1, <3>2 DEF ScopeOK
  <2> QED  BY <2>2, <2>3
<1>9. StateOK(d)
  BY <1>1, <1>2, <1>4, <1>7, <1>8 DEF StateOK
<1>10. ASSUME NEW j \in 1 .. n PROVE ScopeGrows(c.scopes[j], d.scopes[j])
  <2>1. CASE j = k
    BY <1>3, <2>1
  <2>2. CASE j # k
    <3> DEFINE h == c.scopes[j]
    <3>1. Len(h.code) \in Nat /\ Len(h.ups) \in Nat
      BY ScopesAre
    <3> HIDE DEF h
    <3>2. ScopeGrows(h, h)
      BY <3>1 DEF ScopeGrows, CodeGrows
    <3> QED  BY <1>3, <2>2, <3>2 DEF h
  <2> QED  BY <2>1, <2>2
<1> QED  BY <1>2, <1>4, <1>9, <1>10 DEF Evolves

\* The fields of a state and of a scope when some of them change.
LEMMA StateRecord ==
    ASSUME NEW c,
           c = [scopes |-> c.scopes, funs |-> c.funs, cls |-> c.cls,
                marks |-> c.marks, failed |-> c.failed, looping |-> c.looping]
    PROVE
           /\ \A x :
                  [c EXCEPT !.failed = x] =
                  [scopes |-> c.scopes, funs |-> c.funs, cls |-> c.cls,
                   marks |-> c.marks, failed |-> x, looping |-> c.looping]
           /\ \A x :
                  [c EXCEPT !.cls = x] =
                  [scopes |-> c.scopes, funs |-> c.funs, cls |-> x,
                   marks |-> c.marks, failed |-> c.failed,
                   looping |-> c.looping]
           /\ \A x :
                  [c EXCEPT !.marks = x] =
                  [scopes |-> c.scopes, funs |-> c.funs, cls |-> c.cls,
                   marks |-> x, failed |-> c.failed, looping |-> c.looping]
           /\ \A x :
                  [c EXCEPT !.scopes = x] =
                  [scopes |-> x, funs |-> c.funs, cls |-> c.cls,
                   marks |-> c.marks, failed |-> c.failed,
                   looping |-> c.looping]
           /\ \A x, y :
                  [c EXCEPT !.scopes = x, !.funs = y] =
                  [scopes |-> x, funs |-> y, cls |-> c.cls, marks |-> c.marks,
                   failed |-> c.failed, looping |-> c.looping]
           /\ \A x, n :
                  [c EXCEPT !.scopes[n] = x] =
                  [scopes |-> [c.scopes EXCEPT ![n] = x], funs |-> c.funs,
                   cls |-> c.cls, marks |-> c.marks, failed |-> c.failed,
                   looping |-> c.looping]
           /\ \A x, n :
                  [c EXCEPT !.scopes[n].locals = x] =
                  [scopes |-> [c.scopes EXCEPT ![n].locals = x],
                   funs |-> c.funs, cls |-> c.cls, marks |-> c.marks,
                   failed |-> c.failed, looping |-> c.looping]
           /\ \A x, n, y :
                  [c EXCEPT !.scopes[n].ups = x, !.looping = y] =
                  [scopes |-> [c.scopes EXCEPT ![n].ups = x],
                   funs |-> c.funs, cls |-> c.cls, marks |-> c.marks,
                   failed |-> c.failed, looping |-> y]
           /\ \A x, n, y :
                  [c EXCEPT !.scopes[n] = x, !.failed = y] =
                  [scopes |-> [c.scopes EXCEPT ![n] = x], funs |-> c.funs,
                   cls |-> c.cls, marks |-> c.marks, failed |-> y,
                   looping |-> c.looping]
<1> DEFINE s == c.scopes
    g == c.funs
    t == c.cls
    m == c.marks
    a == c.failed
    l == c.looping
<1>1. c = [scopes |-> s, funs |-> g, cls |-> t, marks |-> m, failed |-> a,
           looping |-> l]
  OBVIOUS
<1> HIDE DEF s, g, t, m, a, l
<1>2. ASSUME NEW x, NEW y
      PROVE  [c EXCEPT !.scopes = x, !.funs = y] =
             [scopes |-> x, funs |-> y, cls |-> t, marks |-> m, failed |-> a,
              looping |-> l]
  <2> DEFINE d == [c EXCEPT !.scopes = x]
  <2>1. d = [scopes |-> x, funs |-> g, cls |-> t, marks |-> m, failed |-> a,
             looping |-> l]
    BY <1>1
  <2>2. [c EXCEPT !.scopes = x, !.funs = y] = [d EXCEPT !.funs = y]
    OBVIOUS
  <2> HIDE DEF d
  <2> QED  BY <2>1, <2>2
<1>3. ASSUME NEW x, NEW n, NEW y
      PROVE  [c EXCEPT !.scopes[n].ups = x, !.looping = y] =
             [scopes |-> [s EXCEPT ![n].ups = x], funs |-> g, cls |-> t,
              marks |-> m, failed |-> a, looping |-> y]
  <2> DEFINE d == [c EXCEPT !.scopes[n].ups = x]
      r == [s EXCEPT ![n].ups = x]
  <2>1. d = [scopes |-> r, funs |-> g, cls |-> t, marks |-> m, failed |-> a,
             looping |-> l]
    BY <1>1
  <2>2. [c EXCEPT !.scopes[n].ups = x, !.looping = y] = [d EXCEPT !.looping = y]
    OBVIOUS
  <2> HIDE DEF d, r
  <2>3. [d EXCEPT !.looping = y] =
        [scopes |-> r, funs |-> g, cls |-> t, marks |-> m, failed |-> a,
         looping |-> y]
    BY <2>1
  <2> QED  BY <2>2, <2>3 DEF r
<1>4. ASSUME NEW x, NEW n, NEW y
      PROVE  [c EXCEPT !.scopes[n] = x, !.failed = y] =
             [scopes |-> [s EXCEPT ![n] = x], funs |-> g, cls |-> t,
              marks |-> m, failed |-> y, looping |-> l]
  <2> DEFINE d == [c EXCEPT !.scopes[n] = x]
      r == [s EXCEPT ![n] = x]
  <2>1. d = [scopes |-> r, funs |-> g, cls |-> t, marks |-> m, failed |-> a,
             looping |-> l]
    BY <1>1
  <2>2. [c EXCEPT !.scopes[n] = x, !.failed = y] = [d EXCEPT !.failed = y]
    OBVIOUS
  <2> HIDE DEF d, r
  <2>3. [d EXCEPT !.failed = y] =
        [scopes |-> r, funs |-> g, cls |-> t, marks |-> m, failed |-> y,
         looping |-> l]
    BY <2>1
  <2> QED  BY <2>2, <2>3 DEF r
<1>5. /\ \A x : [c EXCEPT !.failed = x] =
                [scopes |-> s, funs |-> g, cls |-> t, marks |-> m, failed |-> x,
                 looping |-> l]
      /\ \A x : [c EXCEPT !.cls = x] =
                [scopes |-> s, funs |-> g, cls |-> x, marks |-> m, failed |-> a,
                 looping |-> l]
  BY <1>1
<1>6. /\ \A x : [c EXCEPT !.marks = x] =
                [scopes |-> s, funs |-> g, cls |-> t, marks |-> x, failed |-> a,
                 looping |-> l]
      /\ \A x : [c EXCEPT !.scopes = x] =
                [scopes |-> x, funs |-> g, cls |-> t, marks |-> m, failed |-> a,
                 looping |-> l]
  BY <1>1
<1>7. \A x, n : [c EXCEPT !.scopes[n] = x] =
                [scopes |-> [s EXCEPT ![n] = x], funs |-> g, cls |-> t,
                 marks |-> m, failed |-> a, looping |-> l]
  BY <1>1
<1>8. \A x, n : [c EXCEPT !.scopes[n].locals = x] =
                [scopes |-> [s EXCEPT ![n].locals = x], funs |-> g, cls |-> t,
                 marks |-> m, failed |-> a, looping |-> l]
  BY <1>1
<1> QED  BY <1>2, <1>3, <1>4, <1>5, <1>6, <1>7, <1>8 DEF s, g, t, m, a, l

LEMMA ScopeRecord ==
    ASSUME NEW f, IsScope(f)
    PROVE
           /\ \A x :
                  [f EXCEPT !.depth = x] =
                  [type |-> f.type, depth |-> x, ups |-> f.ups,
                   code |-> f.code, constants |-> f.constants,
                   locals |-> f.locals]
           /\ \A x :
                  [f EXCEPT !.locals = x] =
                  [type |-> f.type, depth |-> f.depth, ups |-> f.ups,
                   code |-> f.code, constants |-> f.constants, locals |-> x]
           /\ \A x :
                  [f EXCEPT !.ups = x] =
                  [type |-> f.type, depth |-> f.depth, ups |-> x,
                   code |-> f.code, constants |-> f.constants,
                   locals |-> f.locals]
           /\ \A x :
                  [f EXCEPT !.code = x] =
                  [type |-> f.type, depth |-> f.depth, ups |-> f.ups,
                   code |-> x, constants |-> f.constants, locals |-> f.locals]
<1> DEFINE t == f.type
    d == f.depth
    u == f.ups
    b == f.code
    k == f.constants
    l == f.locals
<1>1. f = [type |-> t, depth |-> d, ups |-> u, code |-> b, constants |-> k,
           locals |-> l]
  BY DEF IsScope
<1> HIDE DEF t, d, u, b, k, l
<1>2. /\ \A x : [f EXCEPT !.depth = x] =
                [type |-> t, depth |-> x, ups |-> u, code |-> b, constants |-> k,
                 locals |-> l]
      /\ \A x : [f EXCEPT !.locals = x] =
                [type |-> t, depth |-> d, ups |-> u, code |-> b, constants |-> k,
                 locals |-> x]
  BY <1>1
<1>3. /\ \A x : [f EXCEPT !.ups = x] =
                [type |-> t, depth |-> d, ups |-> x, code |-> b, constants |-> k,
                 locals |-> l]
      /\ \A x : [f EXCEPT !.code = x] =
                [type |-> t, depth |-> d, ups |-> u, code |-> x, constants |-> k,
                 locals |-> l]
  BY <1>1
<1> QED  BY <1>2, <1>3 DEF t, d, u, b, k, l

LEMMA CodeRecord ==
    ASSUME NEW f, IsScope(f), NEW x, NEW y
    PROVE  [f EXCEPT !.code = x, !.constants = y] =
           [type |-> f.type, depth |-> f.depth, ups |-> f.ups, code |-> x,
            constants |-> y, locals |-> f.locals]
<1> DEFINE g == [f EXCEPT !.code = x]
<1>1. g = [type |-> f.type, depth |-> f.depth, ups |-> f.ups, code |-> x,
           constants |-> f.constants, locals |-> f.locals]
  BY ScopeRecord
<1>2. [f EXCEPT !.code = x, !.constants = y] = [g EXCEPT !.constants = y]
  OBVIOUS
<1> HIDE DEF g
<1>3. [g EXCEPT !.constants = y] =
      [type |-> g.type, depth |-> g.depth, ups |-> g.ups, code |-> g.code,
       constants |-> y, locals |-> g.locals]
  BY <1>1
<1> QED  BY <1>1, <1>2, <1>3

LEMMA TargetRecord ==
    ASSUME NEW f, IsScope(f), NEW i, NEW x
    PROVE  [f EXCEPT !.code[i][2] = x] =
           [type |-> f.type, depth |-> f.depth, ups |-> f.ups,
            code |-> [f.code EXCEPT ![i][2] = x],
            constants |-> f.constants, locals |-> f.locals]
<1> DEFINE y == [f.code EXCEPT ![i][2] = x]
<1>1. [f EXCEPT !.code[i][2] = x] = [f EXCEPT !.code = y]
  OBVIOUS
<1> HIDE DEF y
<1>2. [f EXCEPT !.code = y] =
      [type |-> f.type, depth |-> f.depth, ups |-> f.ups, code |-> y,
       constants |-> f.constants, locals |-> f.locals]
  BY ScopeRecord
<1> QED  BY <1>1, <1>2 DEF y

WithDefined(f, n, x, y) ==
    [f EXCEPT !.locals[n].defined = x, !.locals[n].depth = y]

LEMMA DefinedRecord ==
    ASSUME NEW f, IsScope(f), NEW n, NEW x, NEW y
    PROVE  WithDefined(f, n, x, y) =
           [type |-> f.type, depth |-> f.depth, ups |-> f.ups, code |-> f.code,
            constants |-> f.constants,
            locals |-> [[f.locals EXCEPT ![n].defined = x] EXCEPT ![n].depth = y]]
<1> DEFINE r == [f.locals EXCEPT ![n].defined = x]
    q == [r EXCEPT ![n].depth = y]
    g == [f EXCEPT !.locals = r]
<1>1. [f EXCEPT !.locals[n].defined = x] = g
  OBVIOUS
<1>2. [f EXCEPT !.locals[n].defined = x, !.locals[n].depth = y] =
      [[f EXCEPT !.locals[n].defined = x] EXCEPT !.locals[n].depth = y]
  OBVIOUS
<1> HIDE DEF r
<1>3. g = [type |-> f.type, depth |-> f.depth, ups |-> f.ups, code |-> f.code,
           constants |-> f.constants, locals |-> r]
  BY ScopeRecord
<1> HIDE DEF g
<1>4. [g EXCEPT !.locals[n].depth = y] = [g EXCEPT !.locals = q]
  BY <1>3
<1> HIDE DEF q
<1>5. [g EXCEPT !.locals = q] =
      [type |-> f.type, depth |-> f.depth, ups |-> f.ups, code |-> f.code,
       constants |-> f.constants, locals |-> q]
  BY <1>3
<1> QED  BY <1>1, <1>2, <1>4, <1>5 DEF q, r, WithDefined

WithEnd(f, x, y, z) == [f EXCEPT !.depth = x, !.locals = y, !.code = z]

LEMMA EndRecord ==
    ASSUME NEW f, IsScope(f), NEW x, NEW y, NEW z
    PROVE  WithEnd(f, x, y, z) =
           [type |-> f.type, depth |-> x, ups |-> f.ups, code |-> z,
            constants |-> f.constants, locals |-> y]
<1> DEFINE g == [f EXCEPT !.depth = x]
    h == [g EXCEPT !.locals = y]
<1>1. g = [type |-> f.type, depth |-> x, ups |-> f.ups, code |-> f.code,
           constants |-> f.constants, locals |-> f.locals]
  BY ScopeRecord
<1>2. [f EXCEPT !.depth = x, !.locals = y, !.code = z] = [h EXCEPT !.code = z]
  OBVIOUS
<1> HIDE DEF g
<1>3. h = [type |-> f.type, depth |-> x, ups |-> f.ups, code |-> f.code,
           constants |-> f.constants, locals |-> y]
  BY <1>1
<1> HIDE DEF h
<1>4. [h EXCEPT !.code = z] =
      [type |-> f.type, depth |-> x, ups |-> f.ups, code |-> z,
       constants |-> f.constants, locals |-> y]
  BY <1>3
<1> QED  BY <1>2, <1>4 DEF WithEnd

LEMMA Innermost ==
    ASSUME NEW c, StateOK(c)
    PROVE  /\ Len(c.scopes) \in 1 .. Len(c.scopes) /\ Len(c.scopes) \in Nat
           /\ func(c) = c.scopes[Len(c.scopes)]
           /\ ScopeOK(c, Len(c.scopes)) /\ IsScope(func(c))
           /\ IsSeq(func(c).code) /\ IsSeq(func(c).ups) /\ IsSeq(func(c).locals)
           /\ Len(func(c).code) \in Nat /\ Len(func(c).ups) \in Nat
           /\ Len(func(c).locals) \in Nat
<1>1. Len(c.scopes) \in 1 .. Len(c.scopes) /\ Len(c.scopes) \in Nat
  BY DEF StateOK, IsSeq
<1>2. func(c) = c.scopes[Len(c.scopes)]
  BY DEF func, Last
<1> QED  BY <1>1, <1>2, ScopesAre

\* Only the flags or the type of the class change.
LEMMA Settled ==
    ASSUME NEW c, StateOK(c), NEW cls, NEW failed, NEW looping, NEW d,
           d = [scopes |-> c.scopes, funs |-> c.funs, cls |-> cls,
                marks |-> c.marks, failed |-> failed, looping |-> looping]
    PROVE  Evolves(c, d)
<1>1. StateOK(d)
  <2>1. \A k \in 1 .. Len(c.scopes) : ScopeOK(c, k) => ScopeOK(d, k)
    BY DEF ScopeOK
  <2> QED  BY <2>1 DEF StateOK
<1>2. \A k \in 1 .. Len(c.scopes) : ScopeGrows(c.scopes[k], d.scopes[k])
  <2> SUFFICES ASSUME NEW k \in 1 .. Len(c.scopes)
               PROVE  ScopeGrows(c.scopes[k], c.scopes[k])
    OBVIOUS
  <2>1. Len(c.scopes[k].code) \in Nat /\ Len(c.scopes[k].ups) \in Nat
    BY ScopesAre
  <2> QED  BY <2>1 DEF ScopeGrows, CodeGrows
<1> QED  BY <1>1, <1>2 DEF Evolves

LEMMA FailedIs ==
    ASSUME NEW c, StateOK(c)
    PROVE  Evolves(c, Failed(c)) /\ Evolves(c, c)
<1> DEFINE d == Failed(c)
<1>1. c = [scopes |-> c.scopes, funs |-> c.funs, cls |-> c.cls,
           marks |-> c.marks, failed |-> c.failed, looping |-> c.looping]
  BY DEF StateOK
<1>2. d = [scopes |-> c.scopes, funs |-> c.funs, cls |-> c.cls,
           marks |-> c.marks, failed |-> TRUE, looping |-> c.looping]
  BY <1>1, StateRecord DEF Failed
<1> HIDE DEF d
<1>3. Evolves(c, d)
  BY <1>2, Settled
<1>4. Evolves(c, c)
  BY <1>1, Settled
<1> QED  BY <1>3, <1>4 DEF d

\* The innermost function becomes f, which has more code.
LEMMA Updated ==
    ASSUME NEW c, StateOK(c), NEW f, IsScope(f), f.ups = func(c).ups,
           CodeGrows(func(c).code, f.code),
           \A i \in Len(func(c).code) + 1 .. Len(f.code) :
               RefersWell(f.code[i], f.ups, c.funs),
           NEW d, WithScope(c, d, Len(c.scopes), f)
    PROVE  Evolves(c, d)
<1> DEFINE n == Len(c.scopes)
<1>1. n \in 1 .. n /\ func(c) = c.scopes[n] /\ ScopeOK(c, n)
      /\ Len(func(c).ups) \in Nat
  BY Innermost
<1>2. ScopeGrows(c.scopes[n], f)
  BY <1>1 DEF ScopeGrows
<1>3. /\ n = 1 => f.ups = <<>>
      /\ n > 1 => \A u \in 1 .. Len(f.ups) :
                      InReach(f.ups[u], c.scopes[n - 1].ups)
  BY <1>1 DEF ScopeOK
<1>4. \A i \in Len(c.scopes[n].code) + 1 .. Len(f.code) :
          RefersWell(f.code[i], f.ups, c.funs)
  BY <1>1
<1> QED  BY <1>1, <1>2, <1>3, <1>4, ScopeReplaced

\* An update of the locals or the depth alone.
LEMMA LocalsUpdated ==
    ASSUME NEW c, StateOK(c), NEW depth, NEW locals, IsSeq(locals), NEW f,
           f = [type |-> func(c).type, depth |-> depth, ups |-> func(c).ups,
                code |-> func(c).code, constants |-> func(c).constants,
                locals |-> locals]
    PROVE  Evolves(c, Update(c, f))
<1> DEFINE g == func(c)
    d == Update(c, f)
<1>1. IsScope(g) /\ Len(g.code) \in Nat
  BY Innermost
<1>2. IsScope(f) /\ f.ups = g.ups /\ f.code = g.code
  BY <1>1 DEF IsScope
<1>3. CodeGrows(g.code, f.code)
      /\ \A i \in Len(g.code) + 1 .. Len(f.code) : RefersWell(f.code[i], f.ups, c.funs)
  BY <1>1, <1>2 DEF CodeGrows
<1>4. WithScope(c, d, Len(c.scopes), f)
  <2> HIDE DEF g
  <2> QED  BY StateRecord DEF WithScope, Update, StateOK
<1> HIDE DEF d, g
<1>5. Evolves(c, d)
  BY <1>2, <1>3, <1>4, Updated DEF g
<1> QED  BY <1>5 DEF d

LEMMA EmitIs ==
    ASSUME NEW c, StateOK(c), NEW ins, ~IsJump(ins),
           RefersWell(ins, func(c).ups, c.funs)
    PROVE  Evolves(c, Emit(c, ins))
<1> DEFINE g == func(c)
    f == [g EXCEPT !.code = Append(@, ins), !.constants = @ \cup Constant(ins)]
    d == Emit(c, ins)
<1>1. IsScope(g) /\ IsSeq(g.code) /\ Len(g.code) \in Nat
  BY Innermost
<1>2. /\ IsSeq(Append(g.code, ins)) /\ Len(Append(g.code, ins)) = Len(g.code) + 1
      /\ Append(g.code, ins)[Len(g.code) + 1] = ins
      /\ \A i \in 1 .. Len(g.code) : Append(g.code, ins)[i] = g.code[i]
  BY <1>1, AppendIs
<1>3. f = [type |-> g.type, depth |-> g.depth, ups |-> g.ups,
           code |-> Append(g.code, ins), constants |-> g.constants \cup Constant(ins),
           locals |-> g.locals]
  <2> HIDE DEF g
  <2> QED  BY <1>1, CodeRecord
<1>4. WithScope(c, d, Len(c.scopes), f)
  <2>1. d = [c EXCEPT !.scopes[Len(c.scopes)] = f,
                      !.failed = @ \/ NoRoom(g, Constant(ins))]
    BY DEF Emit
  <2> HIDE DEF d, f
  <2> QED  BY <2>1, StateRecord DEF WithScope, StateOK
<1> HIDE DEF d, g, f
<1>5. IsScope(f) /\ f.ups = g.ups /\ f.code = Append(g.code, ins)
  BY <1>1, <1>2, <1>3 DEF IsScope
<1>6. \A i \in Len(g.code) + 1 .. Len(f.code) : f.code[i] = ins
  BY <1>1, <1>2, <1>5
<1>7. CodeGrows(g.code, f.code)
  BY <1>1, <1>2, <1>5, <1>6 DEF CodeGrows
<1>8. Evolves(c, d)
  BY <1>4, <1>5, <1>6, <1>7, Updated DEF g
<1> QED  BY <1>8 DEF d

-----------------------------------------------------------------------------
(* Scopes and locals.                                                      *)

LEMMA BeginScopeIs ==
    ASSUME NEW c, StateOK(c)
    PROVE  Evolves(c, BeginScope(c))
<1> DEFINE g == func(c)
    f == [g EXCEPT !.depth = @ + 1]
<1>1. IsScope(g) /\ IsSeq(g.locals)
  BY Innermost
<1>2. f = [type |-> g.type, depth |-> g.depth + 1, ups |-> g.ups,
           code |-> g.code, constants |-> g.constants, locals |-> g.locals]
  <2> HIDE DEF g
  <2> QED  BY <1>1, ScopeRecord
<1> HIDE DEF f
<1>3. Evolves(c, Update(c, f))
  BY <1>1, <1>2, LocalsUpdated
<1> QED  BY <1>3 DEF BeginScope, f

LEMMA AddLocalIs ==
    ASSUME NEW c, StateOK(c), NEW name
    PROVE  Evolves(c, AddLocal(c, name))
<1> DEFINE g == func(c)
    locals == Append(g.locals, Local(name, FALSE, 0))
    f == [g EXCEPT !.locals = Append(@, Local(name, FALSE, 0))]
<1>1. IsScope(g) /\ IsSeq(g.locals)
  BY Innermost
<1>2. IsSeq(locals)
  <2> HIDE DEF g
  <2> QED  BY <1>1, AppendIs
<1>3. f = [type |-> g.type, depth |-> g.depth, ups |-> g.ups,
           code |-> g.code, constants |-> g.constants, locals |-> locals]
  <2> HIDE DEF g
  <2> QED  BY <1>1, ScopeRecord
<1> HIDE DEF f, locals
<1>4. Evolves(c, Update(c, f))
  BY <1>2, <1>3, LocalsUpdated
<1> QED  BY <1>4 DEF AddLocal, f

LEMMA DeclareIs ==
    ASSUME NEW c, StateOK(c), NEW name
    PROVE  Evolves(c, Declare(c, name))
<1> DEFINE d == IF Clash(func(c), name) THEN Failed(c) ELSE c
<1>1. Evolves(c, d)
  BY FailedIs
<1>2. StateOK(d)
  BY <1>1 DEF Evolves
<1> HIDE DEF d
<1>3. Evolves(c, AddLocal(d, name))
  BY <1>1, <1>2, AddLocalIs, EvolvesTrans
<1>4. Declare(c, name) = c \/ Declare(c, name) = AddLocal(d, name)
  BY DEF Declare, d
<1> QED  BY <1>3, <1>4, FailedIs

LEMMA DefineGlobalIs ==
    ASSUME NEW c, StateOK(c), NEW name
    PROVE  Evolves(c, EmitDefineGlobal(c, name))
<1> DEFINE ins == <<"DefineGlobal", name>>
<1>1. ~IsJump(ins) /\ RefersWell(ins, func(c).ups, c.funs)
  BY DEF IsJump, RefersWell
<1> HIDE DEF ins
<1>2. Evolves(c, Emit(c, ins))
  BY <1>1, EmitIs
<1> QED  BY <1>2 DEF EmitDefineGlobal, ins

LEMMA DefineIs ==
    ASSUME NEW c, StateOK(c), NEW name
    PROVE  Evolves(c, Define(c, name))
<1> DEFINE g == func(c)
    n == Len(g.locals)
    locals == [[g.locals EXCEPT ![n].defined = TRUE] EXCEPT ![n].depth = g.depth]
    f == [g EXCEPT !.locals[n].defined = TRUE, !.locals[n].depth = g.depth]
<1>1. IsScope(g) /\ IsSeq(g.locals)
  BY Innermost
<1>2. IsSeq(locals)
  <2> DEFINE l == g.locals
      x == [l[n] EXCEPT !.defined = TRUE]
      k == [l EXCEPT ![n] = x]
      y == [k[n] EXCEPT !.depth = g.depth]
  <2>1. k = [l EXCEPT ![n].defined = TRUE]
    OBVIOUS
  <2>2. locals = [k EXCEPT ![n] = y]
    BY <2>1
  <2> HIDE DEF l, x, n, g
  <2>3. IsSeq(k)
    BY <1>1, ExceptIs DEF l
  <2> HIDE DEF k, y
  <2>4. IsSeq([k EXCEPT ![n] = y])
    BY <2>3, ExceptIs
  <2> QED  BY <2>2, <2>4
<1>3. f = [type |-> g.type, depth |-> g.depth, ups |-> g.ups,
           code |-> g.code, constants |-> g.constants, locals |-> locals]
  <2>1. f = WithDefined(g, n, TRUE, g.depth)
    BY DEF WithDefined
  <2> HIDE DEF g, n, f
  <2>2. \A x, y : WithDefined(g, n, x, y) =
                  [type |-> g.type, depth |-> g.depth, ups |-> g.ups,
                   code |-> g.code, constants |-> g.constants,
                   locals |-> [[g.locals EXCEPT ![n].defined = x]
                                   EXCEPT ![n].depth = y]]
    BY <1>1, DefinedRecord
  <2> QED  BY <2>1, <2>2, Zenon
<1> HIDE DEF locals
<1>4. Evolves(c, Update(c, f))
  <2> HIDE DEF f
  <2> QED  BY <1>2, <1>3, LocalsUpdated
<1>5. Define(c, name) = EmitDefineGlobal(c, name) \/ Define(c, name) = Update(c, f)
  BY DEF Define
<1> QED  BY <1>4, <1>5, DefineGlobalIs

\* end_scope closes or pops the locals it drops.
LEMMA EndScopeIs ==
    ASSUME NEW c, StateOK(c)
    PROVE  Evolves(c, EndScope(c))
<1> DEFINE g == func(c)
    n == Len(g.locals)
    S == {0} \cup {i \in DOMAIN g.locals : Outlives(g.locals[i], g)}
    kept == Max(S)
    left == SubSeq(g.locals, kept + 1, n)
    pops == [i \in DOMAIN left |-> PopOf(left[i])]
    locals == SubSeq(g.locals, 1, kept)
    code == g.code \o Reverse(pops)
    f == [g EXCEPT !.depth = @ - 1, !.locals = SubSeq(@, 1, kept),
                   !.code = @ \o Reverse(pops)]
    new == [type |-> g.type, depth |-> g.depth - 1, ups |-> g.ups,
            code |-> code, constants |-> g.constants, locals |-> locals]
<1>1. IsScope(g) /\ IsSeq(g.locals) /\ IsSeq(g.code) /\ n \in Nat
      /\ Len(g.code) \in Nat
  BY Innermost
<1>2. kept \in 0 .. n
  <2>1. DOMAIN g.locals = 1 .. n
    BY <1>1, SeqIs
  <2>2. S \subseteq 0 .. n /\ S # {}
    BY <1>1, <2>1
  <2> HIDE DEF S, n, g
  <2> QED  BY <1>1, <2>2, MaxIs
<1> HIDE DEF kept, n
<1>3. IsSeq(left)
  <2>1. /\ kept + 1 \in Nat \ {0} /\ n <= Len(g.locals) /\ kept + 1 <= n + 1
    BY <1>1, <1>2 DEF n
  <2> HIDE DEF g
  <2> QED  BY <1>1, <2>1, CutIs
<1>4. IsSeq(locals)
  <2>1. kept \in Nat /\ kept <= Len(g.locals) /\ 1 <= kept + 1 /\ 1 \in Nat \ {0}
    BY <1>1, <1>2 DEF n
  <2> HIDE DEF g
  <2> QED  BY <1>1, <2>1, CutIs
<1> HIDE DEF left, locals
<1>5. IsSeq(pops) /\ \A i \in 1 .. Len(pops) : pops[i] = PopOf(left[i])
  <2>1. DOMAIN left = 1 .. Len(left) /\ Len(left) \in Nat
    BY <1>3, SeqIs
  <2>2. pops = [i \in 1 .. Len(left) |-> pops[i]]
    BY <2>1
  <2>3. \A i \in 1 .. Len(left) : pops[i] = PopOf(left[i])
    BY <2>1
  <2> HIDE DEF pops
  <2> QED  BY <2>1, <2>2, <2>3, FunctionIsSeq
<1> HIDE DEF pops
<1>6. /\ IsSeq(Reverse(pops)) /\ Len(Reverse(pops)) \in Nat
      /\ \A i \in 1 .. Len(Reverse(pops)) :
             Reverse(pops)[i] \in {<<"Pop">>, <<"CloseUpvalue">>}
  <2>1. /\ IsSeq(Reverse(pops)) /\ Len(Reverse(pops)) = Len(pops)
        /\ \A i \in 1 .. Len(pops) : /\ Len(pops) - i + 1 \in 1 .. Len(pops)
                                     /\ Reverse(pops)[i] = pops[Len(pops) - i + 1]
    BY <1>5, ReverseIs
  <2> QED  BY <1>5, <2>1 DEF PopOf, IsSeq
<1>7. /\ IsSeq(code) /\ Len(code) = Len(g.code) + Len(Reverse(pops))
      /\ \A i \in 1 .. Len(g.code) : code[i] = g.code[i]
      /\ \A i \in Len(g.code) + 1 .. Len(code) :
             code[i] \in {<<"Pop">>, <<"CloseUpvalue">>}
  <2> HIDE DEF g
  <2>1. /\ IsSeq(code) /\ Len(code) = Len(g.code) + Len(Reverse(pops))
        /\ \A i \in 1 .. Len(g.code) : code[i] = g.code[i]
        /\ \A i \in 1 .. Len(Reverse(pops)) : code[Len(g.code) + i] = Reverse(pops)[i]
    BY <1>1, <1>6, ConcatIs
  <2> HIDE DEF code
  <2>2. ASSUME NEW i \in Len(g.code) + 1 .. Len(code)
        PROVE  code[i] \in {<<"Pop">>, <<"CloseUpvalue">>}
    <3>1. i - Len(g.code) \in 1 .. Len(Reverse(pops))
          /\ Len(g.code) + (i - Len(g.code)) = i
      BY <1>1, <1>6, <2>1
    <3> QED  BY <1>6, <2>1, <3>1
  <2> QED  BY <2>1, <2>2
<1>8. f = new
  <2> DEFINE x == g.depth - 1
  <2>1. f = WithEnd(g, x, locals, code)
    BY DEF locals, WithEnd
  <2> HIDE DEF g, x, locals, code, f
  <2>2. WithEnd(g, x, locals, code) =
        [type |-> g.type, depth |-> x, ups |-> g.ups, code |-> code,
         constants |-> g.constants, locals |-> locals]
    BY <1>1, EndRecord
  <2> QED  BY <2>1, <2>2 DEF x
<1> HIDE DEF code
<1>9. IsScope(new) /\ new.ups = g.ups /\ new.code = code
  <2>1. IsSeq(g.ups)
    BY <1>1 DEF IsScope
  <2> HIDE DEF g
  <2> QED  BY <1>4, <1>7, <2>1 DEF IsScope
<1>10. CodeGrows(g.code, code)
  <2> HIDE DEF g
  <2>1. Len(g.code) <= Len(code)
    BY <1>1, <1>6, <1>7
  <2>2. ~IsJump(<<"Pop">>) /\ ~IsJump(<<"CloseUpvalue">>)
    BY DEF IsJump
  <2>3. \A i \in Len(g.code) + 1 .. Len(code) : ~IsJump(code[i])
    BY <1>7, <2>2
  <2> QED  BY <1>7, <2>1, <2>3 DEF CodeGrows
<1>11. \A i \in Len(g.code) + 1 .. Len(code) : RefersWell(code[i], g.ups, c.funs)
  <2> HIDE DEF g
  <2> QED  BY <1>7 DEF RefersWell
<1> HIDE DEF f, new
<1>12. EndScope(c) = Update(c, new)
  BY <1>8 DEF EndScope, f, n, kept, pops, left
<1>13. WithScope(c, Update(c, new), Len(c.scopes), new)
  BY StateRecord DEF WithScope, Update, StateOK
<1> DEFINE d == Update(c, new)
<1> HIDE DEF d, g
<1>14. Evolves(c, d)
  BY <1>9, <1>10, <1>11, <1>13, Updated DEF g, d
<1> QED  BY <1>12, <1>14 DEF d

-----------------------------------------------------------------------------
(* Upvalues.                                                               *)

\* The upvalue of scope k is found or appended; it is one of scope k then.
LEMMA AddUpvalueIs ==
    ASSUME NEW c, StateOK(c), NEW k \in 2 .. Len(c.scopes), NEW upvalue,
           InReach(upvalue, c.scopes[k - 1].ups)
    PROVE  LET r == AddUpvalue(c, k, upvalue)
           IN  /\ Evolves(c, r.cs)
               /\ r.index + 1 \in 1 .. Len(r.cs.scopes[k].ups)
<1> DEFINE n == Len(c.scopes)
    g == c.scopes[k]
    ups == g.ups
    at == {i \in DOMAIN ups : ups[i] = upvalue /\ i <= ByteSize}
    loop == c.looping \/ Len(ups) >= ByteSize
    more == Append(ups, upvalue)
    d == [c EXCEPT !.scopes[k].ups = Append(@, upvalue), !.looping = loop]
    f == [g EXCEPT !.ups = more]
<1>1. n \in Nat /\ k \in 1 .. n /\ k > 1 /\ k # 1
  BY DEF StateOK, IsSeq
<1>2. IsScope(g) /\ IsSeq(ups) /\ Len(ups) \in Nat /\ IsSeq(g.code)
      /\ Len(g.code) \in Nat /\ ScopeOK(c, k)
  BY <1>1, ScopesAre
<1>3. CASE at # {}
  <2>1. Min(at) \in 1 .. Len(ups)
    <3>1. DOMAIN ups = 1 .. Len(ups)
      BY <1>2, SeqIs
    <3>2. at \subseteq Nat /\ at \subseteq 1 .. Len(ups)
      BY <1>2, <3>1
    <3> HIDE DEF at
    <3> QED  BY <1>3, <3>2, MinIs
  <2>2. AddUpvalue(c, k, upvalue) = [cs |-> c, index |-> Min(at) - 1]
    BY <1>3 DEF AddUpvalue
  <2> HIDE DEF at
  <2>3. Min(at) - 1 + 1 \in 1 .. Len(ups)
    BY <1>2, <2>1
  <2> QED  BY <2>2, <2>3, FailedIs
<1>4. CASE at = {}
  <2>1. AddUpvalue(c, k, upvalue) = [cs |-> d, index |-> Len(ups)]
    BY <1>4 DEF AddUpvalue
  <2> HIDE DEF at
  <2>2. /\ IsSeq(more) /\ Len(more) = Len(ups) + 1
        /\ more[Len(ups) + 1] = upvalue
        /\ \A i \in 1 .. Len(ups) : more[i] = ups[i]
    <3> HIDE DEF ups
    <3> QED  BY <1>2, AppendIs
  <2>3. d = [scopes |-> [c.scopes EXCEPT ![k].ups = more], funs |-> c.funs,
             cls |-> c.cls, marks |-> c.marks, failed |-> c.failed,
             looping |-> loop]
    <3> HIDE DEF loop
    <3>1. d = [c EXCEPT !.scopes[k].ups = more, !.looping = loop]
      OBVIOUS
    <3> HIDE DEF more, d
    <3> QED  BY <3>1, StateRecord DEF StateOK
  <2>4. [c.scopes EXCEPT ![k].ups = more] = [c.scopes EXCEPT ![k] = f]
    OBVIOUS
  <2> HIDE DEF d, loop
  <2>5. f = [type |-> g.type, depth |-> g.depth, ups |-> more, code |-> g.code,
             constants |-> g.constants, locals |-> g.locals]
    <3> HIDE DEF g, more
    <3> QED  BY <1>2, ScopeRecord
  <2> HIDE DEF f, more
  <2>6. IsScope(f) /\ f.code = g.code /\ f.ups = more
    BY <1>2, <2>2, <2>5 DEF IsScope
  <2>7. WithScope(c, d, k, f)
    BY <2>3, <2>4 DEF WithScope
  <2>8. ScopeGrows(g, f)
    BY <1>2, <2>2, <2>6 DEF ScopeGrows, CodeGrows
  <2>9. \A u \in 1 .. Len(f.ups) : InReach(f.ups[u], c.scopes[k - 1].ups)
    <3> SUFFICES ASSUME NEW u \in 1 .. Len(ups) + 1
                 PROVE  InReach(more[u], c.scopes[k - 1].ups)
      BY <2>2, <2>6
    <3>1. CASE u = Len(ups) + 1
      BY <2>2, <3>1
    <3>2. CASE u # Len(ups) + 1
      <4>1. u \in 1 .. Len(ups)
        BY <1>2, <3>2
      <4> QED  BY <1>1, <1>2, <2>2, <4>1 DEF ScopeOK
    <3> QED  BY <3>1, <3>2
  <2>10. \A i \in Len(g.code) + 1 .. Len(f.code) :
             RefersWell(f.code[i], f.ups, c.funs)
    BY <1>2, <2>6
  <2>11. Evolves(c, d)
    BY <1>1, <2>6, <2>7, <2>8, <2>9, <2>10, ScopeReplaced
  <2>12. d.scopes[k] = f
    <3>1. c.scopes = [j \in 1 .. n |-> c.scopes[j]]
      BY DEF StateOK, IsSeq
    <3>2. d.scopes = [c.scopes EXCEPT ![k] = f]
      BY <2>7 DEF WithScope
    <3> QED  BY <1>1, <3>1, <3>2
  <2>13. Len(ups) + 1 \in 1 .. Len(f.ups)
    BY <1>2, <2>2, <2>6
  <2> HIDE DEF ups
  <2> QED  BY <2>1, <2>11, <2>12, <2>13
<1> QED  BY <1>3, <1>4

LEMMA MarkedIs ==
    ASSUME NEW c, StateOK(c), NEW k \in 1 .. Len(c.scopes), NEW slot
    PROVE  Evolves(c, Marked(c, k, slot))
<1> DEFINE g == c.scopes[k]
    m == slot + 1
    local == [g.locals[m] EXCEPT !.is_upvalue = TRUE]
    locals == [g.locals EXCEPT ![m] = local]
    f == [g EXCEPT !.locals = locals]
    d == Marked(c, k, slot)
<1>1. ScopeOK(c, k) /\ IsScope(g) /\ IsSeq(g.code) /\ IsSeq(g.ups)
      /\ IsSeq(g.locals) /\ Len(g.code) \in Nat /\ Len(g.ups) \in Nat
  BY ScopesAre
<1>2. IsSeq(locals)
  <2> HIDE DEF g, m, local
  <2> QED  BY <1>1, ExceptIs
<1>3. d = [c EXCEPT !.scopes[k].locals = locals]
  BY DEF Marked
<1>4. [c.scopes EXCEPT ![k].locals = locals] = [c.scopes EXCEPT ![k] = f]
  OBVIOUS
<1> HIDE DEF d, locals
<1>5. f = [type |-> g.type, depth |-> g.depth, ups |-> g.ups, code |-> g.code,
           constants |-> g.constants, locals |-> locals]
  <2> HIDE DEF g
  <2> QED  BY <1>1, ScopeRecord
<1> HIDE DEF f
<1>6. IsScope(f) /\ f.code = g.code /\ f.ups = g.ups
  BY <1>1, <1>2, <1>5 DEF IsScope
<1>7. WithScope(c, d, k, f)
  BY <1>3, <1>4, StateRecord DEF WithScope, StateOK
<1>8. ScopeGrows(g, f)
  BY <1>1, <1>6 DEF ScopeGrows, CodeGrows
<1>9. /\ \A i \in Len(g.code) + 1 .. Len(f.code) :
             RefersWell(f.code[i], f.ups, c.funs)
      /\ k = 1 => f.ups = <<>>
      /\ k > 1 => \A u \in 1 .. Len(f.ups) :
                      InReach(f.ups[u], c.scopes[k - 1].ups)
  BY <1>1, <1>6 DEF ScopeOK
<1>10. Evolves(c, d)
  BY <1>6, <1>7, <1>8, <1>9, ScopeReplaced
<1> QED  BY <1>10 DEF d

\* One round of the way inwards from scope k.
Link(c, k, slot, g, j) ==
    IF j = k THEN [cs |-> Marked(c, k, slot), index |-> slot]
    ELSE Inwards(g[j - 1], j, j = k + 1)

\* The function that Chain defines by recursion exists.
LEMMA ChainDefined ==
    ASSUME NEW c, StateOK(c), NEW k \in 1 .. Len(c.scopes), NEW slot
    PROVE  \A j \in k .. Len(c.scopes) :
               Chain(c, k, slot)[j] = Link(c, k, slot, Chain(c, k, slot), j)
<1> DEFINE max == Len(c.scopes)
    G(g, n) == g = [j \in k .. n |-> Link(c, k, slot, g, j)]
    Bad == {n \in k .. max : ~ \E g : G(g, n)}
<1>1. max \in Nat /\ k \in Nat /\ k <= max
  BY DEF StateOK, IsSeq
<1>2. Bad = {}
  <2> SUFFICES ASSUME Bad # {} PROVE FALSE
    OBVIOUS
  <2>1. PICK n \in Bad : \A m \in Bad : n <= m
    <3>1. Bad \subseteq Nat
      BY <1>1
    <3> HIDE DEF Bad
    <3> QED  BY <3>1, Least
  <2>2. CASE n = k
    <3> DEFINE h == [j \in k .. k |-> [cs |-> Marked(c, k, slot), index |-> slot]]
    <3>1. \A j \in k .. k : j = k
      BY <1>1
    <3>2. G(h, k)
      BY <3>1 DEF Link
    <3> HIDE DEF h
    <3> QED  BY <2>1, <2>2, <3>2
  <2>3. CASE n # k
    <3>1. n - 1 \in k .. max /\ n \in Nat /\ ~ (n <= n - 1) /\ n \in k .. max
      BY <1>1, <2>1, <2>3
    <3>2. n - 1 \notin Bad
      <4> HIDE DEF Bad
      <4> QED  BY <2>1, <3>1
    <3>3. PICK g : G(g, n - 1)
      BY <3>1, <3>2
    <3> DEFINE h == [j \in k .. n |-> IF j = n THEN Link(c, k, slot, g, n)
                                      ELSE g[j]]
    <3>4. ASSUME NEW j \in k .. n PROVE h[j] = Link(c, k, slot, h, j)
      <4>1. j # k => h[j - 1] = g[j - 1]
        <5>1. j # k => j - 1 \in k .. n /\ j - 1 # n
          BY <1>1, <3>1
        <5> QED  BY <5>1
      <4>2. Link(c, k, slot, h, j) = Link(c, k, slot, g, j)
        BY <4>1 DEF Link
      <4>3. CASE j = n
        BY <4>2, <4>3
      <4>4. CASE j # n
        <5>1. j \in k .. n - 1
          BY <1>1, <3>1, <4>4
        <5>2. g[j] = Link(c, k, slot, g, j)
          BY <3>3, <5>1
        <5> QED  BY <4>2, <4>4, <5>2
      <4> QED  BY <4>3, <4>4
    <3>5. G(h, n)
      BY <3>4
    <3> QED  BY <3>5, <2>1
  <2> QED  BY <2>2, <2>3
<1>3. \E g : G(g, max)
  <2>1. max \in k .. max
    BY <1>1
  <2> QED  BY <1>2, <2>1
<1>4. Chain(c, k, slot) = CHOOSE g : G(g, max)
  BY DEF Chain, Link
<1>5. G(Chain(c, k, slot), max)
  <2> HIDE DEF G
  <2> QED  BY <1>3, <1>4
<1> QED  BY <1>5

\* What the way inwards has done when it has reached scope j.
ChainLinkOK(c, k, j, acc) ==
    /\ Evolves(c, acc.cs)
    /\ j > k => acc.index + 1 \in 1 .. Len(acc.cs.scopes[j].ups)

LEMMA InwardsIs ==
    ASSUME NEW c, StateOK(c), NEW k \in Nat \ {0}, NEW j \in Nat, k < j,
           j <= Len(c.scopes), NEW acc, ChainLinkOK(c, k, j - 1, acc)
    PROVE  ChainLinkOK(c, k, j, Inwards(acc, j, j = k + 1))
<1> DEFINE u == [is_local |-> j = k + 1, index |-> acc.index]
    d == acc.cs
<1>1. StateOK(d) /\ Len(d.scopes) = Len(c.scopes) /\ Evolves(c, d)
  BY DEF ChainLinkOK, Evolves
<1>2. j \in 2 .. Len(d.scopes)
  BY <1>1 DEF StateOK, IsSeq
<1>3. InReach(u, d.scopes[j - 1].ups)
  <2>1. CASE j = k + 1
    BY <2>1 DEF InReach
  <2>2. CASE j # k + 1
    <3>1. j - 1 > k
      BY <2>2
    <3> QED  BY <3>1 DEF InReach, ChainLinkOK
  <2> QED  BY <2>1, <2>2
<1> DEFINE r == AddUpvalue(d, j, u)
<1>4. Inwards(acc, j, j = k + 1) = r
  BY DEF Inwards
<1> HIDE DEF u, r
<1>5. Evolves(d, r.cs) /\ r.index + 1 \in 1 .. Len(r.cs.scopes[j].ups)
  <2> HIDE DEF d
  <2> QED  BY <1>1, <1>2, <1>3, AddUpvalueIs DEF r
<1>6. Evolves(c, r.cs)
  <2> HIDE DEF d
  <2> QED  BY <1>1, <1>5, EvolvesTrans
<1> QED  BY <1>4, <1>5, <1>6 DEF ChainLinkOK

LEMMA ChainIs ==
    ASSUME NEW c, StateOK(c), NEW k \in 1 .. Len(c.scopes), NEW slot
    PROVE  ChainLinkOK(c, k, Len(c.scopes), Chain(c, k, slot)[Len(c.scopes)])
<1> DEFINE max == Len(c.scopes)
    g == Chain(c, k, slot)
    Bad == {j \in k .. max : ~ChainLinkOK(c, k, j, g[j])}
<1>1. max \in Nat /\ k \in Nat \ {0} /\ k <= max
  BY DEF StateOK, IsSeq
<1>2. \A j \in k .. max : g[j] = Link(c, k, slot, g, j)
  BY ChainDefined
<1> HIDE DEF g
<1>3. Bad = {}
  <2> SUFFICES ASSUME Bad # {} PROVE FALSE
    OBVIOUS
  <2>1. PICK n \in Bad : \A m \in Bad : n <= m
    <3>1. Bad \subseteq Nat
      BY <1>1
    <3> HIDE DEF Bad
    <3> QED  BY <3>1, Least
  <2>2. n # k
    <3>1. k \in k .. max /\ ~(k > k)
      BY <1>1
    <3>2. g[k] = [cs |-> Marked(c, k, slot), index |-> slot]
      BY <1>2, <3>1 DEF Link
    <3>3. ChainLinkOK(c, k, k, g[k])
      BY <3>1, <3>2, MarkedIs DEF ChainLinkOK
    <3> QED  BY <2>1, <3>3
  <2>3. n - 1 \in k .. max /\ n \in Nat /\ ~ (n <= n - 1) /\ n \in k .. max
        /\ k < n /\ n <= max
    BY <1>1, <2>1, <2>2
  <2>4. n - 1 \notin Bad
    <3> HIDE DEF Bad
    <3> QED  BY <2>1, <2>3
  <2>5. ChainLinkOK(c, k, n - 1, g[n - 1])
    BY <2>3, <2>4
  <2>6. g[n] = Inwards(g[n - 1], n, n = k + 1)
    BY <1>2, <2>2, <2>3 DEF Link
  <2>7. ChainLinkOK(c, k, n, g[n])
    <3> HIDE DEF Bad
    <3> QED  BY <1>1, <2>3, <2>5, <2>6, InwardsIs
  <2> QED  BY <2>1, <2>7
<1>4. max \in k .. max
  BY <1>1
<1> QED  BY <1>3, <1>4 DEF g

\* An upvalue that is found is one of the innermost function.
LEMMA ResolveUpvalueIs ==
    ASSUME NEW c, StateOK(c), NEW name
    PROVE  LET r == ResolveUpvalue(c, name)
           IN  /\ Evolves(c, r.cs)
               /\ r.index >= 0 => r.index + 1 \in 1 .. Len(func(r.cs).ups)
<1> DEFINE n == Len(c.scopes)
    holders == {k \in 1 .. n - 1 : ResolveLocal(c.scopes[k], name) > 0}
    k == Max(holders)
    slot == Slot(ResolveLocal(c.scopes[k], name))
    r == Chain(c, k, slot)[n]
<1>1. n \in Nat
  BY DEF StateOK, IsSeq
<1>2. CASE holders = {}
  <2>1. ResolveUpvalue(c, name) = [cs |-> c, index |-> -1]
    BY <1>2 DEF ResolveUpvalue
  <2> QED  BY <2>1, FailedIs
<1>3. CASE holders # {}
  <2>1. k \in 1 .. n /\ n > k
    <3>1. holders \subseteq 0 .. n
      BY <1>1
    <3>2. \A x \in holders : x \in 1 .. n /\ n > x
      BY <1>1
    <3> HIDE DEF holders
    <3>3. k \in holders
      BY <1>1, <1>3, <3>1, MaxIs
    <3> QED  BY <3>2, <3>3
  <2>2. ResolveUpvalue(c, name) = r
    BY <1>3 DEF ResolveUpvalue
  <2> HIDE DEF holders, k, slot
  <2>3. ChainLinkOK(c, k, n, r)
    BY <2>1, ChainIs
  <2> HIDE DEF r
  <2>4. StateOK(r.cs) /\ Len(r.cs.scopes) = n /\ Evolves(c, r.cs)
    BY <2>3 DEF ChainLinkOK, Evolves
  <2>5. func(r.cs) = r.cs.scopes[n]
    BY <2>4, Innermost
  <2> QED  BY <2>1, <2>2, <2>3, <2>4, <2>5 DEF ChainLinkOK
<1> QED  BY <1>2, <1>3

\* The instruction finds what it refers to.
LEMMA ReferenceIs ==
    ASSUME NEW c, StateOK(c), NEW name, NEW write \in BOOLEAN
    PROVE  Evolves(c, Reference(c, name, write))
<1> DEFINE f == func(c)
    i == ResolveLocal(f, name)
    up == ResolveUpvalue(c, name)
    d == IF f.locals[i].defined THEN c ELSE Failed(c)
    local == <<IF write THEN "SetLocal" ELSE "GetLocal", Slot(i)>>
    upvalue == <<IF write THEN "SetUpvalue" ELSE "GetUpvalue", up.index>>
    global == <<IF write THEN "SetGlobal" ELSE "GetGlobal", name>>
<1>1. Evolves(c, d) /\ StateOK(d)
  BY FailedIs DEF Evolves
<1>2. /\ Evolves(c, up.cs) /\ StateOK(up.cs)
      /\ up.index >= 0 => up.index + 1 \in 1 .. Len(func(up.cs).ups)
  BY ResolveUpvalueIs DEF Evolves
<1>3. CASE i > 0
  <2>1. Reference(c, name, write) = Emit(d, local)
    BY <1>3 DEF Reference
  <2>2. ~IsJump(local) /\ RefersWell(local, func(d).ups, d.funs)
    BY DEF IsJump, RefersWell
  <2> HIDE DEF d, local
  <2>3. Evolves(d, Emit(d, local))
    BY <1>1, <2>2, EmitIs
  <2> QED  BY <1>1, <2>1, <2>3, EvolvesTrans
<1>4. CASE ~(i > 0) /\ up.index >= 0
  <2>1. Reference(c, name, write) = Emit(up.cs, upvalue)
    BY <1>4 DEF Reference
  <2> DEFINE e == up.cs
  <2>2. ~IsJump(upvalue) /\ RefersWell(upvalue, func(e).ups, e.funs)
    <3> HIDE DEF up
    <3> QED  BY <1>2, <1>4 DEF IsJump, RefersWell
  <2> HIDE DEF up, upvalue
  <2>3. Evolves(e, Emit(e, upvalue))
    <3> HIDE DEF e
    <3> QED  BY <1>2, <2>2, EmitIs DEF e
  <2> HIDE DEF e
  <2>4. Evolves(c, Emit(e, upvalue))
    BY <1>2, <2>3, EvolvesTrans DEF e
  <2> QED  BY <2>1, <2>4 DEF e
<1>5. CASE ~(i > 0) /\ ~(up.index >= 0)
  <2>1. Reference(c, name, write) = Emit(c, global)
    BY <1>5 DEF Reference
  <2>2. ~IsJump(global) /\ RefersWell(global, func(c).ups, c.funs)
    BY DEF IsJump, RefersWell
  <2> HIDE DEF global
  <2> QED  BY <2>1, <2>2, EmitIs
<1> QED  BY <1>3, <1>4, <1>5

-----------------------------------------------------------------------------
(* Functions.                                                              *)

LEMMA PlainIs ==
    ASSUME NEW c, StateOK(c), NEW ins, PlainIns(ins)
    PROVE  Evolves(c, Emit(c, ins))
BY EmitIs DEF PlainIns, RefersWell

\* The code of the innermost function after add_instruction.
LEMMA EmitCode ==
    ASSUME NEW c, StateOK(c), NEW ins
    PROVE  /\ func(Emit(c, ins)).code = Append(func(c).code, ins)
           /\ func(Emit(c, ins)).ups = func(c).ups
           /\ Len(Emit(c, ins).scopes) = Len(c.scopes)
<1> DEFINE n == Len(c.scopes)
    g == func(c)
    y == c.failed \/ NoRoom(g, Constant(ins))
    f == [g EXCEPT !.code = Append(@, ins), !.constants = @ \cup Constant(ins)]
    d == Emit(c, ins)
<1>1. IsScope(g) /\ n \in 1 .. n /\ IsSeq(c.scopes)
  BY Innermost DEF StateOK
<1>2. f.code = Append(g.code, ins) /\ f.ups = g.ups
  <2> DEFINE x == Append(g.code, ins)
      z == g.constants \cup Constant(ins)
  <2>1. f = [g EXCEPT !.code = x, !.constants = z]
    OBVIOUS
  <2> HIDE DEF g, x, z, f
  <2> QED  BY <1>1, <2>1, CodeRecord DEF x
<1>3. d = [c EXCEPT !.scopes[n] = f, !.failed = y]
  BY DEF Emit
<1> HIDE DEF d, f, y
<1>4. d.scopes = [c.scopes EXCEPT ![n] = f]
  BY <1>3, StateRecord DEF StateOK
<1> HIDE DEF n
<1>5. Len(d.scopes) = n /\ d.scopes[n] = f
  BY <1>1, <1>4, ExceptIs DEF n
<1>6. func(d) = f
  BY <1>5 DEF func, Last
<1> HIDE DEF g
<1> QED  BY <1>2, <1>5, <1>6 DEF d, g, n

\* A function ends with a return, after its scope.
LEMMA EndBodyIs ==
    ASSUME NEW c, StateOK(c)
    PROVE  /\ Evolves(c, EndBody(c))
           /\ Len(func(EndBody(c)).code) > Len(func(c).code) + 1
           /\ func(EndBody(c)).code[Len(func(EndBody(c)).code)] = <<"Return">>
<1> DEFINE ref == Reference(c, "this", FALSE)
    body == IF func(c).type = "Initialiser" THEN ThisReturn(c) ELSE c
    end == EndScope(body)
    lit == Emit(end, <<"Literal", Nil>>)
    ret == Emit(lit, <<"Return">>)
<1>1. PlainIns(<<"Return">>) /\ PlainIns(<<"Literal", Nil>>)
  BY DEF PlainIns, IsJump, Nil, Is
<1>2. Evolves(c, ThisReturn(c))
  <2>1. Evolves(c, ref) /\ StateOK(ref)
    BY ReferenceIs DEF Evolves
  <2>2. ThisReturn(c) = Emit(ref, <<"Return">>)
    BY DEF ThisReturn
  <2> HIDE DEF ref
  <2> QED  BY <1>1, <2>1, <2>2, PlainIs, EvolvesTrans
<1>3. Evolves(c, body) /\ StateOK(body)
  BY <1>2, FailedIs DEF Evolves
<1>4. EndBody(c) = ret
  BY DEF EndBody
<1> HIDE DEF body
<1>5. Evolves(body, end) /\ Evolves(c, end) /\ StateOK(end)
  <2>1. Evolves(body, end)
    BY <1>3, EndScopeIs
  <2> HIDE DEF end
  <2> QED  BY <1>3, <2>1, EvolvesTrans DEF Evolves
<1> HIDE DEF end
<1>6. Evolves(c, lit) /\ StateOK(lit)
      /\ func(lit).code = Append(func(end).code, <<"Literal", Nil>>)
  <2>1. Evolves(end, lit)
    BY <1>1, <1>5, PlainIs
  <2>2. func(lit).code = Append(func(end).code, <<"Literal", Nil>>)
    BY <1>5, EmitCode
  <2> HIDE DEF lit
  <2> QED  BY <1>5, <2>1, <2>2, EvolvesTrans DEF Evolves
<1> HIDE DEF lit
<1>7. Evolves(c, ret) /\ func(ret).code = Append(func(lit).code, <<"Return">>)
  <2>1. Evolves(lit, ret)
    BY <1>1, <1>6, PlainIs
  <2>2. func(ret).code = Append(func(lit).code, <<"Return">>)
    BY <1>6, EmitCode
  <2> HIDE DEF ret
  <2> QED  BY <1>6, <2>1, <2>2, EvolvesTrans
<1> HIDE DEF ret
<1>8. /\ Len(func(c).code) \in Nat /\ IsSeq(func(end).code)
      /\ Len(func(end).code) \in Nat /\ Len(func(c).code) <= Len(func(end).code)
  <2>1. Len(c.scopes) \in 1 .. Len(c.scopes) /\ Len(end.scopes) = Len(c.scopes)
    BY <1>5, Innermost DEF Evolves
  <2>2. func(c) = c.scopes[Len(c.scopes)] /\ func(end) = end.scopes[Len(c.scopes)]
    BY <1>5, <2>1, Innermost
  <2> QED  BY <1>5, <2>1, <2>2, Innermost DEF Evolves, ScopeGrows, CodeGrows
<1>9. /\ Len(func(lit).code) = Len(func(end).code) + 1 /\ IsSeq(func(lit).code)
      /\ Len(func(ret).code) = Len(func(lit).code) + 1
      /\ func(ret).code[Len(func(lit).code) + 1] = <<"Return">>
  <2>1. Len(func(lit).code) = Len(func(end).code) + 1 /\ IsSeq(func(lit).code)
    BY <1>6, <1>8, AppendIs
  <2> QED  BY <1>7, <2>1, AppendIs
<1>10. Len(func(ret).code) > Len(func(c).code) + 1
       /\ func(ret).code[Len(func(ret).code)] = <<"Return">>
  BY <1>8, <1>9
<1> QED  BY <1>4, <1>7, <1>10

\* The plan does not change when code is added that does not jump.
LEMMA FollowsKept ==
    ASSUME NEW c, StateOK(c), NEW a, Follows(c, a), NEW d, Evolves(c, d)
    PROVE  Follows(d, a)
<1>1. d.marks = c.marks /\ Len(d.scopes) = Len(c.scopes) /\ StateOK(d)
  BY DEF Evolves
<1>2. ASSUME NEW k \in 1 .. Len(c.scopes)
      PROVE  /\ Len(c.scopes[k].code) \in Nat /\ Len(d.scopes[k].code) \in Nat
             /\ CodeGrows(c.scopes[k].code, d.scopes[k].code)
  <2>1. k \in 1 .. Len(d.scopes)
    BY <1>1
  <2> QED  BY <1>1, <2>1, ScopesAre DEF Evolves, ScopeGrows
<1>3. ASSUME NEW m \in 1 .. Len(c.marks) PROVE MarkOK(d, a, m)
  <2> DEFINE k == a.marks[m].level
      i == c.marks[m]
      s == c.scopes[k].code
      t == d.scopes[k].code
  <2>1. MarkOK(c, a, m) /\ k \in 1 .. Len(c.scopes)
    BY <1>3 DEF Follows, MarkOK
  <2>2. Len(s) \in Nat /\ Len(t) \in Nat /\ CodeGrows(s, t)
    BY <1>2, <2>1
  <2>3. /\ i \in 1 .. Len(s) => i \in 1 .. Len(t) /\ t[i] = s[i]
        /\ i \in 1 .. Len(s) + 1 => i \in 1 .. Len(t) + 1
    <3> HIDE DEF i, s, t
    <3> QED  BY <2>2 DEF CodeGrows
  <2> QED  BY <1>1, <2>1, <2>3 DEF MarkOK
<1>4. ASSUME NEW k \in 1 .. Len(c.scopes), NEW i \in 1 .. Len(d.scopes[k].code)
      PROVE  JumpOK(d, a, k, i)
  <2> DEFINE s == c.scopes[k].code
      t == d.scopes[k].code
  <2>1. Len(s) \in Nat /\ Len(t) \in Nat /\ CodeGrows(s, t)
    BY <1>2
  <2>2. CASE i \in 1 .. Len(s)
    <3>1. JumpOK(c, a, k, i)
      BY <2>2 DEF Follows
    <3>2. t[i] = s[i] /\ \A x \in 1 .. Len(s) + 1 : x \in 1 .. Len(t) + 1
      <4> HIDE DEF s, t
      <4> QED  BY <2>1, <2>2 DEF CodeGrows
    <3> QED  BY <1>1, <3>1, <3>2 DEF JumpOK
  <2>3. CASE i \notin 1 .. Len(s)
    <3>1. i \in Len(s) + 1 .. Len(t)
      BY <2>1, <2>3
    <3> QED  BY <2>1, <3>1 DEF CodeGrows, JumpOK
  <2> QED  BY <2>2, <2>3
<1> QED  BY <1>1, <1>3, <1>4 DEF Follows

\* The state with the scope of a new function, which is still empty.
WithFunction(c, type, depth) ==
    [c EXCEPT !.scopes = Append(@, Scope(type, depth))]

LEMMA WithFunctionIs ==
    ASSUME NEW c, StateOK(c), NEW a, Follows(c, a), NEW type, NEW depth
    PROVE  LET d == WithFunction(c, type, depth)
           IN  StateOK(d) /\ Follows(d, At(a.marks, a.level + 1))
<1> DEFINE n == Len(c.scopes)
    f == Scope(type, depth)
    d == WithFunction(c, type, depth)
    b == At(a.marks, a.level + 1)
<1>1. n \in Nat /\ n > 0 /\ IsSeq(c.scopes)
  BY DEF StateOK, IsSeq
<1>2. /\ IsSeq(Append(c.scopes, f)) /\ Len(Append(c.scopes, f)) = n + 1
      /\ Append(c.scopes, f)[n + 1] = f
      /\ \A k \in 1 .. n : Append(c.scopes, f)[k] = c.scopes[k]
  <2> HIDE DEF f
  <2> QED  BY <1>1, AppendIs
<1>3. d = [scopes |-> Append(c.scopes, f), funs |-> c.funs, cls |-> c.cls,
           marks |-> c.marks, failed |-> c.failed, looping |-> c.looping]
  <2>1. d = [c EXCEPT !.scopes = Append(c.scopes, f)]
    BY DEF WithFunction
  <2> HIDE DEF d, f
  <2> QED  BY <2>1, StateRecord DEF StateOK
<1>4. IsScope(f) /\ f.ups = <<>> /\ f.code = <<>>
  <2>1. IsSeq(<<>>)
    BY DEF IsSeq
  <2>2. IsSeq(f.locals)
    <3> DEFINE l == Local("", FALSE, 0)
    <3> HIDE DEF l
    <3>1. IsSeq(<<l>>)
      BY DEF IsSeq
    <3>2. f.locals = <<l>> \/ f.locals = <<>>
      BY DEF Scope, l
    <3> QED  BY <2>1, <3>1, <3>2
  <2> QED  BY <2>1, <2>2 DEF IsScope, Scope
<1> HIDE DEF d, f
<1>5. /\ IsSeq(d.scopes) /\ Len(d.scopes) = n + 1 /\ d.scopes[n + 1] = f
      /\ \A k \in 1 .. n : d.scopes[k] = c.scopes[k]
      /\ d.funs = c.funs /\ d.marks = c.marks
  BY <1>2, <1>3
<1>6. ASSUME NEW k \in 1 .. n + 1 PROVE ScopeOK(d, k)
  <2>1. CASE k = n + 1
    <3>1. 1 .. Len(f.code) = {} /\ 1 .. Len(f.ups) = {}
      BY <1>4
    <3> QED  BY <1>4, <1>5, <2>1, <3>1 DEF ScopeOK
  <2>2. CASE k # n + 1
    <3>1. k \in 1 .. n /\ (k > 1 => k - 1 \in 1 .. n)
      BY <1>1, <2>2
    <3>2. ScopeOK(c, k)
      BY <3>1 DEF StateOK
    <3> QED  BY <1>5, <3>1, <3>2 DEF ScopeOK
  <2> QED  BY <2>1, <2>2
<1>7. StateOK(d)
  <2>1. d = [scopes |-> d.scopes, funs |-> d.funs, cls |-> d.cls,
             marks |-> d.marks, failed |-> d.failed, looping |-> d.looping]
    BY <1>3
  <2>2. Len(d.scopes) > 0 /\ \A k \in 1 .. Len(d.scopes) : ScopeOK(d, k)
    BY <1>1, <1>5, <1>6
  <2>3. /\ IsSeq(d.funs) /\ Len(d.funs) > 0 /\ IsSeq(d.marks)
        /\ \A g \in 2 .. Len(d.funs) : FunctionFits(d.funs, g)
    BY <1>5 DEF StateOK
  <2> QED  BY <1>5, <2>1, <2>2, <2>3 DEF StateOK
<1>8. b.marks = a.marks /\ b.level = n + 1 /\ a.level = n
      /\ Len(a.marks) = Len(c.marks)
  BY DEF At, Follows
<1> HIDE DEF b
<1>9. ASSUME NEW m \in 1 .. Len(d.marks) PROVE MarkOK(d, b, m)
  <2>1. MarkOK(c, a, m)
    BY <1>5 DEF Follows
  <2>2. a.marks[m].level \in 1 .. n /\ a.marks[m].level \in 1 .. n + 1
    <3> DEFINE k == a.marks[m].level
    <3>1. k \in 1 .. a.level
      BY <2>1 DEF MarkOK
    <3> HIDE DEF k
    <3>2. k \in 1 .. n /\ k \in 1 .. n + 1
      BY <1>1, <1>8, <3>1
    <3> QED  BY <3>2 DEF k
  <2>3. /\ d.scopes[a.marks[m].level] = c.scopes[a.marks[m].level]
        /\ d.marks[m] = c.marks[m] /\ b.marks[m] = a.marks[m]
    BY <1>5, <1>8, <2>2
  <2> QED  BY <1>8, <2>1, <2>2, <2>3 DEF MarkOK
<1>10. ASSUME NEW k \in 1 .. n + 1, NEW i \in 1 .. Len(d.scopes[k].code)
       PROVE  JumpOK(d, b, k, i)
  <2>1. k # n + 1
    BY <1>4, <1>5
  <2>2. k \in 1 .. n
    BY <1>1, <2>1
  <2>3. JumpOK(c, a, k, i)
    BY <1>5, <2>2 DEF Follows
  <2> QED  BY <1>5, <1>8, <2>2, <2>3 DEF JumpOK
<1>11. Follows(d, b)
  BY <1>5, <1>8, <1>9, <1>10 DEF Follows
<1> QED  BY <1>7, <1>11 DEF d, b

LEMMA ParameterIs ==
    ASSUME NEW c, StateOK(c), NEW name
    PROVE  Evolves(c, Parameter(c, name))
<1> DEFINE d == Declare(c, name)
<1>1. Evolves(c, d) /\ StateOK(d)
  BY DeclareIs DEF Evolves
<1>2. Parameter(c, name) = Define(d, name)
  BY DEF Parameter
<1> HIDE DEF d
<1>3. Evolves(d, Define(d, name))
  BY <1>1, DefineIs
<1> QED  BY <1>1, <1>2, <1>3, EvolvesTrans

OneMore(c, names, g, i) ==
    IF i = 0 THEN c ELSE Parameter(g[i - 1], names[i])

\* The function that Named defines by recursion exists.
LEMMA NamedDefined ==
    ASSUME NEW c, NEW names, Len(names) \in Nat
    PROVE  \A i \in 0 .. Len(names) :
               Named(c, names)[i] = OneMore(c, names, Named(c, names), i)
<1> DEFINE max == Len(names)
    G(g, n) == g = [i \in 0 .. n |-> OneMore(c, names, g, i)]
    Bad == {n \in 0 .. max : ~ \E g : G(g, n)}
<1>1. max \in Nat
  OBVIOUS
<1>2. Bad = {}
  <2> SUFFICES ASSUME Bad # {} PROVE FALSE
    OBVIOUS
  <2>1. PICK n \in Bad : \A m \in Bad : n <= m
    <3>1. Bad \subseteq Nat
      BY <1>1
    <3> HIDE DEF Bad
    <3> QED  BY <3>1, Least
  <2>2. CASE n = 0
    <3> DEFINE h == [i \in 0 .. 0 |-> c]
    <3>1. G(h, 0)
      BY DEF OneMore
    <3> HIDE DEF h
    <3> QED  BY <2>1, <2>2, <3>1
  <2>3. CASE n # 0
    <3>1. n - 1 \in 0 .. max /\ n \in Nat /\ ~ (n <= n - 1) /\ n \in 0 .. max
      BY <1>1, <2>1, <2>3
    <3>2. n - 1 \notin Bad
      <4> HIDE DEF Bad
      <4> QED  BY <2>1, <3>1
    <3>3. PICK g : G(g, n - 1)
      BY <3>1, <3>2
    <3> DEFINE h == [i \in 0 .. n |-> IF i = n THEN OneMore(c, names, g, n)
                                      ELSE g[i]]
    <3>4. ASSUME NEW i \in 0 .. n PROVE h[i] = OneMore(c, names, h, i)
      <4>1. i # 0 => h[i - 1] = g[i - 1]
        <5>1. i # 0 => i - 1 \in 0 .. n /\ i - 1 # n
          BY <1>1, <3>1
        <5> QED  BY <5>1
      <4>2. OneMore(c, names, h, i) = OneMore(c, names, g, i)
        BY <4>1 DEF OneMore
      <4>3. CASE i = n
        BY <4>2, <4>3
      <4>4. CASE i # n
        <5>1. i \in 0 .. n - 1
          BY <1>1, <3>1, <4>4
        <5>2. g[i] = OneMore(c, names, g, i)
          BY <3>3, <5>1
        <5> QED  BY <4>2, <4>4, <5>2
      <4> QED  BY <4>3, <4>4
    <3>5. G(h, n)
      BY <3>4
    <3> QED  BY <3>5, <2>1
  <2> QED  BY <2>2, <2>3
<1>3. \E g : G(g, max)
  <2>1. max \in 0 .. max
    BY <1>1
  <2> QED  BY <1>2, <2>1
<1>4. Named(c, names) = CHOOSE g : G(g, max)
  BY DEF Named, OneMore
<1>5. G(Named(c, names), max)
  <2> HIDE DEF G
  <2> QED  BY <1>3, <1>4
<1> QED  BY <1>5

LEMMA NamedIs ==
    ASSUME NEW c, StateOK(c), NEW names, Len(names) \in Nat
    PROVE  Evolves(c, Named(c, names)[Len(names)])
<1> DEFINE max == Len(names)
    g == Named(c, names)
    Bad == {i \in 0 .. max : ~Evolves(c, g[i])}
<1>1. max \in Nat /\ \A i \in 0 .. max : g[i] = OneMore(c, names, g, i)
  BY NamedDefined
<1> HIDE DEF g
<1>2. Bad = {}
  <2> SUFFICES ASSUME Bad # {} PROVE FALSE
    OBVIOUS
  <2>1. PICK n \in Bad : \A m \in Bad : n <= m
    <3>1. Bad \subseteq Nat
      BY <1>1
    <3> HIDE DEF Bad
    <3> QED  BY <3>1, Least
  <2>2. n # 0
    <3>1. g[0] = c
      BY <1>1 DEF OneMore
    <3> QED  BY <2>1, <3>1, FailedIs
  <2>3. n - 1 \in 0 .. max /\ n \in Nat /\ ~ (n <= n - 1) /\ n \in 0 .. max
    BY <1>1, <2>1, <2>2
  <2>4. n - 1 \notin Bad
    <3> HIDE DEF Bad
    <3> QED  BY <2>1, <2>3
  <2>5. Evolves(c, g[n - 1]) /\ StateOK(g[n - 1])
    BY <2>3, <2>4 DEF Evolves
  <2>6. g[n] = Parameter(g[n - 1], names[n])
    BY <1>1, <2>2, <2>3 DEF OneMore
  <2>7. Evolves(c, g[n])
    <3> HIDE DEF Bad
    <3> QED  BY <2>5, <2>6, ParameterIs, EvolvesTrans
  <2> QED  BY <2>1, <2>7
<1>3. max \in 0 .. max
  BY <1>1
<1> QED  BY <1>2, <1>3 DEF g

\* compile_function up to the body.
LEMMA BeginFunctionIs ==
    ASSUME NEW c, StateOK(c), NEW a, Follows(c, a), NEW fn, IsSeq(fn.parameters),
           NEW type
    PROVE  LET d == BeginFunction(c, fn, type)
           IN  StateOK(d) /\ Follows(d, At(a.marks, a.level + 1))
<1> DEFINE w == WithFunction(c, type, func(c).depth + 1)
    o == Opened(c, type)
    names == (IF type = "Function" THEN <<>> ELSE <<"this">>) \o fn.parameters
    d == BeginFunction(c, fn, type)
    b == At(a.marks, a.level + 1)
<1>1. StateOK(w) /\ Follows(w, b)
  BY WithFunctionIs
<1>2. o = BeginScope(w)
  BY DEF Opened, WithFunction
<1>3. Len(names) \in Nat
  <2>1. IsSeq(IF type = "Function" THEN <<>> ELSE <<"this">>)
    BY DEF IsSeq
  <2> QED  BY <2>1, ConcatIs DEF IsSeq
<1>4. d = Named(o, names)[Len(names)]
  BY DEF BeginFunction
<1> HIDE DEF names, w, o, d, b
<1>5. Evolves(w, o) /\ StateOK(o)
  BY <1>1, <1>2, BeginScopeIs DEF Evolves
<1>6. Evolves(o, d) /\ StateOK(d)
  BY <1>3, <1>4, <1>5, NamedIs DEF Evolves
<1>7. Follows(d, b)
  BY <1>1, <1>5, <1>6, FollowsKept
<1> QED  BY <1>6, <1>7 DEF b, d

LEMMA RestIs ==
    ASSUME NEW n \in Nat, NEW size \in Nat, n < size
    PROVE  n % size = n
OBVIOUS

\* num_upvalues holds the number.
LEMMA UpvaluesWhole ==
    ASSUME ByteSize \in Nat, NEW ups, IsSeq(ups), Len(ups) < ByteSize
    PROVE  Upvalues(ups) = ups
<1> DEFINE n == Len(ups)
    t == SubSeq(ups, 1, n)
<1>1. n \in Nat /\ 1 \in Nat \ {0} /\ n <= Len(ups) /\ 1 <= n + 1 /\ n - 1 + 1 = n
  BY DEF IsSeq
<1>2. n % ByteSize = n
  <2>1. n < ByteSize
    OBVIOUS
  <2> HIDE DEF n
  <2> QED  BY <1>1, <2>1, RestIs
<1>3. IsSeq(t) /\ Len(t) = n - 1 + 1 /\ \A i \in 1 .. n - 1 + 1 : t[i] = ups[1 + i - 1]
  <2> HIDE DEF n
  <2> QED  BY <1>1, CutIs
<1>4. Upvalues(ups) = t
  BY <1>2 DEF Upvalues
<1> HIDE DEF t
<1>5. \A i \in 1 .. n : t[i] = ups[i]
  BY <1>1, <1>3
<1>6. t = ups
  BY <1>1, <1>3, <1>5 DEF IsSeq
<1> QED  BY <1>4, <1>6

\* What refers to functions still does when there are more.
LEMMA FunsKept ==
    ASSUME NEW p, IsSeq(p), NEW q, IsSeq(q), Len(p) <= Len(q),
           \A f \in 1 .. Len(p) : q[f] = p[f]
    PROVE  /\ \A ins, ups : RefersWell(ins, ups, p) => RefersWell(ins, ups, q)
           /\ \A f \in 1 .. Len(p) : FunctionFits(p, f) => FunctionFits(q, f)
<1>1. \A f \in 1 .. Len(p) : f \in 1 .. Len(q)
  BY DEF IsSeq
<1>2. \A ins, ups : RefersWell(ins, ups, p) => RefersWell(ins, ups, q)
  BY <1>1 DEF RefersWell
<1>3. ASSUME NEW f \in 1 .. Len(p), FunctionFits(p, f) PROVE FunctionFits(q, f)
  BY <1>2, <1>3 DEF FunctionFits
<1> QED  BY <1>2, <1>3

\* The state after the scope of the innermost function has become a function.
WithoutFunction(c, new) ==
    [c EXCEPT !.scopes = Front(@), !.funs = Append(@, new)]

\* The code of the innermost function is complete.
Complete(code) ==
    /\ code[Len(code)] = <<"Return">>
    /\ \A i \in 1 .. Len(code) : IsJump(code[i]) => code[i][2] \in 1 .. Len(code)

LEMMA CompleteIs ==
    ASSUME NEW code, IsSeq(code), Len(code) > 0, Complete(code)
    PROVE  ControlStays(code)
<1>1. Len(code) \in Nat /\ 1 \in 1 .. Len(code)
  BY DEF IsSeq
<1>2. ASSUME NEW i \in 1 .. Len(code), code[i][1] # "Return"
      PROVE  i + 1 \in 1 .. Len(code)
  <2>1. i # Len(code)
    BY <1>2 DEF Complete
  <2> QED  BY <1>1, <2>1
<1> QED  BY <1>1, <1>2 DEF ControlStays, Complete

LEMMA WithoutFunctionIs ==
    ASSUME NEW c, StateOK(c), NEW a, Follows(c, a), a.level > 1,
           \A m \in 1 .. Len(a.marks) : a.marks[m].level < a.level,
           Complete(func(c).code), Len(func(c).code) > 0,
           NEW new, IsCodeObject(new),
           new.ups = func(c).ups, new.code = func(c).code
    PROVE  LET d == WithoutFunction(c, new)
           IN  /\ StateOK(d) /\ Follows(d, At(a.marks, a.level - 1))
               /\ Len(d.funs) = Len(c.funs) + 1
               /\ RefersWell(<<"CreateClosure", Len(c.funs) + 1>>, func(d).ups,
                             d.funs)
<1> DEFINE n == Len(c.scopes)
    l == Len(c.funs)
    d == WithoutFunction(c, new)
    b == At(a.marks, a.level - 1)
    f == func(c)
<1>1. n \in Nat /\ n = a.level /\ n > 1 /\ IsSeq(c.scopes) /\ IsSeq(c.funs)
      /\ l \in Nat /\ l > 0
  BY DEF StateOK, IsSeq, Follows
<1>2. /\ IsSeq(f.ups) /\ IsSeq(f.code) /\ ScopeOK(c, n) /\ f = c.scopes[n]
      /\ IsScope(f)
  BY Innermost
<1>3. /\ IsSeq(Front(c.scopes)) /\ Len(Front(c.scopes)) = n - 1
      /\ \A k \in 1 .. n - 1 : Front(c.scopes)[k] = c.scopes[k]
  BY <1>1, FrontIs
<1>4. /\ IsSeq(Append(c.funs, new)) /\ Len(Append(c.funs, new)) = l + 1
      /\ Append(c.funs, new)[l + 1] = new
      /\ \A g \in 1 .. l : Append(c.funs, new)[g] = c.funs[g]
  BY <1>1, AppendIs
<1>5. d = [scopes |-> Front(c.scopes), funs |-> Append(c.funs, new),
           cls |-> c.cls, marks |-> c.marks, failed |-> c.failed,
           looping |-> c.looping]
  <2>1. d = [c EXCEPT !.scopes = Front(c.scopes), !.funs = Append(c.funs, new)]
    BY DEF WithoutFunction
  <2> HIDE DEF d
  <2> QED  BY <2>1, StateRecord DEF StateOK
<1> HIDE DEF d, f
<1>6. /\ IsSeq(d.scopes) /\ Len(d.scopes) = n - 1
      /\ \A k \in 1 .. n - 1 : d.scopes[k] = c.scopes[k]
      /\ IsSeq(d.funs) /\ Len(d.funs) = l + 1 /\ d.funs[l + 1] = new
      /\ \A g \in 1 .. l : d.funs[g] = c.funs[g]
      /\ d.marks = c.marks
  BY <1>3, <1>4, <1>5
<1>7. /\ \A ins, ups : RefersWell(ins, ups, c.funs) => RefersWell(ins, ups, d.funs)
      /\ \A g \in 1 .. l : FunctionFits(c.funs, g) => FunctionFits(d.funs, g)
  <2>1. /\ IsSeq(c.funs) /\ IsSeq(d.funs) /\ Len(c.funs) <= Len(d.funs)
        /\ \A g \in 1 .. Len(c.funs) : d.funs[g] = c.funs[g]
    BY <1>1, <1>6
  <2> QED  BY <2>1, FunsKept
<1>8. \A k \in 1 .. n - 1 : k \in 1 .. n /\ (k > 1 => k - 1 \in 1 .. n - 1)
  BY <1>1
<1>9. ASSUME NEW k \in 1 .. n - 1 PROVE ScopeOK(d, k)
  <2>1. ScopeOK(c, k)
    BY <1>8 DEF StateOK
  <2> QED  BY <1>6, <1>7, <1>8, <2>1 DEF ScopeOK
<1>10. FunctionFits(d.funs, l + 1)
  <2>1. ControlStays(f.code)
    BY <1>2, CompleteIs DEF f
  <2>2. \A i \in 1 .. Len(f.code) : RefersWell(f.code[i], f.ups, d.funs)
    BY <1>2, <1>7 DEF ScopeOK
  <2> QED  BY <1>2, <1>6, <2>1, <2>2 DEF FunctionFits, f
<1>11. ASSUME NEW g \in 2 .. l + 1 PROVE FunctionFits(d.funs, g)
  <2>1. CASE g = l + 1
    BY <1>10, <2>1
  <2>2. CASE g # l + 1
    <3>1. g \in 2 .. l /\ g \in 1 .. l
      BY <1>1, <2>2
    <3> QED  BY <1>7, <3>1 DEF StateOK
  <2> QED  BY <2>1, <2>2
<1>12. StateOK(d)
  <2>1. d = [scopes |-> d.scopes, funs |-> d.funs, cls |-> d.cls,
             marks |-> d.marks, failed |-> d.failed, looping |-> d.looping]
    BY <1>5
  <2>2. Len(d.scopes) > 0 /\ \A k \in 1 .. Len(d.scopes) : ScopeOK(d, k)
    BY <1>1, <1>6, <1>9
  <2>3. /\ Len(d.funs) > 0 /\ IsSeq(d.marks)
        /\ \A g \in 2 .. Len(d.funs) : FunctionFits(d.funs, g)
    BY <1>1, <1>6, <1>11 DEF StateOK
  <2> QED  BY <1>6, <2>1, <2>2, <2>3 DEF StateOK
<1>13. b.marks = a.marks /\ b.level = n - 1 /\ Len(a.marks) = Len(c.marks)
       /\ IsSeq(a.marks)
  BY <1>1 DEF At, Follows
<1> HIDE DEF b
<1>14. ASSUME NEW m \in 1 .. Len(d.marks) PROVE MarkOK(d, b, m)
  <2>1. MarkOK(c, a, m) /\ a.marks[m].level < n
    BY <1>1, <1>6, <1>13 DEF Follows
  <2>2. a.marks[m].level \in 1 .. n - 1
    <3> DEFINE k == a.marks[m].level
    <3>1. k \in 1 .. a.level /\ k < n
      BY <2>1 DEF MarkOK
    <3> HIDE DEF k
    <3>2. k \in 1 .. n - 1
      BY <1>1, <3>1
    <3> QED  BY <3>2 DEF k
  <2>3. /\ d.scopes[a.marks[m].level] = c.scopes[a.marks[m].level]
        /\ d.marks[m] = c.marks[m] /\ b.marks[m] = a.marks[m]
    BY <1>6, <1>13, <2>2
  <2> QED  BY <1>13, <2>1, <2>2, <2>3 DEF MarkOK
<1>15. ASSUME NEW k \in 1 .. n - 1, NEW i \in 1 .. Len(d.scopes[k].code)
       PROVE  JumpOK(d, b, k, i)
  <2>1. JumpOK(c, a, k, i)
    BY <1>6, <1>8 DEF Follows
  <2> QED  BY <1>6, <1>13, <2>1 DEF JumpOK
<1>16. Follows(d, b)
  BY <1>6, <1>13, <1>14, <1>15 DEF Follows
<1>17. func(d) = c.scopes[n - 1]
  <2>1. n - 1 \in 1 .. n - 1
    BY <1>1
  <2> QED  BY <1>6, <2>1 DEF func, Last
<1>18. \A u \in 1 .. Len(new.ups) : InReach(new.ups[u], c.scopes[n - 1].ups)
  BY <1>1, <1>2 DEF ScopeOK, f
<1>19. RefersWell(<<"CreateClosure", l + 1>>, func(d).ups, d.funs)
  <2>1. l + 1 \in 1 .. Len(d.funs)
    BY <1>1, <1>6
  <2> QED  BY <1>6, <1>17, <1>18, <2>1 DEF RefersWell
<1> QED  BY <1>6, <1>12, <1>16, <1>19 DEF d, b

\* compile_function from the end of the body.
LEMMA EndFunctionIs ==
    ASSUME ByteSize \in Nat, NEW c, StateOK(c), NEW a, Follows(c, a), a.level > 1,
           \A m \in 1 .. Len(a.marks) : a.marks[m].level < a.level,
           Len(func(EndBody(c)).ups) < ByteSize,
           NEW new, new = [name |-> new.name, arity |-> new.arity,
                           ups |-> new.ups, code |-> new.code],
           new.ups = Upvalues(func(EndBody(c)).ups),
           new.code = func(EndBody(c)).code, NEW d,
           d = Emit(WithoutFunction(EndBody(c), new),
                    <<"CreateClosure", Len(EndBody(c).funs) + 1>>)
    PROVE  StateOK(d) /\ Follows(d, At(a.marks, a.level - 1))
<1> DEFINE e == EndBody(c)
    n == Len(c.scopes)
    s == func(c).code
    t == func(e).code
    w == WithoutFunction(e, new)
    ins == <<"CreateClosure", Len(e.funs) + 1>>
    b == At(a.marks, a.level - 1)
<1>1. Evolves(c, e) /\ Len(t) > Len(s) + 1 /\ t[Len(t)] = <<"Return">>
  BY EndBodyIs
<1> HIDE DEF e
<1>2. StateOK(e) /\ Follows(e, a) /\ Len(e.scopes) = n
  BY <1>1, FollowsKept DEF Evolves
<1>3. /\ n \in 1 .. n /\ func(c) = c.scopes[n] /\ func(e) = e.scopes[n]
      /\ Len(s) \in Nat /\ Len(t) \in Nat /\ IsSeq(func(e).ups)
  BY <1>2, Innermost
<1>4. CodeGrows(s, t)
  BY <1>1, <1>3 DEF Evolves, ScopeGrows
<1>5. Complete(t)
  <2> SUFFICES ASSUME NEW i \in 1 .. Len(t), IsJump(t[i])
               PROVE  t[i][2] \in 1 .. Len(t)
    BY <1>1 DEF Complete
  <2>1. i \in 1 .. Len(s) /\ t[i] = s[i]
    <3> HIDE DEF s, t
    <3>1. i \notin Len(s) + 1 .. Len(t)
      BY <1>4 DEF CodeGrows
    <3> QED  BY <1>3, <1>4, <3>1 DEF CodeGrows
  <2>2. JumpOK(c, a, n, i)
    BY <1>3, <2>1 DEF Follows
  <2>3. \A m \in 1 .. Len(c.marks) : a.marks[m] # Jumps(n)
    BY DEF Jumps, Follows
  <2>4. s[i][2] \in 1 .. Len(s) + 1
    BY <1>3, <2>1, <2>2, <2>3 DEF JumpOK
  <2> HIDE DEF s, t
  <2> QED  BY <1>1, <1>3, <2>1, <2>4
<1>6. new.ups = func(e).ups /\ new.code = t /\ IsCodeObject(new)
  <2>1. new.ups = func(e).ups /\ new.code = t
    BY <1>3, UpvaluesWhole DEF e
  <2>2. IsSeq(t) /\ IsSeq(func(e).ups)
    BY <1>2, Innermost
  <2> QED  BY <2>1, <2>2 DEF IsCodeObject
<1>7. Len(t) > 0
  BY <1>1, <1>3
<1> HIDE DEF t
<1>8. /\ StateOK(w) /\ Follows(w, b) /\ Len(w.funs) = Len(e.funs) + 1
      /\ RefersWell(ins, func(w).ups, w.funs)
  BY <1>2, <1>5, <1>6, <1>7, WithoutFunctionIs DEF t
<1>9. ~IsJump(ins) /\ d = Emit(w, ins)
  BY DEF IsJump, e
<1> HIDE DEF w, ins, b
<1>10. Evolves(w, d)
  BY <1>8, <1>9, EmitIs
<1>11. StateOK(d) /\ Follows(d, b)
  BY <1>8, <1>10, FollowsKept DEF Evolves
<1> QED  BY <1>11 DEF b

-----------------------------------------------------------------------------
(* Jumps.                                                                  *)

\* f can take the place of the innermost function.
Stands(c, f) ==
    /\ IsScope(f) /\ f.ups = func(c).ups
    /\ \A i \in 1 .. Len(f.code) : RefersWell(f.code[i], f.ups, c.funs)

\* The innermost function is f, and the marks are new.
Marks(c, d, f, marks) ==
    d = [scopes |-> [c.scopes EXCEPT ![Len(c.scopes)] = f], funs |-> c.funs,
         cls |-> c.cls, marks |-> marks, failed |-> d.failed,
         looping |-> c.looping]

LEMMA MarksRecord ==
    ASSUME NEW c, NEW f, NEW m, NEW e, Marks(c, e, f, m), NEW x
    PROVE  /\ e.marks = m /\ Marks(c, Failed(e), f, m) /\ Failed(e).marks = m
           /\ Marks(c, [e EXCEPT !.marks = x], f, x)
<1> DEFINE s == [c.scopes EXCEPT ![Len(c.scopes)] = f]
    g == c.funs
    t == c.cls
    y == e.failed
    l == c.looping
<1>1. e = [scopes |-> s, funs |-> g, cls |-> t, marks |-> m, failed |-> y,
           looping |-> l]
  BY DEF Marks
<1> HIDE DEF s, g, t, y, l
<1>2. e.marks = m
  BY <1>1
<1>3. [e EXCEPT !.marks = x] =
      [scopes |-> s, funs |-> g, cls |-> t, marks |-> x, failed |-> y,
       looping |-> l]
  BY <1>1
<1>4. \A z : [e EXCEPT !.failed = z] =
             [scopes |-> s, funs |-> g, cls |-> t, marks |-> m, failed |-> z,
              looping |-> l]
  BY <1>1
<1> DEFINE p == [e EXCEPT !.marks = x]
    q == [e EXCEPT !.failed = TRUE]
<1> HIDE DEF p, q
<1>5. p.failed = y /\ q.failed = TRUE /\ q.marks = m
  BY <1>3, <1>4 DEF p, q
<1>6. Marks(c, p, f, x) /\ Marks(c, q, f, m)
  BY <1>3, <1>4, <1>5 DEF Marks, p, q, s, g, t, l
<1> QED  BY <1>2, <1>5, <1>6 DEF Failed, p, q

LEMMA MarksOf ==
    ASSUME NEW c, NEW f, NEW m, NEW e, Marks(c, e, f, m)
    PROVE  e.marks = m
<1> DEFINE s == [c.scopes EXCEPT ![Len(c.scopes)] = f]
<1>1. e = [scopes |-> s, funs |-> c.funs, cls |-> c.cls, marks |-> m,
           failed |-> e.failed, looping |-> c.looping]
  BY DEF Marks
<1> HIDE DEF s
<1> QED  BY <1>1

LEMMA UpdateRecord ==
    ASSUME NEW c, StateOK(c), NEW f
    PROVE  /\ Marks(c, Update(c, f), f, c.marks)
           /\ Marks(c, Update(Failed(c), f), f, c.marks)
<1> DEFINE r == c.scopes
    s == [r EXCEPT ![Len(r)] = f]
    g == c.funs
    t == c.cls
    m == c.marks
    y == c.failed
    l == c.looping
    e == Failed(c)
    p == Update(c, f)
    q == Update(e, f)
<1>1. c = [scopes |-> r, funs |-> g, cls |-> t, marks |-> m, failed |-> y,
           looping |-> l]
  BY DEF StateOK
<1> HIDE DEF r, g, t, m, y, l
<1>2. e = [scopes |-> r, funs |-> g, cls |-> t, marks |-> m, failed |-> TRUE,
           looping |-> l]
  <2>1. \A z : [c EXCEPT !.failed = z] =
               [scopes |-> r, funs |-> g, cls |-> t, marks |-> m, failed |-> z,
                looping |-> l]
    BY <1>1
  <2> QED  BY <2>1 DEF Failed
<1> HIDE DEF e
<1>3. c.scopes = r /\ e.scopes = r
  BY <1>1, <1>2
<1>4. p = [scopes |-> s, funs |-> g, cls |-> t, marks |-> m, failed |-> y,
           looping |-> l]
  BY <1>1 DEF Update, r
<1>5. q = [scopes |-> s, funs |-> g, cls |-> t, marks |-> m, failed |-> TRUE,
           looping |-> l]
  <2>1. q = [e EXCEPT !.scopes[Len(r)] = f]
    BY <1>3 DEF Update
  <2> HIDE DEF q
  <2> QED  BY <1>2, <2>1
<1> HIDE DEF p, q
<1>6. p.failed = y /\ q.failed = TRUE
  BY <1>4, <1>5
<1>7. Marks(c, p, f, m) /\ Marks(c, q, f, m)
  BY <1>3, <1>4, <1>5, <1>6 DEF Marks, g, t, l, r
<1> QED  BY <1>7 DEF p, q, e, m

LEMMA MarksAre ==
    ASSUME NEW c, StateOK(c), NEW f, Stands(c, f), NEW marks, IsSeq(marks),
           NEW d, Marks(c, d, f, marks)
    PROVE  /\ StateOK(d) /\ d.marks = marks /\ Len(d.scopes) = Len(c.scopes)
           /\ d.scopes[Len(c.scopes)] = f
           /\ \A k \in 1 .. Len(c.scopes) :
                  k # Len(c.scopes) => d.scopes[k] = c.scopes[k]
<1> DEFINE n == Len(c.scopes)
<1>1. /\ n \in Nat /\ n \in 1 .. n /\ IsSeq(c.scopes) /\ ScopeOK(c, n)
      /\ func(c) = c.scopes[n]
  BY Innermost DEF StateOK
<1>2. d.scopes = [c.scopes EXCEPT ![n] = f] /\ d.funs = c.funs /\ d.marks = marks
  BY DEF Marks
<1>3. /\ IsSeq(d.scopes) /\ Len(d.scopes) = n
      /\ \A k \in 1 .. n : d.scopes[k] = IF k = n THEN f ELSE c.scopes[k]
  <2> DEFINE r == c.scopes
  <2> HIDE DEF n, r
  <2>1. IsSeq(r) /\ Len(r) = n /\ d.scopes = [r EXCEPT ![n] = f]
    BY <1>1, <1>2 DEF n, r
  <2> QED  BY <2>1, ExceptIs DEF r
<1>4. \A k \in 1 .. n : k > 1 => k - 1 \in 1 .. n /\ k - 1 # n
  BY <1>1
<1> HIDE DEF n
<1>5. ASSUME NEW k \in 1 .. n PROVE ScopeOK(d, k)
  <2>1. ScopeOK(c, k)
    BY DEF StateOK, n
  <2>2. CASE k = n
    BY <1>1, <1>2, <1>3, <1>4, <2>1, <2>2 DEF ScopeOK, Stands
  <2>3. CASE k # n
    BY <1>1, <1>2, <1>3, <1>4, <2>1, <2>3 DEF ScopeOK
  <2> QED  BY <2>2, <2>3
<1>6. StateOK(d)
  <2>1. d = [scopes |-> d.scopes, funs |-> d.funs, cls |-> d.cls,
             marks |-> d.marks, failed |-> d.failed, looping |-> d.looping]
    BY DEF Marks
  <2> QED  BY <1>1, <1>2, <1>3, <1>5, <2>1 DEF StateOK, n
<1> QED  BY <1>1, <1>2, <1>3, <1>6 DEF n

\* A mark of c is one of d.
Kept(c, a, m, d, b, l) ==
    l \in 1 .. Len(d.marks) /\ d.marks[l] = c.marks[m] /\ b.marks[l] = a.marks[m]

\* A jump stays a jump, though it may get another target.
StaysJump(s, t) ==
    /\ Len(s) \in Nat /\ Len(t) \in Nat /\ Len(s) <= Len(t)
    /\ \A i \in 1 .. Len(s) :
           IsJump(s[i]) /\ s[i] = <<s[i][1], s[i][2]>> =>
           IsJump(t[i]) /\ t[i] = <<t[i][1], t[i][2]>>

JumpsStay(c, d) ==
    \A k \in 1 .. Len(c.scopes) : StaysJump(c.scopes[k].code, d.scopes[k].code)

LEMMA MarkKept ==
    ASSUME NEW c, NEW a, a.level = Len(c.scopes), NEW m, MarkOK(c, a, m), NEW d,
           NEW b, b.level = a.level, NEW l, Kept(c, a, m, d, b, l),
           JumpsStay(c, d)
    PROVE  MarkOK(d, b, l)
<1> DEFINE k == a.marks[m].level
    i == c.marks[m]
    s == c.scopes[k].code
    t == d.scopes[k].code
<1>1. k \in 1 .. a.level /\ b.marks[l] = a.marks[m] /\ d.marks[l] = i
  BY DEF MarkOK, Kept
<1>2. StaysJump(s, t)
  BY <1>1 DEF JumpsStay
<1>3. /\ i \in 1 .. Len(s) => i \in 1 .. Len(t)
      /\ i \in 1 .. Len(s) + 1 => i \in 1 .. Len(t) + 1
      /\ i \in 1 .. Len(s) /\ IsJump(s[i]) /\ s[i] = <<s[i][1], s[i][2]>> =>
         IsJump(t[i]) /\ t[i] = <<t[i][1], t[i][2]>>
  <2> HIDE DEF i, s, t
  <2> QED  BY <1>2 DEF StaysJump
<1> QED  BY <1>1, <1>3 DEF MarkOK

\* The jumps of the other functions keep their marks.
OthersKept(c, a, d, b) ==
    \A m \in 1 .. Len(c.marks) :
        \A k \in 1 .. a.level : k # a.level /\ a.marks[m] = Jumps(k) =>
                                \E l : Kept(c, a, m, d, b, l)

LEMMA Replanned ==
    ASSUME NEW c, StateOK(c), NEW a, Follows(c, a), NEW f, Stands(c, f),
           NEW marks, IsSeq(marks), NEW d, Marks(c, d, f, marks),
           NEW b, b.level = a.level, IsSeq(b.marks), Len(b.marks) = Len(marks),
           \A l \in 1 .. Len(marks) : MarkOK(d, b, l),
           \A i \in 1 .. Len(f.code) : JumpOK(d, b, a.level, i),
           OthersKept(c, a, d, b)
    PROVE  StateOK(d) /\ Follows(d, b)
<1> DEFINE n == Len(c.scopes)
<1>1. /\ StateOK(d) /\ d.marks = marks /\ Len(d.scopes) = n /\ a.level = n
      /\ d.scopes[n] = f
      /\ \A k \in 1 .. n : k # n => d.scopes[k] = c.scopes[k]
  BY MarksAre DEF Follows
<1> HIDE DEF n
<1>2. ASSUME NEW k \in 1 .. n, NEW i \in 1 .. Len(d.scopes[k].code)
      PROVE  JumpOK(d, b, k, i)
  <2>1. CASE k = n
    BY <1>1, <2>1
  <2>2. CASE k # n
    <3>1. JumpOK(c, a, k, i) /\ d.scopes[k] = c.scopes[k]
      BY <1>1, <2>2 DEF Follows, n
    <3>2. ASSUME NEW m \in 1 .. Len(c.marks), c.marks[m] = i,
                 a.marks[m] = Jumps(k)
          PROVE  \E l \in 1 .. Len(d.marks) : d.marks[l] = i
                                              /\ b.marks[l] = Jumps(k)
      <4>1. PICK l : Kept(c, a, m, d, b, l)
        BY <1>1, <2>2, <3>2 DEF OthersKept
      <4> QED  BY <3>2, <4>1 DEF Kept
    <3> QED  BY <3>1, <3>2 DEF JumpOK
  <2> QED  BY <2>1, <2>2
<1> QED  BY <1>1, <1>2 DEF Follows

\* add_instruction as a change of the innermost function.
Emitted(c, ins, f) ==
    /\ Stands(c, f) /\ f.code = Append(func(c).code, ins)
    /\ Marks(c, Emit(c, ins), f, c.marks) /\ func(Emit(c, ins)) = f

LEMMA EmitRecord ==
    ASSUME NEW c, StateOK(c), NEW ins, RefersWell(ins, func(c).ups, c.funs)
    PROVE  \E f : Emitted(c, ins, f)
<1> DEFINE n == Len(c.scopes)
    g == func(c)
    x == Append(g.code, ins)
    z == g.constants \cup Constant(ins)
    y == c.failed \/ NoRoom(g, Constant(ins))
    f == [g EXCEPT !.code = x, !.constants = z]
    d == Emit(c, ins)
<1>1. /\ IsScope(g) /\ n \in 1 .. n /\ IsSeq(c.scopes) /\ ScopeOK(c, n)
      /\ g = c.scopes[n] /\ IsSeq(g.code) /\ Len(g.code) \in Nat
  BY Innermost DEF StateOK
<1>2. /\ IsSeq(x) /\ Len(x) = Len(g.code) + 1 /\ x[Len(g.code) + 1] = ins
      /\ \A i \in 1 .. Len(g.code) : x[i] = g.code[i]
  <2> HIDE DEF g
  <2> QED  BY <1>1, AppendIs
<1>3. d = [c EXCEPT !.scopes[n] = f, !.failed = y]
  BY DEF Emit
<1> HIDE DEF d, x, y, z
<1>4. f = [type |-> g.type, depth |-> g.depth, ups |-> g.ups, code |-> x,
           constants |-> z, locals |-> g.locals]
  <2> HIDE DEF g
  <2>1. IsScope(g)
    BY <1>1
  <2> QED  BY <2>1, CodeRecord
<1> HIDE DEF f
<1>5. IsScope(f) /\ f.ups = g.ups /\ f.code = x
  BY <1>1, <1>2, <1>4 DEF IsScope
<1>6. Marks(c, d, f, c.marks) /\ d.scopes = [c.scopes EXCEPT ![n] = f]
  BY <1>3, StateRecord DEF StateOK, Marks
<1>7. Len(d.scopes) = n /\ d.scopes[n] = f
  <2> HIDE DEF n
  <2> QED  BY <1>1, <1>6, ExceptIs DEF n
<1>8. func(d) = f
  BY <1>7 DEF func, Last
<1>9. ASSUME NEW i \in 1 .. Len(x) PROVE RefersWell(x[i], g.ups, c.funs)
  <2>1. CASE i = Len(g.code) + 1
    BY <1>2, <2>1
  <2>2. CASE i # Len(g.code) + 1
    <3>1. i \in 1 .. Len(g.code)
      BY <1>1, <1>2, <2>2
    <3> QED  BY <1>1, <1>2, <3>1 DEF ScopeOK
  <2> QED  BY <2>1, <2>2
<1>10. Stands(c, f)
  BY <1>5, <1>9 DEF Stands, g
<1> QED  BY <1>5, <1>6, <1>8, <1>10 DEF d, x, g, Emitted

\* When the innermost function becomes f.
LEMMA SameLevels ==
    ASSUME NEW c, StateOK(c), NEW f, Stands(c, f), NEW marks, IsSeq(marks),
           NEW d, Marks(c, d, f, marks), StaysJump(func(c).code, f.code)
    PROVE  JumpsStay(c, d)
<1> SUFFICES ASSUME NEW k \in 1 .. Len(c.scopes)
             PROVE  StaysJump(c.scopes[k].code, d.scopes[k].code)
  BY DEF JumpsStay
<1> DEFINE n == Len(c.scopes)
<1>1. d.scopes[n] = f /\ (k # n => d.scopes[k] = c.scopes[k])
  BY MarksAre
<1>2. func(c) = c.scopes[n]
  BY Innermost
<1>3. CASE k = n
  BY <1>1, <1>2, <1>3
<1>4. CASE k # n
  <2> DEFINE s == c.scopes[k].code
  <2>1. Len(s) \in Nat
    BY ScopesAre
  <2> HIDE DEF s
  <2>2. StaysJump(s, s)
    BY <2>1 DEF StaysJump
  <2> QED  BY <1>1, <1>4, <2>2 DEF s
<1> QED  BY <1>3, <1>4

\* What Follows says of the lengths.
LEMMA Lengths ==
    ASSUME NEW c, StateOK(c), NEW a, Follows(c, a)
    PROVE  /\ a.level = Len(c.scopes) /\ a.level \in Nat /\ a.level \in 1 .. a.level
           /\ func(c) = c.scopes[a.level] /\ IsSeq(func(c).code)
           /\ Len(func(c).code) \in Nat
           /\ IsSeq(a.marks) /\ IsSeq(c.marks) /\ Len(a.marks) = Len(c.marks)
           /\ Len(c.marks) \in Nat
<1>1. /\ Len(c.scopes) \in Nat /\ Len(c.scopes) \in 1 .. Len(c.scopes)
      /\ func(c) = c.scopes[Len(c.scopes)] /\ IsSeq(func(c).code)
      /\ Len(func(c).code) \in Nat
  BY Innermost
<1>2. IsSeq(c.marks) /\ Len(c.marks) \in Nat
  BY DEF StateOK, IsSeq
<1>3. a.level = Len(c.scopes) /\ IsSeq(a.marks) /\ Len(a.marks) = Len(c.marks)
  BY DEF Follows
<1> QED  BY <1>1, <1>2, <1>3

Appends(s, t, x) == t = Append(s, x)
Replaces(s, t, i, x) == t = [s EXCEPT ![i] = x]
IsPair(ins) == ins = <<ins[1], ins[2]>>

LEMMA AppendsIs ==
    ASSUME NEW s, IsSeq(s), NEW t, NEW x, Appends(s, t, x)
    PROVE  /\ IsSeq(t) /\ Len(t) = Len(s) + 1 /\ t[Len(s) + 1] = x
           /\ \A i \in 1 .. Len(s) : t[i] = s[i]
BY AppendIs DEF Appends

LEMMA ReplacesIs ==
    ASSUME NEW s, IsSeq(s), NEW t, NEW n, NEW x, Replaces(s, t, n, x)
    PROVE  /\ IsSeq(t) /\ Len(t) = Len(s)
           /\ \A i \in 1 .. Len(s) : t[i] = IF i = n THEN x ELSE s[i]
<1>1. Len(s) \in Nat /\ s = [i \in 1 .. Len(s) |-> s[i]]
  BY DEF IsSeq
<1>2. t = [i \in 1 .. Len(s) |-> t[i]]
  BY <1>1 DEF Replaces
<1>3. \A i \in 1 .. Len(s) : t[i] = IF i = n THEN x ELSE s[i]
  BY <1>1 DEF Replaces
<1>4. IsSeq(t) /\ Len(t) = Len(s)
  BY <1>1, <1>2, FunctionIsSeq
<1> QED  BY <1>3, <1>4

\* A jump is added and marked.
LEMMA JumpAdded ==
    ASSUME NEW c, StateOK(c), NEW a, Follows(c, a), NEW f, Stands(c, f),
           NEW ins, IsJump(ins), IsPair(ins), Appends(func(c).code, f.code, ins),
           NEW marks, Appends(c.marks, marks, Len(f.code)), NEW d,
           Marks(c, d, f, marks)
    PROVE  StateOK(d) /\ Follows(d, At(Append(a.marks, Jumps(a.level)), a.level))
<1> DEFINE s == func(c).code
    t == f.code
    n == a.level
    p == Append(a.marks, Jumps(n))
    b == At(p, n)
    l == Len(c.marks)
<1>1. /\ IsSeq(s) /\ Len(s) \in Nat /\ n = Len(c.scopes) /\ n \in Nat
      /\ n \in 1 .. n /\ func(c) = c.scopes[n] /\ IsSeq(a.marks)
      /\ Len(a.marks) = l /\ IsSeq(c.marks) /\ l \in Nat
  BY Lengths
<1>2. /\ IsSeq(t) /\ Len(t) = Len(s) + 1 /\ t[Len(s) + 1] = ins
      /\ \A i \in 1 .. Len(s) : t[i] = s[i]
  <2> HIDE DEF s, t
  <2> QED  BY <1>1, AppendsIs DEF s, t
<1>3. /\ IsSeq(marks) /\ Len(marks) = l + 1 /\ marks[l + 1] = Len(t)
      /\ \A m \in 1 .. l : marks[m] = c.marks[m]
  <2> HIDE DEF l, t
  <2> QED  BY <1>1, AppendsIs DEF l, t
<1>4. /\ IsSeq(p) /\ Len(p) = l + 1 /\ p[l + 1] = Jumps(n)
      /\ \A m \in 1 .. l : p[m] = a.marks[m]
  <2> HIDE DEF l, n
  <2> QED  BY <1>1, AppendIs
<1>5. b.marks = p /\ b.level = n
  BY DEF At
<1> HIDE DEF b, p
<1>6. /\ StateOK(d) /\ d.marks = marks /\ Len(d.scopes) = Len(c.scopes)
      /\ d.scopes[n] = f
  <2>1. IsSeq(marks)
    BY <1>3
  <2>2. StateOK(d) /\ d.marks = marks
    BY <2>1, MarksAre
  <2>3. Len(d.scopes) = Len(c.scopes) /\ d.scopes[Len(c.scopes)] = f
    BY <2>1, MarksAre
  <2> QED  BY <1>1, <2>2, <2>3
<1>7. ASSUME NEW m \in 1 .. l PROVE Kept(c, a, m, d, b, m)
  <2>1. m \in 1 .. l + 1
    BY <1>1
  <2> QED  BY <1>3, <1>4, <1>5, <1>6, <2>1 DEF Kept
<1>8. JumpsStay(c, d)
  <2> HIDE DEF s, t
  <2>1. StaysJump(s, t)
    BY <1>1, <1>2 DEF StaysJump
  <2> QED  BY <1>3, <2>1, SameLevels DEF s, t
<1>9. ASSUME NEW m \in 1 .. Len(marks) PROVE MarkOK(d, b, m)
  <2>1. CASE m = l + 1
    <3>1. b.marks[m] = Jumps(n) /\ Jumps(n).level = n
      BY <1>4, <1>5, <2>1 DEF Jumps
    <3>2. d.marks[m] = Len(t) /\ Len(t) \in 1 .. Len(t) /\ t[Len(t)] = ins
      <4> HIDE DEF s, t
      <4>1. d.marks[m] = Len(t)
        BY <1>3, <1>6, <2>1
      <4>2. Len(t) \in 1 .. Len(t) /\ t[Len(t)] = ins
        BY <1>1, <1>2
      <4> QED  BY <4>1, <4>2
    <3>3. d.scopes[n].code = t /\ n \in 1 .. b.level
      BY <1>1, <1>5, <1>6
    <3> HIDE DEF t
    <3> QED  BY <3>1, <3>2, <3>3 DEF MarkOK, IsPair
  <2>2. CASE m # l + 1
    <3>1. m \in 1 .. l
      BY <1>1, <1>3, <2>2
    <3>2. MarkOK(c, a, m)
      BY <3>1 DEF Follows
    <3> QED  BY <1>1, <1>5, <1>7, <1>8, <3>1, <3>2, MarkKept
  <2> QED  BY <2>1, <2>2
<1>10. ASSUME NEW i \in 1 .. Len(t) PROVE JumpOK(d, b, n, i)
  <2>1. CASE i = Len(s) + 1
    <3>1. /\ l + 1 \in 1 .. Len(d.marks) /\ d.marks[l + 1] = i
          /\ b.marks[l + 1] = Jumps(n)
      <4> HIDE DEF s, t, l
      <4> QED  BY <1>1, <1>2, <1>3, <1>4, <1>5, <1>6, <2>1
    <3> QED  BY <3>1 DEF JumpOK
  <2>2. CASE i # Len(s) + 1
    <3>1. i \in 1 .. Len(s)
      BY <1>1, <1>2, <2>2
    <3>2. JumpOK(c, a, n, i)
      BY <1>1, <3>1 DEF Follows
    <3>3. /\ d.scopes[n].code = t /\ c.scopes[n].code = s /\ t[i] = s[i]
          /\ \A x \in 1 .. Len(s) + 1 : x \in 1 .. Len(t) + 1
      BY <1>1, <1>2, <1>6, <3>1
    <3>4. \A m \in 1 .. l : Kept(c, a, m, d, b, m)
      BY <1>7
    <3> HIDE DEF s, t
    <3> QED  BY <3>2, <3>3, <3>4 DEF JumpOK, Kept
  <2> QED  BY <2>1, <2>2
<1>11. OthersKept(c, a, d, b)
  BY <1>7 DEF OthersKept
<1>12. b.level = a.level /\ IsSeq(b.marks) /\ Len(b.marks) = Len(marks)
  BY <1>3, <1>4, <1>5
<1>13. StateOK(d) /\ Follows(d, b)
  <2> HIDE DEF n, l
  <2> QED  BY <1>3, <1>9, <1>10, <1>11, <1>12, Replanned DEF n
<1> QED  BY <1>13 DEF b, p

\* Mark i is removed.
Others(c, a, d, b, i) ==
    /\ \A m \in 1 .. Len(c.marks) :
           m # i => \E l \in 1 .. Len(d.marks) : Kept(c, a, m, d, b, l)
    /\ \A l \in 1 .. Len(d.marks) :
           \E m \in 1 .. Len(c.marks) : m # i /\ Kept(c, a, m, d, b, l)

LEMMA MarkRemoved ==
    ASSUME NEW c, IsSeq(c.marks), NEW a, IsSeq(a.marks),
           Len(a.marks) = Len(c.marks), NEW i \in 1 .. Len(c.marks),
           NEW d, d.marks = RemoveAt(c.marks, i),
           NEW b, b.marks = RemoveAt(a.marks, i)
    PROVE  /\ IsSeq(d.marks) /\ IsSeq(b.marks) /\ Len(b.marks) = Len(d.marks)
           /\ Others(c, a, d, b, i)
<1> DEFINE n == Len(c.marks)
    s == a.marks
<1>1. n \in Nat /\ i \in 1 .. n /\ Len(s) = n /\ IsSeq(s) /\ i \in 1 .. Len(s)
  BY DEF IsSeq
<1>2. /\ IsSeq(d.marks) /\ Len(d.marks) = n - 1
      /\ \A j \in 1 .. n - 1 : d.marks[j] = IF j < i THEN c.marks[j]
                                            ELSE c.marks[j + 1]
  BY RemoveIs
<1> HIDE DEF n, s
<1>3. /\ IsSeq(RemoveAt(s, i)) /\ Len(RemoveAt(s, i)) = n - 1
      /\ \A j \in 1 .. n - 1 : RemoveAt(s, i)[j] = IF j < i THEN s[j]
                                                   ELSE s[j + 1]
  BY <1>1, RemoveIs
<1>4. b.marks = RemoveAt(s, i)
  BY DEF s
<1>5. ASSUME NEW m \in 1 .. n, m # i
      PROVE  \E l \in 1 .. n - 1 : Kept(c, a, m, d, b, l)
  <2>1. CASE m < i
    <3>1. m \in 1 .. n - 1
      BY <1>1, <2>1
    <3>2. Kept(c, a, m, d, b, m)
      BY <1>2, <1>3, <1>4, <2>1, <3>1 DEF Kept, s
    <3> QED  BY <3>1, <3>2
  <2>2. CASE ~(m < i)
    <3>1. m - 1 \in 1 .. n - 1 /\ ~(m - 1 < i) /\ m - 1 + 1 = m
      BY <1>1, <1>5, <2>2
    <3> DEFINE l == m - 1
    <3> HIDE DEF l
    <3>2. Kept(c, a, m, d, b, l)
      BY <1>2, <1>3, <1>4, <3>1 DEF Kept, l, s
    <3> QED  BY <3>1, <3>2 DEF l
  <2> QED  BY <2>1, <2>2
<1>6. ASSUME NEW l \in 1 .. n - 1
      PROVE  \E m \in 1 .. n : m # i /\ Kept(c, a, m, d, b, l)
  <2>1. CASE l < i
    <3>1. l \in 1 .. n /\ l # i
      BY <1>1, <2>1
    <3>2. Kept(c, a, l, d, b, l)
      BY <1>2, <1>3, <1>4, <2>1 DEF Kept, s
    <3> QED  BY <3>1, <3>2
  <2>2. CASE ~(l < i)
    <3>1. l + 1 \in 1 .. n /\ l + 1 # i
      BY <1>1, <2>2
    <3>2. Kept(c, a, l + 1, d, b, l)
      BY <1>2, <1>3, <1>4, <2>2 DEF Kept, s
    <3> QED  BY <3>1, <3>2
  <2> QED  BY <2>1, <2>2
<1>7. Others(c, a, d, b, i)
  BY <1>2, <1>5, <1>6 DEF n, Others
<1> QED  BY <1>2, <1>3, <1>4, <1>7

\* Marks of two kinds or of two functions differ.
LEMMA MarksDiffer ==
    ASSUME NEW j, NEW k
    PROVE  /\ Jumps(j).level = j /\ Label(j).level = j /\ Jumps(j) # Label(k)
           /\ Jumps(j) = Jumps(k) => j = k
<1>1. Jumps(j).level = j /\ Jumps(k).level = k /\ Label(j).level = j
  BY DEF Jumps, Label
<1>2. Jumps(j).is = "jump" /\ Label(k).is = "label"
  BY DEF Jumps, Label
<1> QED  BY <1>1, <1>2

\* A jump back to a label.
LEMMA LoopAdded ==
    ASSUME NEW c, StateOK(c), NEW a, Follows(c, a), NEW i \in 1 .. Len(c.marks),
           a.marks[i] = Label(a.level), NEW f, Stands(c, f), NEW ins,
           ins[2] = c.marks[i], Appends(func(c).code, f.code, ins), NEW marks,
           marks = RemoveAt(c.marks, i), NEW d, Marks(c, d, f, marks)
    PROVE  StateOK(d) /\ Follows(d, At(RemoveAt(a.marks, i), a.level))
<1> DEFINE s == func(c).code
    t == f.code
    n == a.level
    b == At(RemoveAt(a.marks, i), n)
<1>1. /\ IsSeq(s) /\ Len(s) \in Nat /\ n = Len(c.scopes) /\ n \in Nat
      /\ n \in 1 .. n /\ func(c) = c.scopes[n] /\ IsSeq(a.marks)
      /\ Len(a.marks) = Len(c.marks) /\ IsSeq(c.marks)
  BY Lengths
<1>2. /\ IsSeq(t) /\ Len(t) = Len(s) + 1 /\ t[Len(s) + 1] = ins
      /\ \A j \in 1 .. Len(s) : t[j] = s[j]
  <2> HIDE DEF s, t
  <2> QED  BY <1>1, AppendsIs DEF s, t
<1>3. b.marks = RemoveAt(a.marks, i) /\ b.level = n
  BY DEF At
<1> HIDE DEF b
<1>4. d.marks = marks
  BY DEF Marks
<1>5. /\ IsSeq(marks) /\ IsSeq(b.marks) /\ Len(b.marks) = Len(marks)
      /\ Others(c, a, d, b, i)
  BY <1>1, <1>3, <1>4, MarkRemoved
<1>6. d.scopes[n] = f
  BY <1>1, <1>5, MarksAre
<1>7. JumpsStay(c, d)
  <2> HIDE DEF s, t
  <2>1. StaysJump(s, t)
    BY <1>1, <1>2 DEF StaysJump
  <2> QED  BY <1>5, <2>1, SameLevels DEF s, t
<1>8. ASSUME NEW l \in 1 .. Len(marks) PROVE MarkOK(d, b, l)
  <2>1. PICK m \in 1 .. Len(c.marks) : Kept(c, a, m, d, b, l)
    BY <1>4, <1>5 DEF Others
  <2>2. MarkOK(c, a, m)
    BY DEF Follows
  <2> QED  BY <1>1, <1>3, <1>7, <2>1, <2>2, MarkKept
<1>9. ASSUME NEW j \in 1 .. Len(t) PROVE JumpOK(d, b, n, j)
  <2>1. CASE j = Len(s) + 1
    <3>1. MarkOK(c, a, i)
      BY <1>1 DEF Follows
    <3>2. a.marks[i].level = n /\ a.marks[i] # Jumps(n)
      BY MarksDiffer
    <3>3. c.marks[i] \in 1 .. Len(s) + 1
      BY <1>1, <3>1, <3>2 DEF MarkOK
    <3>4. t[j][2] \in 1 .. Len(t) + 1
      <4> HIDE DEF s, t
      <4> QED  BY <1>1, <1>2, <2>1, <3>3
    <3> QED  BY <1>6, <3>4 DEF JumpOK
  <2>2. CASE j # Len(s) + 1
    <3>1. j \in 1 .. Len(s)
      BY <1>1, <1>2, <2>2
    <3>2. JumpOK(c, a, n, j)
      BY <1>1, <3>1 DEF Follows
    <3>3. /\ d.scopes[n].code = t /\ c.scopes[n].code = s /\ t[j] = s[j]
          /\ \A x \in 1 .. Len(s) + 1 : x \in 1 .. Len(t) + 1
      BY <1>1, <1>2, <1>6, <3>1
    <3>4. ASSUME NEW m \in 1 .. Len(c.marks), c.marks[m] = j,
                 a.marks[m] = Jumps(n)
          PROVE  \E l \in 1 .. Len(d.marks) : d.marks[l] = j
                                              /\ b.marks[l] = Jumps(n)
      <4>1. m # i
        BY <3>4, MarksDiffer
      <4>2. PICK l \in 1 .. Len(d.marks) : Kept(c, a, m, d, b, l)
        BY <1>5, <4>1 DEF Others
      <4> QED  BY <3>4, <4>2 DEF Kept
    <3> HIDE DEF s, t
    <3> QED  BY <3>2, <3>3, <3>4 DEF JumpOK
  <2> QED  BY <2>1, <2>2
<1>10. OthersKept(c, a, d, b)
  <2>1. ASSUME NEW m \in 1 .. Len(c.marks), NEW k, a.marks[m] = Jumps(k)
        PROVE  m # i
    BY <2>1, MarksDiffer
  <2> QED  BY <1>5, <2>1 DEF OthersKept, Others
<1>11. b.level = a.level
  BY <1>3
<1>12. StateOK(d) /\ Follows(d, b)
  <2> HIDE DEF n
  <2> QED  BY <1>5, <1>8, <1>9, <1>10, <1>11, Replanned DEF n
<1> QED  BY <1>12 DEF b

\* The jump of mark i gets the next instruction as its target.
LEMMA JumpPatched ==
    ASSUME NEW c, StateOK(c), NEW a, Follows(c, a), NEW i \in 1 .. Len(c.marks),
           a.marks[i] = Jumps(a.level), NEW f, Stands(c, f), NEW ins,
           ins[1] = func(c).code[c.marks[i]][1],
           ins[2] = Len(func(c).code) + 1, IsPair(ins),
           Replaces(func(c).code, f.code, c.marks[i], ins), NEW marks,
           marks = RemoveAt(c.marks, i), NEW d, Marks(c, d, f, marks)
    PROVE  StateOK(d) /\ Follows(d, At(RemoveAt(a.marks, i), a.level))
<1> DEFINE s == func(c).code
    t == f.code
    n == a.level
    x == c.marks[i]
    b == At(RemoveAt(a.marks, i), n)
<1>1. /\ IsSeq(s) /\ Len(s) \in Nat /\ n = Len(c.scopes) /\ n \in Nat
      /\ n \in 1 .. n /\ func(c) = c.scopes[n] /\ IsSeq(a.marks)
      /\ Len(a.marks) = Len(c.marks) /\ IsSeq(c.marks)
  BY Lengths
<1>2. x \in 1 .. Len(s) /\ IsJump(s[x])
  <2>1. MarkOK(c, a, i)
    BY DEF Follows
  <2>2. a.marks[i].level = n /\ \A k : a.marks[i] # Label(k)
    BY MarksDiffer
  <2> QED  BY <1>1, <2>1, <2>2 DEF MarkOK
<1>3. /\ IsSeq(t) /\ Len(t) = Len(s)
      /\ \A j \in 1 .. Len(s) : t[j] = IF j = x THEN ins ELSE s[j]
  <2>1. Replaces(s, t, x, ins) /\ IsSeq(s)
    BY <1>1
  <2> HIDE DEF s, t, x
  <2> QED  BY <2>1, ReplacesIs
<1>4. IsJump(ins) /\ ins[2] = Len(s) + 1 /\ ins = <<ins[1], ins[2]>>
  BY <1>2 DEF IsJump, IsPair
<1>5. b.marks = RemoveAt(a.marks, i) /\ b.level = n
  BY DEF At
<1> HIDE DEF b
<1>6. d.marks = marks
  BY DEF Marks
<1>7. /\ IsSeq(marks) /\ IsSeq(b.marks) /\ Len(b.marks) = Len(marks)
      /\ Others(c, a, d, b, i)
  BY <1>1, <1>5, <1>6, MarkRemoved
<1>8. d.scopes[n] = f
  BY <1>1, <1>7, MarksAre
<1>9. JumpsStay(c, d)
  <2> HIDE DEF s, t, x
  <2>1. ASSUME NEW j \in 1 .. Len(s), IsJump(s[j]), s[j] = <<s[j][1], s[j][2]>>
        PROVE  IsJump(t[j]) /\ t[j] = <<t[j][1], t[j][2]>>
    <3>1. CASE j = x
      BY <1>3, <1>4, <3>1
    <3>2. CASE j # x
      BY <1>3, <2>1, <3>2
    <3> QED  BY <3>1, <3>2
  <2>2. Len(s) \in Nat /\ Len(t) = Len(s)
    BY <1>1, <1>3
  <2>3. StaysJump(s, t)
    BY <2>1, <2>2 DEF StaysJump
  <2> QED  BY <1>7, <2>3, SameLevels DEF s, t
<1>10. ASSUME NEW l \in 1 .. Len(marks) PROVE MarkOK(d, b, l)
  <2>1. PICK m \in 1 .. Len(c.marks) : Kept(c, a, m, d, b, l)
    BY <1>6, <1>7 DEF Others
  <2>2. MarkOK(c, a, m)
    BY DEF Follows
  <2> QED  BY <1>1, <1>5, <1>9, <2>1, <2>2, MarkKept
<1>11. ASSUME NEW j \in 1 .. Len(t) PROVE JumpOK(d, b, n, j)
  <2>1. CASE j = x
    <3>1. t[j][2] \in 1 .. Len(t) + 1
      <4> HIDE DEF s, t, x
      <4>1. t[j] = ins /\ Len(t) + 1 \in 1 .. Len(t) + 1
        BY <1>1, <1>3, <2>1
      <4> QED  BY <1>3, <1>4, <4>1
    <3> QED  BY <1>8, <3>1 DEF JumpOK
  <2>2. CASE j # x
    <3>1. j \in 1 .. Len(s) /\ t[j] = s[j]
      BY <1>3, <2>2
    <3>2. JumpOK(c, a, n, j)
      BY <1>1, <3>1 DEF Follows
    <3>3. d.scopes[n].code = t /\ c.scopes[n].code = s /\ Len(t) = Len(s)
      BY <1>1, <1>3, <1>8
    <3>4. ASSUME NEW m \in 1 .. Len(c.marks), c.marks[m] = j,
                 a.marks[m] = Jumps(n)
          PROVE  \E l \in 1 .. Len(d.marks) : d.marks[l] = j
                                              /\ b.marks[l] = Jumps(n)
      <4>1. m # i
        BY <2>2, <3>4
      <4>2. PICK l \in 1 .. Len(d.marks) : Kept(c, a, m, d, b, l)
        BY <1>7, <4>1 DEF Others
      <4> QED  BY <3>4, <4>2 DEF Kept
    <3> HIDE DEF s, t
    <3> QED  BY <3>1, <3>2, <3>3, <3>4 DEF JumpOK
  <2> QED  BY <2>1, <2>2
<1>12. OthersKept(c, a, d, b)
  <2>1. ASSUME NEW m \in 1 .. Len(c.marks), NEW k, k # n, a.marks[m] = Jumps(k)
        PROVE  m # i
    BY <2>1, MarksDiffer
  <2> QED  BY <1>7, <2>1 DEF OthersKept, Others
<1>13. b.level = a.level
  BY <1>5
<1>14. StateOK(d) /\ Follows(d, b)
  <2> HIDE DEF n
  <2> QED  BY <1>7, <1>10, <1>11, <1>12, <1>13, Replanned DEF n
<1> QED  BY <1>14 DEF b

\* The label of a loop is where the next instruction will be.
LEMMA LabelIs ==
    ASSUME NEW c, StateOK(c), NEW a, Follows(c, a), NEW d,
           d = [c EXCEPT !.marks = Append(@, Size(c) + 1)]
    PROVE  StateOK(d) /\ Follows(d, At(Append(a.marks, Label(a.level)), a.level))
<1> DEFINE g == func(c)
    n == a.level
    l == Len(c.marks)
    y == Len(g.code) + 1
    marks == Append(c.marks, y)
    b == At(Append(a.marks, Label(n)), n)
<1>1. /\ Len(g.code) \in Nat /\ n = Len(c.scopes) /\ n \in 1 .. n
      /\ g = c.scopes[n] /\ IsSeq(a.marks) /\ Len(a.marks) = l /\ IsSeq(c.marks)
      /\ l \in Nat
  BY Innermost DEF Follows, StateOK, IsSeq
<1>2. /\ IsSeq(marks) /\ Len(marks) = l + 1 /\ marks[l + 1] = y
      /\ \A m \in 1 .. l : marks[m] = c.marks[m]
  <2> HIDE DEF l, y
  <2> QED  BY <1>1, AppendIs DEF l
<1>3. /\ IsSeq(b.marks) /\ Len(b.marks) = l + 1 /\ b.marks[l + 1] = Label(n)
      /\ \A m \in 1 .. l : b.marks[m] = a.marks[m]
      /\ b.level = n
  BY <1>1, AppendIs DEF At
<1>4. d = [scopes |-> c.scopes, funs |-> c.funs, cls |-> c.cls, marks |-> marks,
           failed |-> c.failed, looping |-> c.looping]
  <2>1. d = [c EXCEPT !.marks = marks]
    BY DEF Size
  <2> HIDE DEF marks
  <2> QED  BY <2>1, StateRecord DEF StateOK
<1> HIDE DEF marks, b, l, g
<1>5. d.scopes = c.scopes /\ d.marks = marks /\ d.funs = c.funs
  BY <1>4
<1>6. StateOK(d)
  <2>1. \A k \in 1 .. Len(c.scopes) : ScopeOK(c, k) => ScopeOK(d, k)
    BY <1>5 DEF ScopeOK
  <2> QED  BY <1>2, <1>4, <1>5, <2>1 DEF StateOK
<1>7. \A m \in 1 .. l : m \in 1 .. l + 1
  BY <1>1
<1>8. ASSUME NEW m \in 1 .. l + 1 PROVE MarkOK(d, b, m)
  <2>1. CASE m = l + 1
    <3>1. Label(n).level = n /\ y \in 1 .. Len(g.code) + 1
      BY <1>1 DEF Label
    <3> QED  BY <1>1, <1>2, <1>3, <1>5, <2>1, <3>1 DEF MarkOK
  <2>2. CASE m # l + 1
    <3>1. m \in 1 .. l
      BY <1>1, <2>2
    <3>2. MarkOK(c, a, m)
      BY <3>1 DEF Follows, l
    <3> QED  BY <1>2, <1>3, <1>5, <3>1, <3>2 DEF MarkOK
  <2> QED  BY <2>1, <2>2
<1>9. ASSUME NEW k \in 1 .. Len(c.scopes), NEW i \in 1 .. Len(c.scopes[k].code)
      PROVE  JumpOK(d, b, k, i)
  <2>1. JumpOK(c, a, k, i)
    BY DEF Follows
  <2> QED  BY <1>2, <1>3, <1>5, <1>7, <2>1 DEF JumpOK, l
<1>10. Follows(d, b)
  BY <1>1, <1>2, <1>3, <1>5, <1>8, <1>9 DEF Follows
<1> QED  BY <1>6, <1>10 DEF b

-----------------------------------------------------------------------------
(* The list of tasks.                                                      *)

LEMMA LeadsConcat ==
    ASSUME NEW T, NEW s, IsSeq(s), NEW t, IsSeq(t), NEW a, NEW b, NEW c,
           Leads(T, s, a, b), Leads(T, t, b, c)
    PROVE  IsSeq(s \o t) /\ Leads(T, s \o t, a, c)
<1> DEFINE m == Len(s)
    n == Len(t)
    u == s \o t
<1>1. m \in Nat /\ n \in Nat
  BY DEF IsSeq
<1>2. /\ IsSeq(u) /\ Len(u) = m + n
      /\ \A i \in 1 .. m + n : u[i] = IF i <= m THEN s[i] ELSE t[i - m]
  BY ConcatIs
<1>3. PICK e : /\ e[0] = a /\ e[m] = b
               /\ \A i \in 1 .. m : TaskOK(T, s[i], e[i - 1], e[i])
  BY DEF Leads
<1>4. PICK f : /\ f[0] = b /\ f[n] = c
               /\ \A i \in 1 .. n : TaskOK(T, t[i], f[i - 1], f[i])
  BY DEF Leads
<1> DEFINE h == [i \in 0 .. m + n |-> IF i <= m THEN e[i] ELSE f[i - m]]
<1> HIDE DEF u, m, n
<1>5. h[0] = a
  BY <1>1, <1>3
<1>6. h[m + n] = c
  <2>1. CASE n = 0
    <3>1. m + n = m /\ m <= m /\ m \in 0 .. m + n
      BY <1>1, <2>1
    <3>2. h[m + n] = e[m] /\ f[n] = b
      BY <1>4, <2>1, <3>1
    <3> QED  BY <1>3, <1>4, <3>2
  <2>2. CASE n # 0
    <3>1. ~(m + n <= m) /\ m + n - m = n /\ m + n \in 0 .. m + n
      BY <1>1, <2>2
    <3> HIDE DEF h
    <3>2. h[m + n] = f[m + n - m]
      BY <1>1, <3>1 DEF h
    <3> QED  BY <1>4, <3>1, <3>2
  <2> QED  BY <2>1, <2>2
<1>7. ASSUME NEW i \in 1 .. m + n PROVE TaskOK(T, u[i], h[i - 1], h[i])
  <2>1. i \in 0 .. m + n /\ i - 1 \in 0 .. m + n
    BY <1>1
  <2>2. CASE i <= m
    <3>1. i \in 1 .. m /\ i - 1 <= m
      BY <1>1, <2>2
    <3> QED  BY <1>2, <1>3, <2>1, <2>2, <3>1
  <2>3. CASE ~(i <= m)
    <3>1. i - m \in 1 .. n /\ i - m - 1 = i - 1 - m
      BY <1>1, <2>3
    <3>2. h[i] = f[i - m]
      BY <2>1, <2>3
    <3>3. h[i - 1] = f[i - 1 - m]
      <4>1. CASE i - 1 = m
        <5>1. i - 1 - m = 0 /\ i - 1 <= m
          BY <1>1, <4>1
        <5> QED  BY <1>3, <1>4, <2>1, <4>1, <5>1
      <4>2. CASE i - 1 # m
        <5>1. ~(i - 1 <= m)
          BY <1>1, <2>3, <4>2
        <5> QED  BY <2>1, <5>1
      <4> QED  BY <4>1, <4>2
    <3> QED  BY <1>2, <1>4, <2>3, <3>1, <3>2, <3>3
  <2> QED  BY <2>2, <2>3
<1> HIDE DEF h
<1> QED  BY <1>2, <1>5, <1>6, <1>7 DEF Leads, u

LEMMA LeadsTail ==
    ASSUME NEW T, NEW s, IsSeq(s), Len(s) > 0, NEW a, NEW c, Leads(T, s, a, c)
    PROVE  \E b : TaskOK(T, s[1], a, b) /\ Leads(T, Tail(s), b, c)
<1> DEFINE n == Len(s)
    t == Tail(s)
<1>1. n \in Nat /\ n > 0
  BY DEF IsSeq
<1>2. IsSeq(t) /\ Len(t) = n - 1 /\ \A i \in 1 .. n - 1 : t[i] = s[i + 1]
  BY TailIs
<1>3. PICK e : /\ e[0] = a /\ e[n] = c
               /\ \A i \in 1 .. n : TaskOK(T, s[i], e[i - 1], e[i])
  BY DEF Leads
<1> DEFINE h == [i \in 0 .. n - 1 |-> e[i + 1]]
<1> HIDE DEF n, t
<1>4. TaskOK(T, s[1], a, e[1])
  BY <1>1, <1>3
<1>5. h[0] = e[1] /\ h[n - 1] = c
  BY <1>1, <1>3
<1>6. ASSUME NEW i \in 1 .. n - 1 PROVE TaskOK(T, t[i], h[i - 1], h[i])
  <2>1. i + 1 \in 1 .. n /\ i \in 0 .. n - 1 /\ i - 1 \in 0 .. n - 1
        /\ i + 1 - 1 = i /\ i - 1 + 1 = i
    BY <1>1
  <2> QED  BY <1>2, <1>3, <2>1
<1> HIDE DEF h
<1>7. Leads(T, t, e[1], c)
  BY <1>2, <1>5, <1>6 DEF Leads
<1> QED  BY <1>4, <1>7 DEF t

Neutrals(T, s) == IsSeq(s) /\ \A i \in 1 .. Len(s) : Neutral(T, s[i])

LEMMA NeutralsLead ==
    ASSUME NEW T, NEW s, Neutrals(T, s), NEW a
    PROVE  Leads(T, s, a, a)
<1> DEFINE e == [i \in 0 .. Len(s) |-> a]
<1>1. Len(s) \in Nat
  BY DEF Neutrals, IsSeq
<1>2. e[0] = a /\ e[Len(s)] = a
  BY <1>1
<1>3. ASSUME NEW i \in 1 .. Len(s) PROVE TaskOK(T, s[i], e[i - 1], e[i])
  <2>1. e[i - 1] = a /\ e[i] = a
    BY <1>1
  <2> HIDE DEF e
  <2> QED  BY <2>1 DEF TaskOK, Neutrals
<1> HIDE DEF e
<1> QED  BY <1>2, <1>3 DEF Leads

LEMMA NeutralsAre ==
    ASSUME NEW T
    PROVE  /\ Neutrals(T, <<>>)
           /\ \A s, t : Neutrals(T, s) /\ Neutrals(T, t) => Neutrals(T, s \o t)
           /\ \A x : Neutral(T, x) => Neutrals(T, <<x>>)
           /\ \A x, y : Neutral(T, x) /\ Neutral(T, y) => Neutrals(T, <<x, y>>)
           /\ \A x, y, z : Neutral(T, x) /\ Neutral(T, y) /\ Neutral(T, z) =>
                           Neutrals(T, <<x, y, z>>)
           /\ \A s \in Seq(T) : Neutrals(T, s)
<1>1. Neutrals(T, <<>>)
  BY DEF Neutrals, IsSeq
<1>2. ASSUME NEW s, NEW t, Neutrals(T, s), Neutrals(T, t)
      PROVE  Neutrals(T, s \o t)
  <2> DEFINE u == s \o t
  <2>1. Len(s) \in Nat /\ Len(t) \in Nat /\ IsSeq(s) /\ IsSeq(t)
    BY <1>2 DEF Neutrals, IsSeq
  <2>2. /\ IsSeq(u) /\ Len(u) = Len(s) + Len(t)
        /\ \A i \in 1 .. Len(s) + Len(t) : u[i] = IF i <= Len(s) THEN s[i]
                                                  ELSE t[i - Len(s)]
    BY <2>1, ConcatIs
  <2> HIDE DEF u
  <2>3. ASSUME NEW i \in 1 .. Len(u) PROVE Neutral(T, u[i])
    <3>1. CASE i <= Len(s)
      <4>1. i \in 1 .. Len(s)
        BY <2>1, <2>2, <3>1
      <4> QED  BY <1>2, <2>2, <3>1, <4>1 DEF Neutrals
    <3>2. CASE ~(i <= Len(s))
      <4>1. i - Len(s) \in 1 .. Len(t)
        BY <2>1, <2>2, <3>2
      <4> QED  BY <1>2, <2>2, <3>2, <4>1 DEF Neutrals
    <3> QED  BY <3>1, <3>2
  <2> QED  BY <2>2, <2>3 DEF Neutrals, u
<1>3. ASSUME NEW x, Neutral(T, x) PROVE Neutrals(T, <<x>>)
  BY <1>3 DEF Neutrals, IsSeq
<1>4. ASSUME NEW x, NEW y, Neutral(T, x), Neutral(T, y)
      PROVE  Neutrals(T, <<x, y>>)
  BY <1>4 DEF Neutrals, IsSeq
<1>5. ASSUME NEW x, NEW y, NEW z, Neutral(T, x), Neutral(T, y), Neutral(T, z)
      PROVE  Neutrals(T, <<x, y, z>>)
  BY <1>5 DEF Neutrals, IsSeq
<1>6. ASSUME NEW s \in Seq(T) PROVE Neutrals(T, s)
  <2>1. IsSeq(s) /\ \A i \in 1 .. Len(s) : s[i] \in T
    BY SeqOfIs
  <2> QED  BY <2>1 DEF Neutrals, Neutral
<1> QED  BY <1>1, <1>2, <1>3, <1>4, <1>5, <1>6

LEMMA LeadsOne ==
    ASSUME NEW T, NEW t, NEW a, NEW b, TaskOK(T, t, a, b)
    PROVE  IsSeq(<<t>>) /\ Leads(T, <<t>>, a, b)
<1> DEFINE e == [i \in 0 .. 1 |-> IF i = 0 THEN a ELSE b]
<1>1. e[0] = a /\ e[1] = b
  OBVIOUS
<1> HIDE DEF e
<1> QED  BY <1>1 DEF Leads, IsSeq

LEMMA LeadsTwo ==
    ASSUME NEW T, NEW t, NEW u, NEW a, NEW b, NEW c,
           TaskOK(T, t, a, b), TaskOK(T, u, b, c)
    PROVE  IsSeq(<<t, u>>) /\ Leads(T, <<t, u>>, a, c)
<1> DEFINE e == [i \in 0 .. 2 |-> IF i = 0 THEN a ELSE IF i = 1 THEN b ELSE c]
    s == <<t, u>>
<1>1. e[0] = a /\ e[1] = b /\ e[2] = c
  OBVIOUS
<1>2. IsSeq(s) /\ Len(s) = 2 /\ s[1] = t /\ s[2] = u
  BY DEF IsSeq
<1> HIDE DEF e, s
<1>3. ASSUME NEW i \in 1 .. 2 PROVE TaskOK(T, s[i], e[i - 1], e[i])
  <2>1. CASE i = 1
    BY <1>1, <1>2, <2>1
  <2>2. CASE i = 2
    BY <1>1, <1>2, <2>2
  <2> QED  BY <2>1, <2>2
<1>4. Leads(T, s, a, c)
  BY <1>1, <1>2, <1>3 DEF Leads
<1> QED  BY <1>2, <1>4 DEF s

LEMMA LeadsThree ==
    ASSUME NEW T, NEW t, NEW u, NEW v, NEW a, NEW b, NEW c, NEW d,
           TaskOK(T, t, a, b), TaskOK(T, u, b, c), TaskOK(T, v, c, d)
    PROVE  IsSeq(<<t, u, v>>) /\ Leads(T, <<t, u, v>>, a, d)
<1> DEFINE e == [i \in 0 .. 3 |-> IF i = 0 THEN a ELSE IF i = 1 THEN b
                                  ELSE IF i = 2 THEN c ELSE d]
    s == <<t, u, v>>
<1>1. e[0] = a /\ e[1] = b /\ e[2] = c /\ e[3] = d
  OBVIOUS
<1>2. IsSeq(s) /\ Len(s) = 3 /\ s[1] = t /\ s[2] = u /\ s[3] = v
  BY DEF IsSeq
<1> HIDE DEF e, s
<1>3. ASSUME NEW i \in 1 .. 3 PROVE TaskOK(T, s[i], e[i - 1], e[i])
  <2>1. CASE i = 1
    BY <1>1, <1>2, <2>1
  <2>2. CASE i = 2
    BY <1>1, <1>2, <2>2
  <2>3. CASE i = 3
    BY <1>1, <1>2, <2>3
  <2> QED  BY <2>1, <2>2, <2>3
<1>4. Leads(T, s, a, d)
  BY <1>1, <1>2, <1>3 DEF Leads
<1> QED  BY <1>2, <1>4 DEF s

LEMMA LeadsFour ==
    ASSUME NEW T, NEW t, NEW u, NEW v, NEW w, NEW a, NEW b, NEW c, NEW d, NEW z,
           TaskOK(T, t, a, b), TaskOK(T, u, b, c), TaskOK(T, v, c, d),
           TaskOK(T, w, d, z)
    PROVE  IsSeq(<<t, u, v, w>>) /\ Leads(T, <<t, u, v, w>>, a, z)
<1> DEFINE e == [i \in 0 .. 4 |-> IF i = 0 THEN a ELSE IF i = 1 THEN b
                                  ELSE IF i = 2 THEN c ELSE IF i = 3 THEN d
                                  ELSE z]
    s == <<t, u, v, w>>
<1>1. e[0] = a /\ e[1] = b /\ e[2] = c /\ e[3] = d /\ e[4] = z
  OBVIOUS
<1>2. IsSeq(s) /\ Len(s) = 4 /\ s[1] = t /\ s[2] = u /\ s[3] = v /\ s[4] = w
  BY DEF IsSeq
<1> HIDE DEF e, s
<1>3. ASSUME NEW i \in 1 .. 4 PROVE TaskOK(T, s[i], e[i - 1], e[i])
  <2>1. CASE i = 1
    BY <1>1, <1>2, <2>1
  <2>2. CASE i = 2
    BY <1>1, <1>2, <2>2
  <2>3. CASE i = 3
    BY <1>1, <1>2, <2>3
  <2>4. CASE i = 4
    BY <1>1, <1>2, <2>4
  <2> QED  BY <2>1, <2>2, <2>3, <2>4
<1>4. Leads(T, s, a, z)
  BY <1>1, <1>2, <1>3 DEF Leads
<1> QED  BY <1>2, <1>4 DEF s

\* The tasks of an if or a while statement: condition, jump, then or body, ...
LEMMA LeadsSeven ==
    ASSUME NEW T, NEW t1, NEW t2, NEW t3, NEW t4, NEW t5, NEW t6, NEW t7,
           NEW a, NEW b, NEW c, NEW d, NEW f,
           TaskOK(T, t1, a, a), TaskOK(T, t2, a, b), TaskOK(T, t3, b, b),
           TaskOK(T, t4, b, b), TaskOK(T, t5, b, c), TaskOK(T, t6, c, d),
           TaskOK(T, t7, d, f)
    PROVE  /\ IsSeq(<<t1, t2, t3, t4, t5, t6, t7>>)
           /\ Leads(T, <<t1, t2, t3, t4, t5, t6, t7>>, a, f)
<1> DEFINE e == [i \in 0 .. 7 |->
                    IF i \in {0, 1} THEN a ELSE IF i \in {2, 3, 4} THEN b
                    ELSE IF i = 5 THEN c ELSE IF i = 6 THEN d ELSE f]
    s == <<t1, t2, t3, t4, t5, t6, t7>>
<1>1. /\ e[0] = a /\ e[1] = a /\ e[2] = b /\ e[3] = b /\ e[4] = b
      /\ e[5] = c /\ e[6] = d /\ e[7] = f
  OBVIOUS
<1>2. /\ IsSeq(s) /\ Len(s) = 7 /\ s[1] = t1 /\ s[2] = t2 /\ s[3] = t3
      /\ s[4] = t4 /\ s[5] = t5 /\ s[6] = t6 /\ s[7] = t7
  BY DEF IsSeq
<1> HIDE DEF e, s
<1>3. ASSUME NEW i \in 1 .. 7 PROVE TaskOK(T, s[i], e[i - 1], e[i])
  <2>1. CASE i = 1
    BY <1>1, <1>2, <2>1
  <2>2. CASE i = 2
    BY <1>1, <1>2, <2>2
  <2>3. CASE i = 3
    BY <1>1, <1>2, <2>3
  <2>4. CASE i = 4
    BY <1>1, <1>2, <2>4
  <2>5. CASE i = 5
    BY <1>1, <1>2, <2>5
  <2>6. CASE i = 6
    BY <1>1, <1>2, <2>6
  <2>7. CASE i = 7
    BY <1>1, <1>2, <2>7
  <2> QED  BY <2>1, <2>2, <2>3, <2>4, <2>5, <2>6, <2>7
<1>4. Leads(T, s, a, f)
  BY <1>1, <1>2, <1>3 DEF Leads
<1> QED  BY <1>2, <1>4 DEF s

\* The element before the end, or the one before it, is taken out again.
LEMMA AppendedRemoved ==
    ASSUME NEW s, IsSeq(s), NEW x, NEW y
    PROVE  /\ RemoveAt(Append(s, x), Len(s) + 1) = s
           /\ RemoveAt(Append(Append(s, x), y), Len(s) + 1) = Append(s, y)
<1> DEFINE t == Append(s, x)
    v == Append(t, y)
    w == Append(s, y)
    r == RemoveAt(t, Len(s) + 1)
    q == RemoveAt(v, Len(s) + 1)
<1>1. /\ IsSeq(t) /\ Len(t) = Len(s) + 1 /\ t[Len(s) + 1] = x
      /\ \A i \in 1 .. Len(s) : t[i] = s[i]
  BY AppendIs
<1>2. /\ IsSeq(w) /\ Len(w) = Len(s) + 1 /\ w[Len(s) + 1] = y
      /\ \A i \in 1 .. Len(s) : w[i] = s[i]
  BY AppendIs
<1>3. Len(s) \in Nat /\ s = [i \in 1 .. Len(s) |-> s[i]]
      /\ w = [i \in 1 .. Len(w) |-> w[i]]
  BY <1>2 DEF IsSeq
<1> HIDE DEF t, w
<1>4. /\ IsSeq(v) /\ Len(v) = Len(t) + 1 /\ v[Len(t) + 1] = y
      /\ \A i \in 1 .. Len(t) : v[i] = t[i]
  BY <1>1, AppendIs
<1> HIDE DEF v
<1>5. Len(s) + 1 \in 1 .. Len(t) /\ Len(s) + 1 \in 1 .. Len(v)
  BY <1>1, <1>3, <1>4
<1>6. /\ IsSeq(r) /\ Len(r) = Len(t) - 1
      /\ \A j \in 1 .. Len(t) - 1 : r[j] = IF j < Len(s) + 1 THEN t[j] ELSE t[j + 1]
  BY <1>1, <1>5, RemoveIs
<1>7. /\ IsSeq(q) /\ Len(q) = Len(v) - 1
      /\ \A j \in 1 .. Len(v) - 1 : q[j] = IF j < Len(s) + 1 THEN v[j] ELSE v[j + 1]
  BY <1>4, <1>5, RemoveIs
<1> HIDE DEF r, q
<1>8. r = s
  <2>1. Len(r) = Len(s) /\ r = [i \in 1 .. Len(r) |-> r[i]]
    BY <1>1, <1>3, <1>6 DEF IsSeq
  <2>2. \A j \in 1 .. Len(s) : r[j] = s[j]
    BY <1>1, <1>3, <1>6
  <2> QED  BY <1>3, <2>1, <2>2
<1>9. q = w
  <2>1. Len(q) = Len(s) + 1 /\ q = [i \in 1 .. Len(q) |-> q[i]]
    BY <1>1, <1>3, <1>4, <1>7 DEF IsSeq
  <2>2. ASSUME NEW j \in 1 .. Len(s) + 1 PROVE q[j] = w[j]
    <3>1. CASE j < Len(s) + 1
      <4>1. j \in 1 .. Len(s) /\ j \in 1 .. Len(t) /\ j \in 1 .. Len(v) - 1
        BY <1>1, <1>3, <1>4, <3>1
      <4> QED  BY <1>1, <1>2, <1>4, <1>7, <3>1, <4>1
    <3>2. CASE ~(j < Len(s) + 1)
      <4>1. j = Len(s) + 1 /\ j \in 1 .. Len(v) - 1 /\ j + 1 = Len(t) + 1
        BY <1>1, <1>3, <1>4, <3>2
      <4> QED  BY <1>2, <1>4, <1>7, <3>2, <4>1
    <3> QED  BY <3>1, <3>2
  <2> QED  BY <1>2, <1>3, <2>1, <2>2
<1> QED  BY <1>8, <1>9 DEF r, q, t, v, w

WithJump(a) == At(Append(a.marks, Jumps(a.level)), a.level)
WithLabel(a) == At(Append(a.marks, Label(a.level)), a.level)

\* The tasks on the marks that the visitors leave behind.
LEMMA JumpTasks ==
    ASSUME NEW T, NEW a, IsSeq(a.marks), a = At(a.marks, a.level)
    PROVE  /\ \A op \in {"Jump", "ConditionalJump"} :
                  TaskOK(T, AddingJump(op), a, WithJump(a))
           /\ TaskOK(T, PatchingJump(1), WithJump(a), a)
           /\ TaskOK(T, PatchingJump(2), WithJump(WithJump(a)), WithJump(a))
           /\ TaskOK(T, Task("AddLoop"), WithJump(WithLabel(a)), WithJump(a))
<1> DEFINE m == a.marks
    n == Len(a.marks)
    j == Jumps(a.level)
    l == Label(a.level)
    mj == Append(m, j)
    ml == Append(m, l)
    mjj == Append(mj, j)
    mlj == Append(ml, j)
<1>1. n \in Nat
  BY DEF IsSeq
<1>2. IsSeq(mj) /\ Len(mj) = n + 1 /\ mj[n + 1] = j
  BY AppendIs
<1>3. IsSeq(ml) /\ Len(ml) = n + 1 /\ ml[n + 1] = l
  BY AppendIs
<1>4. /\ RemoveAt(mj, n + 1) = m /\ RemoveAt(mjj, n + 1) = mj
      /\ RemoveAt(mlj, n + 1) = mj
  BY AppendedRemoved
<1>5. WithJump(a) = At(mj, a.level) /\ WithLabel(a) = At(ml, a.level)
  BY DEF WithJump, WithLabel
<1> HIDE DEF mj, ml
<1>6. Len(mjj) = n + 2 /\ mjj[n + 1] = j
  BY <1>1, <1>2, AppendIs
<1>7. Len(mlj) = n + 2 /\ mlj[n + 1] = l
  BY <1>1, <1>3, AppendIs
<1>8. /\ WithJump(WithJump(a)) = At(mjj, a.level)
      /\ WithJump(WithLabel(a)) = At(mlj, a.level)
  BY <1>5 DEF WithJump, WithLabel, At
<1> HIDE DEF mjj, mlj, n
<1>9. ASSUME NEW op \in {"Jump", "ConditionalJump"}
      PROVE  TaskOK(T, AddingJump(op), a, WithJump(a))
  BY DEF TaskOK, AddingJump, WithJump
<1>10. TaskOK(T, PatchingJump(1), WithJump(a), a)
  <2> DEFINE b == At(mj, a.level)
  <2>1. b.marks = mj /\ b.level = a.level
    BY DEF At
  <2> HIDE DEF b
  <2>2. 1 \in 1 .. Len(b.marks) /\ Len(b.marks) + 1 - 1 = n + 1
    BY <1>1, <1>2, <2>1
  <2>3. TaskOK(T, PatchingJump(1), b, a)
    BY <1>2, <1>4, <2>1, <2>2 DEF TaskOK, PatchingJump
  <2> QED  BY <1>5, <2>3 DEF b
<1>11. TaskOK(T, PatchingJump(2), WithJump(WithJump(a)), WithJump(a))
  <2> DEFINE b == At(mjj, a.level)
  <2>1. b.marks = mjj /\ b.level = a.level
    BY DEF At
  <2> HIDE DEF b
  <2>2. 2 \in 1 .. Len(b.marks) /\ Len(b.marks) + 1 - 2 = n + 1
    BY <1>1, <1>6, <2>1
  <2>3. TaskOK(T, PatchingJump(2), b, At(mj, a.level))
    BY <1>4, <1>6, <2>1, <2>2 DEF TaskOK, PatchingJump
  <2> QED  BY <1>5, <1>8, <2>3 DEF b
<1>12. TaskOK(T, Task("AddLoop"), WithJump(WithLabel(a)), WithJump(a))
  <2> DEFINE b == At(mlj, a.level)
  <2>1. b.marks = mlj /\ b.level = a.level
    BY DEF At
  <2> HIDE DEF b
  <2>2. Len(b.marks) > 1 /\ Len(b.marks) - 1 = n + 1
    BY <1>1, <1>7, <2>1
  <2>3. TaskOK(T, Task("AddLoop"), b, At(mj, a.level))
    BY <1>4, <1>7, <2>1, <2>2 DEF TaskOK, Task
  <2> QED  BY <1>5, <1>8, <2>3 DEF b
<1> QED  BY <1>9, <1>10, <1>11, <1>12

-----------------------------------------------------------------------------
(* The invariant.                                                          *)

OnPlan(c, a) == a = At(a.marks, a.level) /\ Follows(c, a)

Sound(T) ==
    /\ StateOK(cs) /\ IsSeq(todo)
    /\ \E a : OnPlan(cs, a) /\ Leads(T, todo, a, End)
    /\ Len(todo) > 0 => todo[Len(todo)] = Adding(<<"Return">>)
    /\ Len(todo) = 0 => Complete(func(cs).code) /\ Len(func(cs).code) > 0

\* The first task gives way to others that lead to where it would have led.
LEMMA Progress ==
    ASSUME NEW T, Sound(T), Len(todo) > 0,
           Head(todo).is # "Add" \/ Len(todo) > 1,
           NEW d, StateOK(d), NEW tasks, IsSeq(tasks), Do(d, tasks),
           \A a, b : OnPlan(cs, a) /\ TaskOK(T, Head(todo), a, b) =>
                     \E x : OnPlan(d, x) /\ Leads(T, tasks, x, b)
    PROVE  Sound(T)'
<1> DEFINE n == Len(todo)
    t == Tail(todo)
    k == Len(tasks)
<1>1. n \in Nat /\ n > 0 /\ IsSeq(todo) /\ Head(todo) = todo[1] /\ k \in Nat
  BY DEF Sound, IsSeq
<1>2. IsSeq(t) /\ Len(t) = n - 1 /\ \A i \in 1 .. n - 1 : t[i] = todo[i + 1]
  BY <1>1, TailIs
<1>3. PICK a : OnPlan(cs, a) /\ Leads(T, todo, a, End)
  BY DEF Sound
<1>4. PICK b : TaskOK(T, todo[1], a, b) /\ Leads(T, t, b, End)
  BY <1>1, <1>3, LeadsTail
<1>5. PICK x : OnPlan(d, x) /\ Leads(T, tasks, x, b)
  BY <1>1, <1>3, <1>4
<1>6. cs' = d /\ todo' = tasks \o t
  BY DEF Do
<1> HIDE DEF t
<1>7. IsSeq(todo') /\ Leads(T, todo', x, End)
  BY <1>2, <1>4, <1>5, <1>6, LeadsConcat
<1>8. n > 1
  <2>1. n = 1 => todo[1] = Adding(<<"Return">>)
    BY <1>1 DEF Sound
  <2>2. Head(todo).is # "Add" => n # 1
    BY <1>1, <2>1 DEF Adding
  <2> QED  BY <1>1, <2>2
<1>9. Len(todo') > 0 /\ todo'[Len(todo')] = Adding(<<"Return">>)
  <2>1. /\ Len(tasks \o t) = k + Len(t)
        /\ \A i \in 1 .. Len(t) : (tasks \o t)[k + i] = t[i]
    <3>1. IsSeq(tasks) /\ IsSeq(t)
      BY <1>2
    <3> QED  BY <3>1, ConcatIs
  <2>2. n - 1 \in 1 .. Len(t) /\ n - 1 + 1 = n /\ Len(t) = n - 1
    BY <1>1, <1>2, <1>8
  <2>3. t[n - 1] = todo[n]
    BY <1>2, <2>2
  <2>4. todo[n] = Adding(<<"Return">>)
    BY <1>1 DEF Sound
  <2> HIDE DEF k, n
  <2> QED  BY <1>1, <1>6, <1>8, <2>1, <2>2, <2>3, <2>4
<1>10. \E y : OnPlan(cs', y) /\ Leads(T, todo', y, End)
  BY <1>5, <1>6, <1>7
<1> QED  BY <1>6, <1>7, <1>9, <1>10 DEF Sound

\* A visitor of a tree, or a task that is neutral, has only neutral tasks.
LEMMA NeutralStep ==
    ASSUME NEW T, Sound(T), Len(todo) > 0,
           Head(todo).is # "Add" \/ Len(todo) > 1,
           \A a, b : TaskOK(T, Head(todo), a, b) => b = a,
           NEW d, Evolves(cs, d), NEW tasks, Neutrals(T, tasks), Do(d, tasks)
    PROVE  Sound(T)'
<1>1. StateOK(cs) /\ StateOK(d) /\ IsSeq(tasks)
  BY DEF Sound, Evolves, Neutrals
<1>2. ASSUME NEW a, NEW b, OnPlan(cs, a), TaskOK(T, Head(todo), a, b)
      PROVE  \E x : OnPlan(d, x) /\ Leads(T, tasks, x, b)
  <2>1. b = a /\ Leads(T, tasks, a, a)
    BY <1>2, NeutralsLead
  <2>2. OnPlan(d, a)
    BY <1>1, <1>2, FollowsKept DEF OnPlan
  <2> QED  BY <2>1, <2>2
<1> QED  BY <1>1, <1>2, Progress

LEMMA Heads ==
    ASSUME NEW kind, Visiting(kind), IsSeq(todo)
    PROVE  Len(todo) > 0 /\ Head(todo).is = kind
<1>1. Len(todo) # 0
  <2> SUFFICES ASSUME Len(todo) = 0 PROVE FALSE
    OBVIOUS
  <2>1. todo \in Seq({todo[i] : i \in 1 .. Len(todo)})
    BY SeqIs
  <2>2. todo = <<>>
    BY <2>1, EmptySeq
  <2> QED  BY <2>2 DEF Visiting
<1> QED  BY <1>1 DEF Visiting, IsSeq

\* What is known of the node that a visitor is at.
LEMMA VisitedTree ==
    ASSUME NEW T, AreTrees(T), Sound(T), NEW kind \in TreeKinds, Visiting(kind)
    PROVE  /\ Len(todo) > 0 /\ Head(todo).is = kind /\ Head(todo).is # "Add"
           /\ Node \in T /\ NodeOK(T, Node)
           /\ \A a, b : TaskOK(T, Head(todo), a, b) => b = a
<1> DEFINE t == Head(todo)
<1>1. Len(todo) > 0 /\ t.is = kind /\ IsSeq(todo) /\ t = todo[1] /\ Node = t
  BY Heads DEF Sound, Node
<1>2. /\ kind \notin {"Add", "Assigned", "EndBlock", "EndClass", "Define",
                      "Method", "AddJump", "PatchJump", "AddLoop", "EndFunction"}
  BY DEF TreeKinds
<1>3. \A a, b : TaskOK(T, t, a, b) => t \in T /\ b = a
  BY <1>1, <1>2 DEF TaskOK, Neutral
<1>4. \E a, b : TaskOK(T, t, a, b)
  BY <1>1, LeadsTail DEF Sound
<1>5. t \in T
  BY <1>3, <1>4
<1> QED  BY <1>1, <1>2, <1>3, <1>5 DEF AreTrees

LEMMA NeutralTask ==
    ASSUME NEW T, AreTrees(T), Sound(T),
           NEW kind \in {"Assigned", "EndBlock", "EndClass", "Define", "Method"},
           Visiting(kind)
    PROVE  /\ Len(todo) > 0 /\ Head(todo).is = kind /\ Head(todo).is # "Add"
           /\ kind = "Method" => Node.fn \in T /\ IsFunction(Node.fn)
           /\ \A a, b : TaskOK(T, Head(todo), a, b) => b = a
<1> DEFINE t == Head(todo)
<1>1. Len(todo) > 0 /\ t.is = kind /\ IsSeq(todo) /\ t = todo[1] /\ Node = t
  BY Heads DEF Sound, Node
<1>2. t \notin T
  <2>1. kind \notin TreeKinds
    BY DEF TreeKinds
  <2> QED  BY <1>1, <2>1 DEF AreTrees, NodeOK
<1>3. \A a, b : TaskOK(T, t, a, b) =>
                /\ b = a
                /\ kind = "Method" => t.fn \in T /\ IsFunction(t.fn)
  BY <1>1, <1>2 DEF TaskOK, Neutral
<1>4. \E a, b : TaskOK(T, t, a, b)
  BY <1>1, LeadsTail DEF Sound
<1>5. kind # "Add"
  OBVIOUS
<1> QED  BY <1>1, <1>3, <1>4, <1>5

-----------------------------------------------------------------------------
(* The steps.                                                              *)

LEMMA Adds ==
    ASSUME NEW T
    PROVE  /\ \A ins : PlainIns(ins) => Neutral(T, Adding(ins))
           /\ \A t \in T : Neutral(T, t)
BY DEF Neutral, Adding

LEMMA Expressions ==
    ASSUME NEW T, AreTrees(T), Sound(T),
           \/ VisitLiteral \/ VisitVariable \/ VisitAssign \/ Assigned
           \/ VisitGrouping \/ VisitUnary \/ VisitBinary \/ VisitCall \/ VisitGet
           \/ VisitSet \/ VisitThis \/ VisitSuper
    PROVE  Sound(T)'
<1>1. StateOK(cs) /\ Evolves(cs, cs)
  BY FailedIs DEF Sound
<1>2. Neutrals(T, <<>>)
  BY NeutralsAre
<1>3. CASE VisitLiteral
  <2> DEFINE ins == <<"Literal", Node.value>>
  <2>1. Visiting("Literal") /\ Do(Emit(cs, ins), <<>>) /\ "Literal" \in TreeKinds
    BY <1>3 DEF VisitLiteral, TreeKinds
  <2>2. PlainIns(ins)
    <3>1. NodeOK(T, Node) /\ Node.is = "Literal"
      BY <2>1, VisitedTree DEF Node
    <3> QED  BY <3>1 DEF NodeOK, PlainIns, IsJump
  <2> HIDE DEF ins
  <2>3. Evolves(cs, Emit(cs, ins))
    BY <1>1, <2>2, PlainIs
  <2> QED  BY <1>2, <2>1, <2>3, VisitedTree, NeutralStep
<1>4. CASE VisitVariable
  <2>1. Visiting("Variable") /\ Do(Reference(cs, Node.name, FALSE), <<>>)
        /\ "Variable" \in TreeKinds
    BY <1>4 DEF VisitVariable, TreeKinds
  <2>2. Evolves(cs, Reference(cs, Node.name, FALSE))
    BY <1>1, ReferenceIs
  <2> QED  BY <1>2, <2>1, <2>2, VisitedTree, NeutralStep
<1>5. CASE VisitAssign
  <2> DEFINE t == [is |-> "Assigned", name |-> Node.name]
  <2>1. Visiting("Assign") /\ Do(cs, <<Node.value, t>>) /\ "Assign" \in TreeKinds
    BY <1>5 DEF VisitAssign, TreeKinds
  <2>2. Node.value \in T
    BY <2>1, VisitedTree DEF NodeOK, Node
  <2>3. Neutral(T, Node.value) /\ Neutral(T, t)
    BY <2>2 DEF Neutral
  <2> HIDE DEF t
  <2>4. Neutrals(T, <<Node.value, t>>)
    BY <2>3, NeutralsAre
  <2> QED  BY <1>1, <2>1, <2>4, VisitedTree, NeutralStep
<1>6. CASE Assigned
  <2>1. Visiting("Assigned") /\ Do(Reference(cs, Node.name, TRUE), <<>>)
    BY <1>6 DEF Assigned
  <2>2. Evolves(cs, Reference(cs, Node.name, TRUE))
    BY <1>1, ReferenceIs
  <2> QED  BY <1>2, <2>1, <2>2, NeutralTask, NeutralStep
<1>7. CASE VisitGrouping
  <2>1. Visiting("Grouping") /\ Do(cs, <<Node.expression>>)
        /\ "Grouping" \in TreeKinds
    BY <1>7 DEF VisitGrouping, TreeKinds
  <2>2. Neutrals(T, <<Node.expression>>)
    <3>1. Node.expression \in T
      BY <2>1, VisitedTree DEF NodeOK, Node
    <3> QED  BY <3>1, Adds, NeutralsAre
  <2> QED  BY <1>1, <2>1, <2>2, VisitedTree, NeutralStep
<1>8. CASE VisitUnary
  <2> DEFINE ins == IF Node.op = "Bang" THEN <<"Not">> ELSE <<"Negate">>
  <2>1. Visiting("Unary") /\ Do(cs, <<Node.right, Adding(ins)>>)
        /\ "Unary" \in TreeKinds
    BY <1>8 DEF VisitUnary, TreeKinds
  <2>2. PlainIns(ins)
    BY DEF PlainIns, IsJump
  <2> HIDE DEF ins
  <2>3. Neutrals(T, <<Node.right, Adding(ins)>>)
    <3>1. Node.right \in T
      BY <2>1, VisitedTree DEF NodeOK, Node
    <3> QED  BY <2>2, <3>1, Adds, NeutralsAre
  <2> QED  BY <1>1, <2>1, <2>3, VisitedTree, NeutralStep
<1>9. CASE VisitBinary
  <2> DEFINE ins == <<Opcode(Node.op)>>
      negated == Node.op \in {"LessEqual", "GreaterEqual", "BangEqual"}
      end == IF negated THEN <<Adding(<<"Not">>)>> ELSE <<>>
      begin == <<Node.left, Node.right, Adding(ins)>>
  <2>1. Visiting("Binary") /\ Do(cs, begin \o end) /\ "Binary" \in TreeKinds
    BY <1>9 DEF VisitBinary, TreeKinds
  <2>2. Node.left \in T /\ Node.right \in T
    BY <2>1, VisitedTree DEF NodeOK, Node
  <2>3. PlainIns(ins) /\ PlainIns(<<"Not">>)
    <3>1. Node.op \in BinaryOps
      BY <2>1, VisitedTree DEF NodeOK, Node
    <3> QED  BY <3>1 DEF PlainIns, IsJump, Opcode, BinaryOps
  <2>4. Neutrals(T, begin)
    <3> HIDE DEF ins
    <3> QED  BY <2>2, <2>3, Adds, NeutralsAre
  <2>5. Neutrals(T, end)
    BY <2>3, Adds, NeutralsAre
  <2> HIDE DEF begin, end
  <2>6. Neutrals(T, begin \o end)
    BY <2>4, <2>5, NeutralsAre
  <2> QED  BY <1>1, <2>1, <2>6, VisitedTree, NeutralStep
<1>10. CASE VisitCall
  <2> DEFINE args == Node.arguments
      n == Len(args)
      invoke == <<"Invoke", Node.callee.name, n>>
      call == <<"Call", n>>
      c == IF n > ByteSize - 1 THEN Failed(cs) ELSE cs
  <2>1. /\ Visiting("Call") /\ "Call" \in TreeKinds
        /\ IF Node.callee.is = "Get"
           THEN Do(c, <<Node.callee.object>> \o args \o <<Adding(invoke)>>)
           ELSE Do(c, <<Node.callee>> \o args \o <<Adding(call)>>)
    BY <1>10 DEF VisitCall, TreeKinds
  <2>2. Evolves(cs, c)
    BY <1>1, FailedIs
  <2>3. NodeOK(T, Node) /\ Node.is = "Call"
    BY <2>1, VisitedTree DEF Node
  <2>4. /\ args \in Seq(T)
        /\ IF Node.callee.is = "Get" THEN Node.callee.object \in T
           ELSE Node.callee \in T
    BY <2>3 DEF NodeOK
  <2>5. n \in Nat /\ Neutrals(T, args)
    BY <2>4, NeutralsAre, LenProperties
  <2>6. PlainIns(invoke) /\ PlainIns(call)
    BY <2>5 DEF PlainIns, IsJump
  <2> HIDE DEF args, invoke, call, n, c
  <2>7. Neutrals(T, <<Adding(invoke)>>) /\ Neutrals(T, <<Adding(call)>>)
    BY <2>6, Adds, NeutralsAre
  <2>8. CASE Node.callee.is = "Get"
    <3> DEFINE o == Node.callee.object
    <3>1. Neutral(T, o)
      BY <2>4, <2>8, Adds
    <3> HIDE DEF o
    <3>2. Neutrals(T, <<o>>)
      BY <3>1, NeutralsAre
    <3>3. Neutrals(T, <<o>> \o args)
      BY <2>5, <3>2, NeutralsAre
    <3>4. Neutrals(T, <<o>> \o args \o <<Adding(invoke)>>)
      BY <2>7, <3>3, NeutralsAre
    <3>5. Do(c, <<o>> \o args \o <<Adding(invoke)>>)
      BY <2>1, <2>8 DEF o
    <3> QED  BY <1>2, <2>1, <2>2, <3>4, <3>5, VisitedTree, NeutralStep
  <2>9. CASE Node.callee.is # "Get"
    <3> DEFINE o == Node.callee
    <3>1. Neutral(T, o)
      BY <2>4, <2>9, Adds
    <3> HIDE DEF o
    <3>2. Neutrals(T, <<o>>)
      BY <3>1, NeutralsAre
    <3>3. Neutrals(T, <<o>> \o args)
      BY <2>5, <3>2, NeutralsAre
    <3>4. Neutrals(T, <<o>> \o args \o <<Adding(call)>>)
      BY <2>7, <3>3, NeutralsAre
    <3>5. Do(c, <<o>> \o args \o <<Adding(call)>>)
      BY <2>1, <2>9 DEF o
    <3> QED  BY <1>2, <2>1, <2>2, <3>4, <3>5, VisitedTree, NeutralStep
  <2> QED  BY <2>8, <2>9
<1>11. CASE VisitGet
  <2> DEFINE ins == <<"GetProperty", Node.name>>
  <2>1. Visiting("Get") /\ Do(cs, <<Node.object, Adding(ins)>>)
        /\ "Get" \in TreeKinds
    BY <1>11 DEF VisitGet, TreeKinds
  <2>2. PlainIns(ins)
    BY DEF PlainIns, IsJump
  <2> HIDE DEF ins
  <2>3. Neutrals(T, <<Node.object, Adding(ins)>>)
    <3>1. Node.object \in T
      BY <2>1, VisitedTree DEF NodeOK, Node
    <3> QED  BY <2>2, <3>1, Adds, NeutralsAre
  <2> QED  BY <1>1, <2>1, <2>3, VisitedTree, NeutralStep
<1>12. CASE VisitSet
  <2> DEFINE ins == <<"SetProperty", Node.name>>
  <2>1. Visiting("Set") /\ Do(cs, <<Node.object, Node.value, Adding(ins)>>)
        /\ "Set" \in TreeKinds
    BY <1>12 DEF VisitSet, TreeKinds
  <2>2. PlainIns(ins)
    BY DEF PlainIns, IsJump
  <2> HIDE DEF ins
  <2>3. Neutrals(T, <<Node.object, Node.value, Adding(ins)>>)
    <3>1. Node.object \in T /\ Node.value \in T
      BY <2>1, VisitedTree DEF NodeOK, Node
    <3> QED  BY <2>2, <3>1, Adds, NeutralsAre
  <2> QED  BY <1>1, <2>1, <2>3, VisitedTree, NeutralStep
<1>13. CASE VisitThis
  <2> DEFINE c == IF cs.cls = "None" THEN Failed(cs) ELSE cs
      d == Reference(c, "this", FALSE)
  <2>1. Visiting("This") /\ Do(d, <<>>) /\ "This" \in TreeKinds
    BY <1>13 DEF VisitThis, TreeKinds
  <2>2. Evolves(cs, c) /\ StateOK(c)
    BY <1>1, FailedIs DEF Evolves
  <2> HIDE DEF c
  <2>3. Evolves(c, d)
    BY <2>2, ReferenceIs
  <2> HIDE DEF d
  <2>4. Evolves(cs, d)
    BY <1>1, <2>2, <2>3, EvolvesTrans
  <2> QED  BY <1>2, <2>1, <2>4, VisitedTree, NeutralStep
<1>14. CASE VisitSuper
  <2> DEFINE c == IF cs.cls = "Subclass" THEN cs ELSE Failed(cs)
      d == Reference(c, "this", FALSE)
      e == Reference(d, "super", FALSE)
      ins == <<"GetSuperFunc", Node.method>>
      f == Emit(e, ins)
  <2>1. Visiting("Super") /\ Do(f, <<>>) /\ "Super" \in TreeKinds
    BY <1>14 DEF VisitSuper, TreeKinds
  <2>2. Evolves(cs, c) /\ StateOK(c)
    BY <1>1, FailedIs DEF Evolves
  <2> HIDE DEF c
  <2>3. Evolves(c, d) /\ StateOK(d)
    BY <2>2, ReferenceIs DEF Evolves
  <2> HIDE DEF d
  <2>4. Evolves(d, e) /\ StateOK(e)
    BY <2>3, ReferenceIs DEF Evolves
  <2> HIDE DEF e
  <2>5. PlainIns(ins)
    BY DEF PlainIns, IsJump
  <2> HIDE DEF ins
  <2>6. Evolves(e, f)
    BY <2>4, <2>5, PlainIs
  <2> HIDE DEF f
  <2>7. Evolves(cs, d)
    BY <1>1, <2>2, <2>3, EvolvesTrans
  <2>8. Evolves(cs, e)
    BY <1>1, <2>4, <2>7, EvolvesTrans
  <2>9. Evolves(cs, f)
    BY <1>1, <2>6, <2>8, EvolvesTrans
  <2> QED  BY <1>2, <2>1, <2>9, VisitedTree, NeutralStep
<1> QED  BY <1>3, <1>4, <1>5, <1>6, <1>7, <1>8, <1>9, <1>10, <1>11, <1>12, <1>13,
            <1>14

LEMMA ClsIs ==
    ASSUME NEW c, StateOK(c), NEW x
    PROVE  Evolves(c, [c EXCEPT !.cls = x])
<1> DEFINE d == [c EXCEPT !.cls = x]
<1>1. d = [scopes |-> c.scopes, funs |-> c.funs, cls |-> x,
           marks |-> c.marks, failed |-> c.failed, looping |-> c.looping]
  BY StateRecord DEF StateOK
<1> HIDE DEF d
<1>2. Evolves(c, d)
  BY <1>1, Settled
<1> QED  BY <1>2 DEF d

\* The tasks of a class: its methods and its end.
LEMMA MethodsNeutral ==
    ASSUME NEW T, NEW methods \in Seq({m \in T : IsFunction(m)}), NEW end,
           end.is = "EndClass", NEW tasks,
           tasks = [i \in DOMAIN methods |-> [is |-> "Method", fn |-> methods[i]]]
    PROVE  Neutrals(T, tasks \o <<end>>)
<1>1. Len(methods) \in Nat /\ DOMAIN methods = 1 .. Len(methods)
      /\ \A i \in 1 .. Len(methods) : methods[i] \in {m \in T : IsFunction(m)}
  BY LenProperties
<1>2. /\ tasks = [i \in 1 .. Len(methods) |-> tasks[i]]
      /\ \A i \in 1 .. Len(methods) :
             tasks[i] = [is |-> "Method", fn |-> methods[i]]
  BY <1>1
<1>3. IsSeq(tasks) /\ Len(tasks) = Len(methods)
  BY <1>1, <1>2, FunctionIsSeq
<1>4. ASSUME NEW i \in 1 .. Len(methods) PROVE Neutral(T, tasks[i])
  <2>1. tasks[i].is = "Method" /\ tasks[i].fn = methods[i]
    BY <1>2
  <2> QED  BY <1>1, <2>1 DEF Neutral
<1>5. Neutrals(T, tasks)
  BY <1>3, <1>4 DEF Neutrals
<1>6. Neutrals(T, <<end>>)
  <2>1. Neutral(T, end)
    BY DEF Neutral
  <2> QED  BY <2>1, NeutralsAre
<1> QED  BY <1>5, <1>6, NeutralsAre

LEMMA ClassSteps ==
    ASSUME NEW T, AreTrees(T), Sound(T), VisitClass \/ EndClass
    PROVE  Sound(T)'
<1>1. StateOK(cs) /\ Evolves(cs, cs)
  BY FailedIs DEF Sound
<1>2. Neutrals(T, <<>>)
  BY NeutralsAre
<1>3. CASE VisitClass
  <2> DEFINE sub == Node.superclass # Absent
      type == IF Node.superclass = Absent THEN "Superclass" ELSE "Subclass"
      named == [cs EXCEPT !.cls = type]
      end == [is |-> "EndClass", name |-> Node.name, sub |-> sub, cls |-> cs.cls]
      methods == Node.methods
      bodies == [i \in DOMAIN methods |-> [is |-> "Method", fn |-> methods[i]]]
      rest == bodies \o <<end>>
      create == <<"CreateClass", Node.name>>
      inherit == <<"CreateSubclass", Node.name>>
      begun == BeginScope(named)
      super == AddLocal(begun, "super")
  <2>1. /\ Visiting("Class") /\ "Class" \in TreeKinds
        /\ IF sub THEN Do(super, <<Node.superclass, Adding(inherit)>> \o rest)
           ELSE Do(named, <<Adding(create)>> \o rest)
    BY <1>3 DEF VisitClass, OpenSuper, TreeKinds
  <2>2. /\ methods \in Seq({m \in T : IsFunction(m)})
        /\ sub => Node.superclass \in T
    BY <2>1, VisitedTree DEF NodeOK, Node
  <2>3. end.is = "EndClass"
    OBVIOUS
  <2> HIDE DEF methods, end
  <2>4. Neutrals(T, rest)
    BY <2>2, <2>3, MethodsNeutral
  <2>5. PlainIns(create) /\ PlainIns(inherit)
    BY DEF PlainIns, IsJump
  <2>6. Evolves(cs, named) /\ StateOK(named)
    BY <1>1, ClsIs DEF Evolves
  <2> HIDE DEF named, create, inherit, rest
  <2>7. Evolves(named, begun) /\ StateOK(begun)
    BY <2>6, BeginScopeIs DEF Evolves
  <2> HIDE DEF begun
  <2>8. Evolves(begun, super)
    BY <2>7, AddLocalIs
  <2> HIDE DEF super
  <2>9. Evolves(cs, begun)
    BY <1>1, <2>6, <2>7, EvolvesTrans
  <2>10. Evolves(cs, super)
    BY <1>1, <2>8, <2>9, EvolvesTrans
  <2>11. Neutrals(T, <<Adding(create)>> \o rest)
    <3>1. Neutrals(T, <<Adding(create)>>)
      BY <2>5, Adds, NeutralsAre
    <3> QED  BY <2>4, <3>1, NeutralsAre
  <2>12. sub => Neutrals(T, <<Node.superclass, Adding(inherit)>> \o rest)
    <3> DEFINE x == Node.superclass
    <3> SUFFICES ASSUME x \in T
                 PROVE  Neutrals(T, <<x, Adding(inherit)>> \o rest)
      BY <2>2
    <3> HIDE DEF x
    <3>1. Neutrals(T, <<x, Adding(inherit)>>)
      BY <2>5, Adds, NeutralsAre
    <3> QED  BY <2>4, <3>1, NeutralsAre
  <2> QED  BY <2>1, <2>6, <2>10, <2>11, <2>12, VisitedTree, NeutralStep
<1>4. CASE EndClass
  <2> DEFINE c == IF Node.sub THEN EndScope(cs) ELSE cs
      g == EmitDefineGlobal(c, Node.name)
      d == [g EXCEPT !.cls = Node.cls]
  <2>1. Visiting("EndClass") /\ Do(d, <<>>)
    BY <1>4 DEF EndClass
  <2>2. Evolves(cs, c) /\ StateOK(c)
    BY <1>1, EndScopeIs DEF Evolves
  <2> HIDE DEF c
  <2>3. Evolves(c, g) /\ StateOK(g)
    BY <2>2, DefineGlobalIs DEF Evolves
  <2> HIDE DEF g
  <2>4. Evolves(g, d)
    BY <2>3, ClsIs
  <2> HIDE DEF d
  <2>5. Evolves(cs, g)
    BY <1>1, <2>2, <2>3, EvolvesTrans
  <2>6. Evolves(cs, d)
    BY <1>1, <2>4, <2>5, EvolvesTrans
  <2> QED  BY <1>2, <2>1, <2>6, NeutralTask, NeutralStep
<1> QED  BY <1>3, <1>4

LEMMA Statements ==
    ASSUME NEW T, AreTrees(T), Sound(T),
           \/ VisitBlock \/ EndBlock \/ VisitVar \/ DefineVariable
           \/ VisitExpression \/ VisitPrint \/ VisitReturn
    PROVE  Sound(T)'
<1>1. StateOK(cs) /\ Evolves(cs, cs)
  BY FailedIs DEF Sound
<1>2. Neutrals(T, <<>>)
  BY NeutralsAre
<1>3. PlainIns(<<"Literal", Nil>>) /\ PlainIns(<<"Return">>) /\ PlainIns(<<"Pop">>)
      /\ PlainIns(<<"Print">>)
  BY DEF PlainIns, IsJump, Nil, Is
<1>4. CASE VisitBlock
  <2> DEFINE s == Node.statements
      t == Task("EndBlock")
  <2>1. Visiting("Block") /\ Do(BeginScope(cs), s \o <<t>>)
        /\ "Block" \in TreeKinds
    BY <1>4 DEF VisitBlock, TreeKinds
  <2>2. s \in Seq(T)
    BY <2>1, VisitedTree DEF NodeOK, Node
  <2>3. Neutral(T, t)
    BY DEF Neutral, Task
  <2> HIDE DEF s, t
  <2>4. Neutrals(T, s) /\ Neutrals(T, <<t>>)
    BY <2>2, <2>3, NeutralsAre
  <2>5. Neutrals(T, s \o <<t>>)
    BY <2>4, NeutralsAre
  <2>6. Evolves(cs, BeginScope(cs))
    BY <1>1, BeginScopeIs
  <2> QED  BY <2>1, <2>5, <2>6, VisitedTree, NeutralStep
<1>5. CASE EndBlock
  <2>1. Visiting("EndBlock") /\ Do(EndScope(cs), <<>>)
    BY <1>5 DEF EndBlock
  <2>2. Evolves(cs, EndScope(cs))
    BY <1>1, EndScopeIs
  <2> QED  BY <1>2, <2>1, <2>2, NeutralTask, NeutralStep
<1>6. CASE VisitVar
  <2> DEFINE x == IF Node.initialiser = Absent THEN Adding(<<"Literal", Nil>>)
                  ELSE Node.initialiser
      t == [is |-> "Define", name |-> Node.name]
  <2>1. Visiting("Var") /\ Do(Declare(cs, Node.name), <<x, t>>)
        /\ "Var" \in TreeKinds
    BY <1>6 DEF VisitVar, TreeKinds
  <2>2. Node.initialiser = Absent \/ Node.initialiser \in T
    BY <2>1, VisitedTree DEF NodeOK, Node
  <2>3. Neutral(T, x) /\ Neutral(T, t)
    <3>1. Neutral(T, x)
      BY <1>3, <2>2, Adds
    <3> QED  BY <3>1 DEF Neutral
  <2> HIDE DEF x, t
  <2>4. Neutrals(T, <<x, t>>)
    BY <2>3, NeutralsAre
  <2>5. Evolves(cs, Declare(cs, Node.name))
    BY <1>1, DeclareIs
  <2> QED  BY <2>1, <2>4, <2>5, VisitedTree, NeutralStep
<1>7. CASE DefineVariable
  <2>1. Visiting("Define") /\ Do(Define(cs, Node.name), <<>>)
    BY <1>7 DEF DefineVariable
  <2>2. Evolves(cs, Define(cs, Node.name))
    BY <1>1, DefineIs
  <2> QED  BY <1>2, <2>1, <2>2, NeutralTask, NeutralStep
<1>8. CASE VisitExpression
  <2>1. Visiting("Expression") /\ Do(cs, <<Node.expression, Adding(<<"Pop">>)>>)
        /\ "Expression" \in TreeKinds
    BY <1>8 DEF VisitExpression, TreeKinds
  <2>2. Node.expression \in T
    BY <2>1, VisitedTree DEF NodeOK, Node
  <2>3. Neutrals(T, <<Node.expression, Adding(<<"Pop">>)>>)
    <3>1. Neutral(T, Node.expression) /\ Neutral(T, Adding(<<"Pop">>))
      BY <1>3, <2>2, Adds
    <3> QED  BY <3>1, NeutralsAre
  <2> QED  BY <1>1, <2>1, <2>3, VisitedTree, NeutralStep
<1>9. CASE VisitPrint
  <2>1. Visiting("Print") /\ Do(cs, <<Node.expression, Adding(<<"Print">>)>>)
        /\ "Print" \in TreeKinds
    BY <1>9 DEF VisitPrint, TreeKinds
  <2>2. Node.expression \in T
    BY <2>1, VisitedTree DEF NodeOK, Node
  <2>3. Neutrals(T, <<Node.expression, Adding(<<"Print">>)>>)
    <3>1. Neutral(T, Node.expression) /\ Neutral(T, Adding(<<"Print">>))
      BY <1>3, <2>2, Adds
    <3> QED  BY <3>1, NeutralsAre
  <2> QED  BY <1>1, <2>1, <2>3, VisitedTree, NeutralStep
<1>10. CASE VisitReturn
  <2> DEFINE type == func(cs).type
      c == IF \/ type = "None"
              \/ type = "Initialiser" /\ Node.value # Absent
           THEN Failed(cs) ELSE cs
      x == IF Node.value = Absent THEN Adding(<<"Literal", Nil>>)
           ELSE Node.value
      r == Reference(c, "this", FALSE)
      y == Adding(<<"Return">>)
  <2>1. /\ Visiting("Return") /\ "Return" \in TreeKinds
        /\ \/ Do(Emit(r, <<"Return">>), <<>>)
           \/ Do(c, <<x, y>>)
    BY <1>10 DEF VisitReturn, TreeKinds, ThisReturn
  <2>2. Node.value = Absent \/ Node.value \in T
    BY <2>1, VisitedTree DEF NodeOK, Node
  <2>3. Neutrals(T, <<x, y>>)
    <3>1. Neutral(T, x) /\ Neutral(T, y)
      BY <1>3, <2>2, Adds
    <3> HIDE DEF x, y
    <3> QED  BY <3>1, NeutralsAre
  <2>4. Evolves(cs, c) /\ StateOK(c)
    BY <1>1, FailedIs DEF Evolves
  <2> HIDE DEF c, x, y
  <2>5. Evolves(c, r) /\ StateOK(r)
    BY <2>4, ReferenceIs DEF Evolves
  <2> HIDE DEF r
  <2>6. Evolves(r, Emit(r, <<"Return">>))
    BY <1>3, <2>5, PlainIs
  <2>7. Evolves(cs, r)
    BY <1>1, <2>4, <2>5, EvolvesTrans
  <2>8. Evolves(cs, Emit(r, <<"Return">>))
    BY <1>1, <2>6, <2>7, EvolvesTrans
  <2>9. CASE Do(c, <<x, y>>)
    BY <2>1, <2>3, <2>4, <2>9, VisitedTree, NeutralStep
  <2>10. CASE Do(Emit(r, <<"Return">>), <<>>)
    BY <1>2, <2>1, <2>8, <2>10, VisitedTree, NeutralStep
  <2> QED  BY <2>1, <2>9, <2>10
<1> QED  BY <1>4, <1>5, <1>6, <1>7, <1>8, <1>9, <1>10

-----------------------------------------------------------------------------
(* Jumps and loops.                                                        *)

\* A task on marks or scopes is no other task.
LEMMA MarkTask ==
    ASSUME NEW T, AreTrees(T), Sound(T),
           NEW kind \in {"AddJump", "PatchJump", "AddLoop", "EndFunction"},
           Visiting(kind)
    PROVE  /\ Len(todo) > 0 /\ Head(todo).is = kind /\ Head(todo).is # "Add"
           /\ Node = Head(todo) /\ ~Neutral(T, Head(todo))
           /\ \E a, b : OnPlan(cs, a) /\ TaskOK(T, Head(todo), a, b)
<1> DEFINE t == Head(todo)
<1>1. Len(todo) > 0 /\ t.is = kind /\ IsSeq(todo) /\ t = todo[1] /\ Node = t
  BY Heads DEF Sound, Node
<1>2. t \notin T
  <2>1. kind \notin TreeKinds
    BY DEF TreeKinds
  <2> QED  BY <1>1, <2>1 DEF AreTrees, NodeOK
<1>3. ~Neutral(T, t)
  BY <1>1, <1>2 DEF Neutral
<1>4. \E a, b : OnPlan(cs, a) /\ TaskOK(T, t, a, b)
  BY <1>1, LeadsTail DEF Sound
<1>5. kind # "Add"
  OBVIOUS
<1> QED  BY <1>1, <1>3, <1>4, <1>5

LEMMA MarkStep ==
    ASSUME NEW T, Sound(T), Len(todo) > 0, Head(todo).is # "Add",
           NEW d, Do(d, <<>>),
           \E a, b : OnPlan(cs, a) /\ TaskOK(T, Head(todo), a, b),
           \A a, b : OnPlan(cs, a) /\ TaskOK(T, Head(todo), a, b) =>
                     /\ b = At(b.marks, b.level)
                     /\ StateOK(d) /\ Follows(d, b)
    PROVE  Sound(T)'
<1>1. StateOK(d)
  OBVIOUS
<1>2. Neutrals(T, <<>>) /\ IsSeq(<<>>)
  BY NeutralsAre DEF Neutrals
<1>3. ASSUME NEW a, NEW b, OnPlan(cs, a), TaskOK(T, Head(todo), a, b)
      PROVE  OnPlan(d, b) /\ Leads(T, <<>>, b, b)
  BY <1>2, <1>3, NeutralsLead DEF OnPlan
<1> QED  BY <1>1, <1>2, <1>3, Progress

LEMMA AddsJump ==
    ASSUME NEW T, AreTrees(T), Sound(T), AddJump
    PROVE  Sound(T)'
<1> DEFINE ins == <<Node.op, 0>>
    c == Emit(cs, ins)
    d == [c EXCEPT !.marks = Append(@, Size(c))]
<1>1. Visiting("AddJump") /\ Do(d, <<>>)
  BY DEF AddJump
<1>2. ASSUME NEW a, NEW b, OnPlan(cs, a), TaskOK(T, Head(todo), a, b)
      PROVE  b = At(b.marks, b.level) /\ StateOK(d) /\ Follows(d, b)
  <2>1. StateOK(cs) /\ Follows(cs, a)
    BY <1>2 DEF Sound, OnPlan
  <2>2. /\ Node.op \in {"Jump", "ConditionalJump"}
        /\ b = At(Append(a.marks, Jumps(a.level)), a.level)
    BY <1>1, <1>2, MarkTask DEF TaskOK
  <2>3. IsJump(ins) /\ IsPair(ins) /\ RefersWell(ins, func(cs).ups, cs.funs)
    BY <2>2 DEF IsJump, IsPair, RefersWell
  <2> HIDE DEF ins
  <2>4. PICK f : Emitted(cs, ins, f)
    BY <2>1, <2>3, EmitRecord
  <2> DEFINE marks == Append(cs.marks, Len(f.code))
  <2>5. /\ Stands(cs, f) /\ Marks(cs, c, f, cs.marks) /\ func(c) = f
        /\ Appends(func(cs).code, f.code, ins)
    BY <2>4 DEF Emitted, Appends
  <2>6. d = [c EXCEPT !.marks = Append(c.marks, Size(c))]
    OBVIOUS
  <2> HIDE DEF c, d
  <2>7. c.marks = cs.marks /\ Size(c) = Len(f.code)
    BY <2>5, MarksOf DEF Size
  <2>8. d = [c EXCEPT !.marks = marks]
    BY <2>6, <2>7
  <2>9. Appends(cs.marks, marks, Len(f.code))
    BY DEF Appends
  <2> HIDE DEF marks
  <2>10. Marks(cs, d, f, marks)
    BY <2>5, <2>8, MarksRecord
  <2>11. StateOK(d) /\ Follows(d, At(Append(a.marks, Jumps(a.level)), a.level))
    BY <2>1, <2>3, <2>5, <2>9, <2>10, JumpAdded
  <2> QED  BY <2>2, <2>11 DEF At
<1> HIDE DEF d
<1> QED  BY <1>1, <1>2, MarkTask, MarkStep

LEMMA AddsLoop ==
    ASSUME NEW T, AreTrees(T), Sound(T), AddLoop
    PROVE  Sound(T)'
<1> DEFINE i == Len(cs.marks) - 1
    ins == <<"Jump", cs.marks[i]>>
    c == Emit(cs, ins)
    far == Distance(c, cs.marks[i]) >= MaxJump
    e == IF far THEN Failed(c) ELSE c
    d == [e EXCEPT !.marks = RemoveAt(@, i)]
<1>1. Visiting("AddLoop") /\ Do(d, <<>>)
  BY DEF AddLoop
<1>2. ASSUME NEW a, NEW b, OnPlan(cs, a), TaskOK(T, Head(todo), a, b)
      PROVE  b = At(b.marks, b.level) /\ StateOK(d) /\ Follows(d, b)
  <2> DEFINE marks == RemoveAt(cs.marks, i)
  <2>1. StateOK(cs) /\ Follows(cs, a)
    BY <1>2 DEF Sound, OnPlan
  <2>2. Len(a.marks) = Len(cs.marks) /\ Len(cs.marks) \in Nat
    BY <2>1, Lengths
  <2>3. /\ Len(a.marks) > 1 /\ a.marks[i] = Label(a.level)
        /\ b = At(RemoveAt(a.marks, i), a.level)
    BY <1>1, <1>2, <2>2, MarkTask DEF TaskOK
  <2>4. i \in 1 .. Len(cs.marks)
    BY <2>2, <2>3
  <2>5. RefersWell(ins, func(cs).ups, cs.funs) /\ ins[2] = cs.marks[i]
    BY DEF RefersWell
  <2>6. d = [e EXCEPT !.marks = RemoveAt(e.marks, i)]
    OBVIOUS
  <2> HIDE DEF ins, i, d, far
  <2>7. PICK f : Emitted(cs, ins, f)
    BY <2>1, <2>5, EmitRecord
  <2>8. /\ Stands(cs, f) /\ Marks(cs, c, f, cs.marks)
        /\ Appends(func(cs).code, f.code, ins)
    BY <2>7 DEF Emitted, Appends
  <2> HIDE DEF c
  <2>9. Marks(cs, Failed(c), f, cs.marks)
    BY <2>8, MarksRecord
  <2>10. Marks(cs, e, f, cs.marks)
    BY <2>8, <2>9
  <2> HIDE DEF e
  <2>11. e.marks = cs.marks
    BY <2>10, MarksOf
  <2>12. d = [e EXCEPT !.marks = marks]
    BY <2>6, <2>11
  <2>13. Marks(cs, d, f, marks)
    BY <2>10, <2>12, MarksRecord
  <2>14. StateOK(d) /\ Follows(d, At(RemoveAt(a.marks, i), a.level))
    BY <2>1, <2>3, <2>4, <2>5, <2>8, <2>13, LoopAdded
  <2> QED  BY <2>3, <2>14 DEF At
<1> HIDE DEF d
<1> QED  BY <1>1, <1>2, MarkTask, MarkStep

\* The function whose jump gets its target.
Retargeted(c, j, x, f) == f = [func(c) EXCEPT !.code[j][2] = x]

LEMMA Patched ==
    ASSUME NEW c, StateOK(c), NEW j \in 1 .. Len(func(c).code), NEW x,
           IsJump(func(c).code[j]), IsPair(func(c).code[j]), NEW f,
           Retargeted(c, j, x, f)
    PROVE  /\ Stands(c, f)
           /\ \E ins : /\ ins[1] = func(c).code[j][1] /\ ins[2] = x /\ IsPair(ins)
                       /\ Replaces(func(c).code, f.code, j, ins)
<1> DEFINE g == func(c)
    s == g.code
    op == s[j][1]
    ins == <<op, x>>
<1>1. IsScope(g) /\ IsSeq(s) /\ ScopeOK(c, Len(c.scopes))
      /\ g = c.scopes[Len(c.scopes)]
  BY Innermost
<1>2. f = [type |-> g.type, depth |-> g.depth, ups |-> g.ups,
           code |-> [s EXCEPT ![j][2] = x],
           constants |-> g.constants, locals |-> g.locals]
  BY <1>1, TargetRecord, Zenon DEF Retargeted
<1>3. f.code = [s EXCEPT ![j][2] = x] /\ f.ups = g.ups
  BY <1>2
<1> HIDE DEF g, s
<1>4. [s EXCEPT ![j][2] = x] = [s EXCEPT ![j] = [s[j] EXCEPT ![2] = x]]
  BY <1>1 DEF IsSeq
<1>5. [s[j] EXCEPT ![2] = x] = ins
  <2> DEFINE y == s[j]
  <2>1. y = <<y[1], y[2]>>
    BY DEF IsPair, s, g
  <2> HIDE DEF y
  <2>2. [y EXCEPT ![2] = x] = <<y[1], x>>
    BY <2>1
  <2> QED  BY <2>2 DEF y
<1>6. /\ IsPair(ins) /\ IsJump(ins) /\ ins[1] = op /\ ins[2] = x
      /\ RefersWell(ins, g.ups, c.funs)
  BY DEF IsPair, IsJump, RefersWell, s, g
<1> HIDE DEF ins
<1>7. Replaces(s, f.code, j, ins)
  BY <1>3, <1>4, <1>5 DEF Replaces
<1>8. /\ IsSeq(f.code) /\ Len(f.code) = Len(s)
      /\ \A i \in 1 .. Len(s) : f.code[i] = IF i = j THEN ins ELSE s[i]
  BY <1>1, <1>7, ReplacesIs
<1>9. \A i \in 1 .. Len(f.code) : RefersWell(f.code[i], f.ups, c.funs)
  BY <1>1, <1>3, <1>6, <1>8 DEF ScopeOK, s
<1>10. IsScope(f)
  <2> DEFINE y == [s EXCEPT ![j][2] = x]
  <2>1. f = [type |-> g.type, depth |-> g.depth, ups |-> g.ups, code |-> y,
             constants |-> g.constants, locals |-> g.locals]
    BY <1>2
  <2> HIDE DEF y
  <2>2. IsSeq(g.ups) /\ IsSeq(g.locals) /\ IsSeq(f.code)
    BY <1>1, <1>8 DEF IsScope
  <2> QED  BY <2>1, <2>2 DEF IsScope
<1>11. Stands(c, f)
  BY <1>3, <1>9, <1>10 DEF Stands, g
<1> QED  BY <1>6, <1>7, <1>11 DEF g, s

LEMMA PatchesJump ==
    ASSUME NEW T, AreTrees(T), Sound(T), PatchJump
    PROVE  Sound(T)'
<1> DEFINE i == Len(cs.marks) + 1 - Node.n
    j == cs.marks[i]
    x == Size(cs) + 1
    far == Distance(cs, j + 1) > MaxJump
    f == [func(cs) EXCEPT !.code[j][2] = x]
    e == Update(IF far THEN Failed(cs) ELSE cs, f)
    d == [e EXCEPT !.marks = RemoveAt(@, i)]
<1>1. Visiting("PatchJump") /\ Do(d, <<>>)
  BY DEF PatchJump
<1>2. ASSUME NEW a, NEW b, OnPlan(cs, a), TaskOK(T, Head(todo), a, b)
      PROVE  b = At(b.marks, b.level) /\ StateOK(d) /\ Follows(d, b)
  <2> DEFINE marks == RemoveAt(cs.marks, i)
  <2>1. StateOK(cs) /\ Follows(cs, a)
    BY <1>2 DEF Sound, OnPlan
  <2>2. /\ Len(a.marks) = Len(cs.marks) /\ Len(cs.marks) \in Nat
        /\ func(cs) = cs.scopes[a.level]
    BY <2>1, Lengths
  <2>3. /\ Node.n \in 1 .. Len(a.marks) /\ a.marks[i] = Jumps(a.level)
        /\ b = At(RemoveAt(a.marks, i), a.level)
    BY <1>1, <1>2, <2>2, MarkTask DEF TaskOK
  <2>4. i \in 1 .. Len(cs.marks)
    BY <2>2, <2>3
  <2>5. /\ j \in 1 .. Len(func(cs).code)
        /\ IsJump(func(cs).code[j]) /\ IsPair(func(cs).code[j])
    <3>1. MarkOK(cs, a, i)
      BY <2>1, <2>4 DEF Follows
    <3> QED  BY <2>2, <2>3, <3>1, MarksDiffer DEF MarkOK, IsPair
  <2>6. d = [e EXCEPT !.marks = RemoveAt(e.marks, i)]
    OBVIOUS
  <2> HIDE DEF i, d, far
  <2>7. /\ Stands(cs, f)
        /\ \E ins : /\ ins[1] = func(cs).code[j][1] /\ ins[2] = x /\ IsPair(ins)
                    /\ Replaces(func(cs).code, f.code, j, ins)
    <3>1. Retargeted(cs, j, x, f)
      BY DEF Retargeted
    <3> HIDE DEF f, j, x
    <3> QED  BY <2>1, <2>5, <3>1, Patched
  <2>8. PICK ins : /\ ins[1] = func(cs).code[j][1] /\ ins[2] = x /\ IsPair(ins)
                   /\ Replaces(func(cs).code, f.code, j, ins)
    BY <2>7
  <2> HIDE DEF f
  <2>9. Marks(cs, e, f, cs.marks)
    BY <2>1, UpdateRecord
  <2> HIDE DEF e
  <2>10. e.marks = cs.marks
    BY <2>9, MarksOf
  <2>11. d = [e EXCEPT !.marks = marks]
    BY <2>6, <2>10
  <2>12. Marks(cs, d, f, marks)
    BY <2>9, <2>11, MarksRecord
  <2>13. ins[2] = Len(func(cs).code) + 1
    BY <2>8 DEF Size
  <2>14. StateOK(d) /\ Follows(d, At(RemoveAt(a.marks, i), a.level))
    BY <2>1, <2>3, <2>4, <2>7, <2>8, <2>12, <2>13, JumpPatched
  <2> QED  BY <2>3, <2>14 DEF At
<1> HIDE DEF d
<1> QED  BY <1>1, <1>2, MarkTask, MarkStep

LEMMA Conditionals ==
    ASSUME NEW T, AreTrees(T), Sound(T), VisitIf
    PROVE  Sound(T)'
<1> DEFINE x == Node.condition
    y == Node.then
    z == Node.else
    pop == Adding(<<"Pop">>)
    s == <<x, AddingJump("ConditionalJump"), pop, y, AddingJump("Jump"),
           PatchingJump(2), pop>>
    e == IF z = Absent THEN <<>> ELSE <<z>>
    l == <<PatchingJump(1)>>
<1>1. Visiting("If") /\ Do(cs, s \o e \o l) /\ "If" \in TreeKinds
  BY DEF VisitIf, TreeKinds
<1>2. x \in T /\ y \in T /\ (z = Absent \/ z \in T)
  BY <1>1, VisitedTree DEF NodeOK, Node
<1>3. Neutral(T, x) /\ Neutral(T, y) /\ Neutral(T, pop)
  BY <1>2, Adds DEF PlainIns, IsJump
<1>4. Neutrals(T, e)
  <2>1. Neutrals(T, <<>>)
    BY NeutralsAre
  <2>2. z \in T => Neutrals(T, <<z>>)
    BY Adds, NeutralsAre
  <2> QED  BY <1>2, <2>1, <2>2
<1>5. ASSUME NEW a, OnPlan(cs, a) PROVE IsSeq(s \o e \o l) /\ Leads(T, s \o e \o l, a, a)
  <2> DEFINE b == WithJump(a)
      c == WithJump(b)
  <2>1. a = At(a.marks, a.level) /\ IsSeq(a.marks)
    BY <1>5 DEF OnPlan, Follows
  <2>2. b = At(b.marks, b.level) /\ IsSeq(b.marks)
    BY <2>1, AppendIs DEF WithJump, At
  <2>3. /\ TaskOK(T, AddingJump("ConditionalJump"), a, b)
        /\ TaskOK(T, PatchingJump(1), b, a)
        /\ TaskOK(T, PatchingJump(2), c, b)
    BY <2>1, JumpTasks
  <2>4. TaskOK(T, AddingJump("Jump"), b, c)
    BY <2>2, JumpTasks
  <2>5. TaskOK(T, x, a, a) /\ TaskOK(T, pop, b, b) /\ TaskOK(T, y, b, b)
    BY <1>3 DEF TaskOK
  <2> HIDE DEF x, y, z, pop, b, c
  <2>6. IsSeq(s) /\ Leads(T, s, a, b)
    BY <2>3, <2>4, <2>5, LeadsSeven
  <2>7. IsSeq(l) /\ Leads(T, l, b, a)
    BY <2>3, LeadsOne
  <2>8. IsSeq(e) /\ Leads(T, e, b, b)
    BY <1>4, NeutralsLead DEF Neutrals
  <2> HIDE DEF s, e, l
  <2>9. IsSeq(s \o e) /\ Leads(T, s \o e, a, b)
    BY <2>6, <2>8, LeadsConcat
  <2> QED  BY <2>7, <2>9, LeadsConcat
<1> HIDE DEF s, e, l
<1> DEFINE tasks == s \o e \o l
<1>6. \A a : OnPlan(cs, a) => IsSeq(tasks) /\ Leads(T, tasks, a, a)
  BY <1>5
<1>7. Do(cs, tasks)
  BY <1>1
<1> HIDE DEF tasks
<1> QED  BY <1>1, <1>6, <1>7, VisitedTree, Progress DEF Sound

LEMMA Loops ==
    ASSUME NEW T, AreTrees(T), Sound(T), VisitWhile
    PROVE  Sound(T)'
<1> DEFINE x == Node.condition
    y == Node.body
    pop == Adding(<<"Pop">>)
    s == <<x, AddingJump("ConditionalJump"), pop, y, Task("AddLoop"),
           PatchingJump(1), pop>>
    d == [cs EXCEPT !.marks = Append(@, Size(cs) + 1)]
<1>1. Visiting("While") /\ Do(d, s) /\ "While" \in TreeKinds
  BY DEF VisitWhile, TreeKinds
<1>2. x \in T /\ y \in T
  BY <1>1, VisitedTree DEF NodeOK, Node
<1>3. Neutral(T, x) /\ Neutral(T, y) /\ Neutral(T, pop)
  BY <1>2, Adds DEF PlainIns, IsJump
<1>4. ASSUME NEW a, OnPlan(cs, a)
      PROVE  /\ IsSeq(s) /\ StateOK(d) /\ OnPlan(d, WithLabel(a))
             /\ Leads(T, s, WithLabel(a), a)
  <2> DEFINE b == WithLabel(a)
      c == WithJump(b)
      f == WithJump(a)
  <2>1. a = At(a.marks, a.level) /\ IsSeq(a.marks) /\ StateOK(cs) /\ Follows(cs, a)
    BY <1>4 DEF OnPlan, Follows, Sound
  <2>2. b = At(b.marks, b.level) /\ IsSeq(b.marks)
    BY <2>1, AppendIs DEF WithLabel, At
  <2>3. /\ TaskOK(T, PatchingJump(1), f, a)
        /\ TaskOK(T, Task("AddLoop"), c, f)
    BY <2>1, JumpTasks
  <2>4. TaskOK(T, AddingJump("ConditionalJump"), b, c)
    BY <2>2, JumpTasks
  <2>5. /\ TaskOK(T, x, b, b) /\ TaskOK(T, pop, c, c) /\ TaskOK(T, y, c, c)
        /\ TaskOK(T, pop, a, a)
    BY <1>3 DEF TaskOK
  <2>6. StateOK(d) /\ Follows(d, b)
    BY <2>1, LabelIs DEF WithLabel
  <2> HIDE DEF x, y, pop, b, c, d, f
  <2>7. IsSeq(s) /\ Leads(T, s, b, a)
    BY <2>3, <2>4, <2>5, LeadsSeven
  <2> QED  BY <2>2, <2>6, <2>7 DEF OnPlan, b
<1> HIDE DEF s, d
<1>5. StateOK(d) /\ IsSeq(s)
  BY <1>4 DEF Sound
<1> QED  BY <1>1, <1>4, <1>5, VisitedTree, Progress

LEMMA Logicals ==
    ASSUME NEW T, AreTrees(T), Sound(T), VisitLogical
    PROVE  Sound(T)'
<1> DEFINE x == Node.left
    y == Node.right
    pop == Adding(<<"Pop">>)
    s == <<x, AddingJump("ConditionalJump")>>
    r == <<AddingJump("Jump"), PatchingJump(2), y, PatchingJump(1)>>
    u == <<pop, y, PatchingJump(1)>>
    t == IF Node.op = "Or" THEN r ELSE u
<1>1. Visiting("Logical") /\ Do(cs, s \o t) /\ "Logical" \in TreeKinds
  BY DEF VisitLogical, TreeKinds
<1>2. x \in T /\ y \in T
  BY <1>1, VisitedTree DEF NodeOK, Node
<1>3. Neutral(T, x) /\ Neutral(T, y) /\ Neutral(T, pop)
  BY <1>2, Adds DEF PlainIns, IsJump
<1>4. ASSUME NEW a, OnPlan(cs, a) PROVE IsSeq(s \o t) /\ Leads(T, s \o t, a, a)
  <2> DEFINE b == WithJump(a)
      c == WithJump(b)
  <2>1. a = At(a.marks, a.level) /\ IsSeq(a.marks)
    BY <1>4 DEF OnPlan, Follows
  <2>2. b = At(b.marks, b.level) /\ IsSeq(b.marks)
    BY <2>1, AppendIs DEF WithJump, At
  <2>3. /\ TaskOK(T, AddingJump("ConditionalJump"), a, b)
        /\ TaskOK(T, PatchingJump(1), b, a)
        /\ TaskOK(T, PatchingJump(2), c, b)
    BY <2>1, JumpTasks
  <2>4. TaskOK(T, AddingJump("Jump"), b, c)
    BY <2>2, JumpTasks
  <2>5. TaskOK(T, x, a, a) /\ TaskOK(T, pop, b, b) /\ TaskOK(T, y, b, b)
    BY <1>3 DEF TaskOK
  <2> HIDE DEF x, y, pop, b, c
  <2>6. IsSeq(s) /\ Leads(T, s, a, b)
    BY <2>3, <2>5, LeadsTwo
  <2>7. IsSeq(r) /\ Leads(T, r, b, a)
    BY <2>3, <2>4, <2>5, LeadsFour
  <2>8. IsSeq(u) /\ Leads(T, u, b, a)
    BY <2>3, <2>5, LeadsThree
  <2>9. IsSeq(t) /\ Leads(T, t, b, a)
    BY <2>7, <2>8
  <2> HIDE DEF s, t
  <2> QED  BY <2>6, <2>9, LeadsConcat
<1> HIDE DEF s, t
<1> DEFINE tasks == s \o t
<1>6. \A a : OnPlan(cs, a) => IsSeq(tasks) /\ Leads(T, tasks, a, a)
  BY <1>4
<1>7. Do(cs, tasks)
  BY <1>1
<1> HIDE DEF tasks
<1> QED  BY <1>1, <1>6, <1>7, VisitedTree, Progress DEF Sound

-----------------------------------------------------------------------------
(* Functions.                                                              *)

\* A body leads back to where the function began.
LEMMA BodyLeads ==
    ASSUME NEW T, NEW fn, fn.body \in Seq(T), NEW t, Neutral(T, t),
           NEW c, StateOK(c), NEW a, OnPlan(c, a)
    PROVE  /\ IsSeq(Body(fn) \o <<t>>)
           /\ Leads(T, Body(fn) \o <<t>>, At(a.marks, a.level + 1), a)
<1> DEFINE x == At(a.marks, a.level + 1)
    e == [is |-> "EndFunction", fn |-> fn]
    s == fn.body
<1>1. /\ a = At(a.marks, a.level) /\ a.level \in Nat /\ a.level \in 1 .. a.level
      /\ IsSeq(a.marks) /\ Len(a.marks) \in Nat
      /\ \A m \in 1 .. Len(a.marks) : a.marks[m].level \in 1 .. a.level
  <2>1. Follows(c, a) /\ a = At(a.marks, a.level)
    BY DEF OnPlan
  <2>2. \A m \in 1 .. Len(a.marks) : a.marks[m].level \in 1 .. a.level
    BY <2>1, Lengths DEF Follows, MarkOK
  <2> QED  BY <2>1, <2>2, Lengths
<1>2. x.marks = a.marks /\ x.level = a.level + 1 /\ x.level - 1 = a.level
  BY <1>1 DEF At
<1> HIDE DEF x
<1>3. TaskOK(T, e, x, a)
  <2>1. x.level > 1 /\ \A i \in 1 .. Len(x.marks) : x.marks[i].level < x.level
    BY <1>1, <1>2
  <2>2. a = At(x.marks, x.level - 1)
    BY <1>1, <1>2
  <2> QED  BY <2>1, <2>2 DEF TaskOK
<1> HIDE DEF e, s
<1>4. IsSeq(<<e>>) /\ Leads(T, <<e>>, x, a)
  BY <1>3, LeadsOne
<1>5. IsSeq(s) /\ Leads(T, s, x, x)
  <2>1. Neutrals(T, s)
    BY NeutralsAre DEF s
  <2> QED  BY <2>1, NeutralsLead DEF Neutrals
<1>6. IsSeq(s \o <<e>>) /\ Leads(T, s \o <<e>>, x, a)
  BY <1>4, <1>5, LeadsConcat
<1>7. IsSeq(<<t>>) /\ Leads(T, <<t>>, a, a)
  BY LeadsOne DEF TaskOK
<1>8. Body(fn) = s \o <<e>>
  BY DEF Body, s, e
<1> QED  BY <1>6, <1>7, <1>8, LeadsConcat DEF x

\* What the tasks of a function do to the plan.
LEMMA FunctionBegun ==
    ASSUME NEW T, AreTrees(T), Sound(T), Len(todo) > 0, Head(todo).is # "Add",
           \A a, b : TaskOK(T, Head(todo), a, b) => b = a,
           NEW c, Evolves(cs, c), NEW fn \in T, IsFunction(fn), NEW type,
           NEW t, Neutral(T, t),
           Do(BeginFunction(c, fn, type), Body(fn) \o <<t>>)
    PROVE  Sound(T)'
<1> DEFINE d == BeginFunction(c, fn, type)
    tasks == Body(fn) \o <<t>>
<1>1. fn.body \in Seq(T) /\ IsSeq(fn.parameters) /\ StateOK(cs) /\ StateOK(c)
  BY DEF AreTrees, NodeOK, IsFunction, Sound, Evolves
<1>2. ASSUME NEW a, OnPlan(cs, a)
      PROVE  /\ IsSeq(tasks) /\ StateOK(d) /\ OnPlan(d, At(a.marks, a.level + 1))
             /\ Leads(T, tasks, At(a.marks, a.level + 1), a)
  <2>1. Follows(c, a) /\ OnPlan(c, a)
    BY <1>1, <1>2, FollowsKept DEF OnPlan
  <2>2. StateOK(d) /\ Follows(d, At(a.marks, a.level + 1))
    BY <1>1, <2>1, BeginFunctionIs
  <2>3. OnPlan(d, At(a.marks, a.level + 1))
    BY <2>2 DEF OnPlan, At
  <2> QED  BY <1>1, <2>1, <2>2, <2>3, BodyLeads
<1>3. Do(d, tasks)
  OBVIOUS
<1> HIDE DEF d, tasks
<1>4. StateOK(d) /\ IsSeq(tasks)
  BY <1>2 DEF Sound
<1> QED  BY <1>2, <1>3, <1>4, Progress

LEMMA Functions ==
    ASSUME NEW T, AreTrees(T), Sound(T), VisitFunction \/ CompileMethod
    PROVE  Sound(T)'
<1>1. StateOK(cs) /\ Evolves(cs, cs)
  BY FailedIs DEF Sound
<1>2. CASE VisitFunction
  <2> DEFINE t == [is |-> "Define", name |-> Node.name]
      c == Declare(cs, Node.name)
  <2>1. /\ Visiting("Function") /\ "Function" \in TreeKinds
        /\ Do(BeginFunction(c, Node, "Function"), Body(Node) \o <<t>>)
    BY <1>2 DEF VisitFunction, TreeKinds
  <2>2. Node \in T /\ IsFunction(Node)
    BY <2>1, VisitedTree DEF Node, IsFunction
  <2>3. Neutral(T, t)
    BY DEF Neutral
  <2>4. Evolves(cs, c)
    BY <1>1, DeclareIs
  <2> HIDE DEF t, c
  <2> QED  BY <2>1, <2>2, <2>3, <2>4, VisitedTree, FunctionBegun
<1>3. CASE CompileMethod
  <2> DEFINE fn == Node.fn
      type == IF fn.name = "init" THEN "Initialiser" ELSE "Method"
      t == Adding(<<"CreateMethod", fn.name>>)
  <2>1. /\ Visiting("Method")
        /\ Do(BeginFunction(cs, fn, type), Body(fn) \o <<t>>)
    BY <1>3 DEF CompileMethod
  <2>2. fn \in T /\ IsFunction(fn)
    BY <2>1, NeutralTask
  <2>3. Neutral(T, t)
    BY Adds DEF PlainIns, IsJump
  <2> HIDE DEF fn, t, type
  <2> QED  BY <1>1, <2>1, <2>2, <2>3, NeutralTask, FunctionBegun
<1> QED  BY <1>2, <1>3

LEMMA EndsFunction ==
    ASSUME ByteSize \in Nat, NEW T, AreTrees(T), Sound(T), FewUpvalues, EndFunction
    PROVE  Sound(T)'
<1> DEFINE fn == Node.fn
    e == EndBody(cs)
    new == [name |-> fn.name, arity |-> Len(fn.parameters),
            ups |-> Upvalues(func(e).ups), code |-> func(e).code]
    d == Emit(WithoutFunction(e, new), <<"CreateClosure", Len(e.funs) + 1>>)
<1>1. Visiting("EndFunction") /\ Do(d, <<>>)
  BY DEF EndFunction, WithoutFunction
<1>2. /\ new.ups = Upvalues(func(e).ups) /\ new.code = func(e).code
      /\ new = [name |-> new.name, arity |-> new.arity, ups |-> new.ups,
                code |-> new.code]
  OBVIOUS
<1>3. Len(func(e).ups) < ByteSize
  BY <1>1 DEF FewUpvalues
<1> HIDE DEF new
<1>4. ASSUME NEW a, NEW b, OnPlan(cs, a), TaskOK(T, Head(todo), a, b)
      PROVE  b = At(b.marks, b.level) /\ StateOK(d) /\ Follows(d, b)
  <2>1. StateOK(cs) /\ Follows(cs, a)
    BY <1>4 DEF Sound, OnPlan
  <2>2. /\ a.level > 1 /\ \A i \in 1 .. Len(a.marks) : a.marks[i].level < a.level
        /\ b = At(a.marks, a.level - 1)
    BY <1>1, <1>4, MarkTask DEF TaskOK
  <2>3. StateOK(d) /\ Follows(d, At(a.marks, a.level - 1))
    BY <1>2, <1>3, <2>1, <2>2, EndFunctionIs
  <2> QED  BY <2>2, <2>3 DEF At
<1> HIDE DEF d
<1> QED  BY <1>1, <1>4, MarkTask, MarkStep

-----------------------------------------------------------------------------
(* Instructions, the last of which completes the program.                  *)

LEMMA NoneLeft ==
    ASSUME NEW T, NEW s, IsSeq(s), Len(s) = 1, NEW a, NEW c, Leads(T, s, a, c)
    PROVE  TaskOK(T, s[1], a, c)
<1>1. PICK e : /\ e[0] = a /\ e[1] = c
               /\ \A i \in 1 .. 1 : TaskOK(T, s[i], e[i - 1], e[i])
  BY DEF Leads
<1>2. TaskOK(T, s[1], e[1 - 1], e[1])
  BY <1>1
<1> QED  BY <1>1, <1>2

LEMMA Instructions ==
    ASSUME NEW T, AreTrees(T), Sound(T), AddInstruction
    PROVE  Sound(T)'
<1> DEFINE t == Head(todo)
    d == Emit(cs, t.ins)
<1>1. Visiting("Add") /\ Do(d, <<>>)
  BY DEF AddInstruction, Node
<1>2. /\ Len(todo) > 0 /\ t.is = "Add" /\ IsSeq(todo) /\ t = todo[1]
      /\ Len(todo) \in Nat /\ StateOK(cs)
  BY <1>1, Heads DEF Sound, IsSeq
<1>3. t \notin T
  BY <1>2 DEF AreTrees, NodeOK, TreeKinds
<1>4. \A a, b : TaskOK(T, t, a, b) => b = a /\ PlainIns(t.ins)
  BY <1>2, <1>3 DEF TaskOK, Neutral
<1>5. \E a, b : TaskOK(T, t, a, b)
  BY <1>2, LeadsTail DEF Sound
<1>6. Evolves(cs, d)
  BY <1>2, <1>4, <1>5, PlainIs
<1>7. CASE Len(todo) > 1
  <2>1. Neutrals(T, <<>>)
    BY NeutralsAre
  <2> HIDE DEF d
  <2> QED  BY <1>1, <1>2, <1>4, <1>6, <1>7, <2>1, NeutralStep
<1>8. CASE Len(todo) = 1
  <2> DEFINE s == func(cs).code
      ins == <<"Return">>
      r == Tail(todo)
  <2>1. t = Adding(ins)
    BY <1>2, <1>8 DEF Sound
  <2>2. d = Emit(cs, ins)
    BY <2>1 DEF Adding
  <2>3. PICK a : OnPlan(cs, a) /\ Leads(T, todo, a, End)
    BY DEF Sound
  <2>4. a = End
    BY <1>2, <1>4, <1>8, <2>3, NoneLeft
  <2>5. Follows(cs, End)
    BY <2>3, <2>4 DEF OnPlan
  <2>6. StateOK(d) /\ Follows(d, End)
    BY <1>2, <1>6, <2>5, FollowsKept DEF Evolves
  <2>7. /\ func(cs) = cs.scopes[1] /\ IsSeq(s) /\ Len(s) \in Nat
        /\ Len(cs.scopes) = 1 /\ 1 \in 1 .. Len(cs.scopes) /\ Len(cs.marks) = 0
    BY <1>2, <2>5, Innermost DEF Follows, End, At
  <2>8. \A i \in 1 .. Len(s) : IsJump(s[i]) => s[i][2] \in 1 .. Len(s) + 1
    <3> SUFFICES ASSUME NEW i \in 1 .. Len(s), IsJump(s[i])
                 PROVE  s[i][2] \in 1 .. Len(s) + 1
      OBVIOUS
    <3>1. JumpOK(cs, End, 1, i)
      BY <2>5, <2>7 DEF Follows
    <3> QED  BY <2>7, <3>1 DEF JumpOK
  <2>9. func(d).code = Append(s, ins)
    BY <1>2, <2>2, EmitCode
  <2> HIDE DEF d, s
  <2> DEFINE u == func(d).code
  <2>10. /\ IsSeq(u) /\ Len(u) = Len(s) + 1 /\ u[Len(s) + 1] = ins
         /\ \A i \in 1 .. Len(s) : u[i] = s[i]
    BY <2>7, <2>9, AppendIs DEF s
  <2> HIDE DEF u
  <2>11. Complete(u) /\ Len(u) > 0
    <3>1. ASSUME NEW i \in 1 .. Len(u), IsJump(u[i])
          PROVE  u[i][2] \in 1 .. Len(u)
      <4>1. CASE i = Len(s) + 1
        BY <2>10, <3>1, <4>1 DEF IsJump
      <4>2. CASE i # Len(s) + 1
        <5>1. i \in 1 .. Len(s)
          BY <2>7, <2>10, <4>2 DEF s
        <5> QED  BY <2>8, <2>10, <3>1, <5>1
      <4> QED  BY <4>1, <4>2
    <3>2. Len(u) > 0
      BY <2>7, <2>10
    <3> QED  BY <2>10, <3>1, <3>2 DEF Complete
  <2>12. IsSeq(r) /\ Len(r) = 0
    BY <1>2, <1>8, TailIs
  <2> HIDE DEF r
  <2>13. cs' = d /\ todo' = <<>> \o r
    BY <1>1 DEF Do, r
  <2>14. IsSeq(todo') /\ Len(todo') = 0 /\ Leads(T, todo', End, End)
    <3>1. Neutrals(T, <<>>) /\ Neutrals(T, r)
      BY <2>12, NeutralsAre DEF Neutrals
    <3>2. Neutrals(T, <<>> \o r)
      BY <3>1, NeutralsAre
    <3>3. Len(<<>> \o r) = 0
      <4>1. IsSeq(<<>>) /\ Len(<<>>) = 0
        BY DEF IsSeq
      <4> QED  BY <2>12, <4>1, ConcatIs
    <3> QED  BY <2>13, <3>2, <3>3, NeutralsLead DEF Neutrals
  <2>15. OnPlan(d, End)
    BY <2>6 DEF OnPlan, End, At
  <2> QED  BY <2>6, <2>11, <2>13, <2>14, <2>15 DEF Sound, u
<1>9. Len(todo) > 1 \/ Len(todo) = 1
  BY <1>2
<1> QED  BY <1>7, <1>8, <1>9

-----------------------------------------------------------------------------
(* The compiler.                                                           *)

LEMMA Begins ==
    ASSUME NEW T, AreTrees(T), NEW stmts \in Seq(T), CompilerInit(stmts)
    PROVE  Sound(T)
<1> DEFINE f == Scope("None", 0)
    t == Adding(<<"Return">>)
<1>1. /\ f.ups = <<>> /\ f.code = <<>> /\ IsScope(f)
      /\ IsSeq(f.ups) /\ IsSeq(f.code) /\ Len(f.code) = 0 /\ Len(f.ups) = 0
  <2>1. f = [type |-> "None", depth |-> 0, ups |-> <<>>, code |-> <<>>,
             constants |-> {}, locals |-> <<>>]
    BY DEF Scope
  <2>2. IsSeq(<<>>) /\ Len(<<>>) = 0
    BY DEF IsSeq
  <2> QED  BY <2>1, <2>2 DEF IsScope
<1> HIDE DEF f
<1>2. cs = [scopes |-> <<f>>, funs |-> << <<>> >>, cls |-> "None",
            marks |-> <<>>, failed |-> FALSE, looping |-> FALSE]
  BY DEF CompilerInit, Fresh, f
<1>3. /\ cs.scopes = <<f>> /\ cs.funs = << <<>> >> /\ cs.marks = <<>>
  BY <1>2
<1>4. /\ IsSeq(cs.scopes) /\ Len(cs.scopes) = 1 /\ cs.scopes[1] = f
      /\ IsSeq(cs.funs) /\ Len(cs.funs) = 1
      /\ IsSeq(cs.marks) /\ Len(cs.marks) = 0
  BY <1>3 DEF IsSeq
<1>5. StateOK(cs)
  <2>1. ASSUME NEW k \in 1 .. Len(cs.scopes) PROVE ScopeOK(cs, k)
    <3>1. k = 1
      BY <1>4
    <3> QED  BY <1>1, <1>4, <3>1 DEF ScopeOK
  <2>2. cs = [scopes |-> cs.scopes, funs |-> cs.funs, cls |-> cs.cls,
              marks |-> cs.marks, failed |-> cs.failed, looping |-> cs.looping]
    BY <1>2
  <2> QED  BY <1>4, <2>1, <2>2 DEF StateOK
<1>6. OnPlan(cs, End)
  <2>1. End = At(End.marks, End.level) /\ End.marks = <<>> /\ End.level = 1
    BY DEF End, At
  <2>2. IsSeq(End.marks) /\ Len(End.marks) = 0
    BY <2>1 DEF IsSeq
  <2>3. ASSUME NEW k \in 1 .. Len(cs.scopes)
        PROVE  \A i \in 1 .. Len(cs.scopes[k].code) : JumpOK(cs, End, k, i)
    <3>1. k = 1
      BY <1>4
    <3> QED  BY <1>1, <1>4, <3>1
  <2> QED  BY <1>4, <2>1, <2>2, <2>3 DEF OnPlan, Follows
<1>7. todo = stmts \o <<t>>
  BY DEF CompilerInit, TopLevel
<1>8. Neutrals(T, stmts) /\ Neutrals(T, <<t>>)
  <2>1. PlainIns(<<"Return">>)
    BY DEF PlainIns, IsJump
  <2> QED  BY <2>1, Adds, NeutralsAre
<1> HIDE DEF t
<1>9. Neutrals(T, todo) /\ Leads(T, todo, End, End) /\ IsSeq(todo)
  <2>1. Neutrals(T, todo)
    BY <1>7, <1>8, NeutralsAre
  <2> QED  BY <2>1, NeutralsLead DEF Neutrals
<1>10. Len(todo) > 0 /\ todo[Len(todo)] = t
  <2>1. IsSeq(stmts) /\ IsSeq(<<t>>) /\ Len(<<t>>) = 1 /\ <<t>>[1] = t
        /\ Len(stmts) \in Nat
    BY <1>8 DEF Neutrals, IsSeq
  <2> DEFINE w == <<t>>
  <2> HIDE DEF w
  <2>2. IsSeq(w) /\ Len(w) = 1 /\ w[1] = t /\ todo = stmts \o w
    BY <1>7, <2>1 DEF w
  <2>3. /\ Len(stmts \o w) = Len(stmts) + Len(w)
        /\ \A i \in 1 .. Len(w) : (stmts \o w)[Len(stmts) + i] = w[i]
    <3>1. IsSeq(stmts) /\ IsSeq(w)
      BY <2>1, <2>2
    <3> QED  BY <3>1, ConcatIs
  <2> QED  BY <2>1, <2>2, <2>3
<1> QED  BY <1>5, <1>6, <1>9, <1>10 DEF Sound, t

LEMMA Steps ==
    ASSUME ByteSize \in Nat, NEW T, AreTrees(T), Sound(T), FewUpvalues,
           [CompilerNext]_<<todo, cs>>
    PROVE  Sound(T)'
<1>1. CASE UNCHANGED <<todo, cs>>
  <2>1. Sound(T)' <=> Sound(T)
    BY <1>1 DEF Sound
  <2> QED  BY <2>1
<1>2. CASE AddInstruction
  BY <1>2, Instructions
<1>3. CASE AddJump \/ PatchJump \/ AddLoop
  BY <1>3, AddsJump, PatchesJump, AddsLoop
<1>4. CASE \/ VisitLiteral \/ VisitVariable \/ VisitAssign \/ Assigned
           \/ VisitGrouping \/ VisitUnary \/ VisitBinary \/ VisitCall \/ VisitGet
           \/ VisitSet \/ VisitThis \/ VisitSuper
  BY <1>4, Expressions
<1>5. CASE VisitLogical \/ VisitIf \/ VisitWhile
  BY <1>5, Logicals, Conditionals, Loops
<1>6. CASE \/ VisitBlock \/ EndBlock \/ VisitVar \/ DefineVariable
           \/ VisitExpression \/ VisitPrint \/ VisitReturn
  BY <1>6, Statements
<1>7. CASE VisitClass \/ EndClass
  BY <1>7, ClassSteps
<1>8. CASE VisitFunction \/ CompileMethod
  BY <1>8, Functions
<1>9. CASE EndFunction
  BY <1>9, EndsFunction
<1> QED  BY <1>1, <1>2, <1>3, <1>4, <1>5, <1>6, <1>7, <1>8, <1>9, Zenon DEF CompilerNext

\* When the compiler is done, the functions it hands over fit.
LEMMA OutputFits ==
    ASSUME NEW T, Sound(T), CompilerDone
    PROVE  ProgramFits(Output)
<1> DEFINE s == func(cs).code
    top == [name |-> "top level", arity |-> 0, ups |-> <<>>, code |-> s]
    p == Output
<1>1. Len(todo) = 0 /\ IsSeq(todo)
  BY DEF CompilerDone, Sound
<1>2. Complete(s) /\ Len(s) > 0 /\ StateOK(cs)
  BY <1>1 DEF Sound
<1>3. PICK a : OnPlan(cs, a) /\ Leads(T, todo, a, End)
  BY DEF Sound
<1>4. a = End
  BY <1>1, <1>3 DEF Leads
<1>5. Len(cs.scopes) = 1 /\ func(cs) = cs.scopes[1] /\ ScopeOK(cs, 1) /\ IsSeq(s)
  BY <1>2, <1>3, <1>4, Innermost DEF OnPlan, Follows, End, At
<1>6. /\ \A i \in 1 .. Len(s) : RefersWell(s[i], <<>>, cs.funs)
  BY <1>5 DEF ScopeOK
<1>7. ControlStays(s)
  BY <1>2, <1>5, CompleteIs
<1>8. /\ top.ups = <<>> /\ top.code = s /\ IsSeq(<<>>) /\ Len(<<>>) = 0
      /\ IsCodeObject(top)
  <2>1. top.ups = <<>> /\ top.code = s /\ IsSeq(<<>>) /\ Len(<<>>) = 0
    BY DEF IsSeq
  <2>2. top = [name |-> top.name, arity |-> top.arity, ups |-> top.ups,
               code |-> top.code]
    OBVIOUS
  <2> QED  BY <1>5, <2>1, <2>2 DEF IsCodeObject
<1> HIDE DEF top, s
<1>9. Replaces(cs.funs, p, 1, top)
  BY DEF Replaces, Output, top, s
<1> HIDE DEF p
<1>10. /\ IsSeq(cs.funs) /\ Len(cs.funs) \in Nat /\ Len(cs.funs) > 0
       /\ \A g \in 2 .. Len(cs.funs) : FunctionFits(cs.funs, g)
  BY <1>2 DEF StateOK, IsSeq
<1>11. /\ IsSeq(p) /\ Len(p) = Len(cs.funs)
       /\ \A g \in 1 .. Len(cs.funs) : p[g] = IF g = 1 THEN top ELSE cs.funs[g]
  BY <1>9, <1>10, ReplacesIs
<1>12. ASSUME NEW ins, NEW ups, RefersWell(ins, ups, cs.funs)
       PROVE  RefersWell(ins, ups, p)
  <2> SUFFICES ASSUME ins[1] = "CreateClosure"
               PROVE  /\ ins[2] \in 1 .. Len(p)
                      /\ \A k \in 1 .. Len(p[ins[2]].ups) :
                             InReach(p[ins[2]].ups[k], ups)
    BY <1>12 DEF RefersWell
  <2> DEFINE g == ins[2]
  <2>1. g \in 1 .. Len(cs.funs)
        /\ \A k \in 1 .. Len(cs.funs[g].ups) : InReach(cs.funs[g].ups[k], ups)
    BY <1>12 DEF RefersWell
  <2> HIDE DEF g
  <2>2. p[g].ups = <<>> \/ p[g] = cs.funs[g]
    BY <1>8, <1>11, <2>1
  <2>3. \A k \in 1 .. Len(p[g].ups) : InReach(p[g].ups[k], ups)
    BY <1>8, <2>1, <2>2
  <2> QED  BY <1>11, <2>1, <2>3 DEF g
<1>13. ASSUME NEW g \in 1 .. Len(p) PROVE FunctionFits(p, g)
  <2>1. CASE g = 1
    <3>1. p[1] = top
      BY <1>11, <2>1
    <3> QED  BY <1>6, <1>7, <1>8, <1>12, <2>1, <3>1 DEF FunctionFits
  <2>2. CASE g # 1
    <3>1. g \in 2 .. Len(cs.funs) /\ p[g] = cs.funs[g]
      BY <1>10, <1>11, <2>2
    <3> QED  BY <1>10, <1>12, <3>1 DEF FunctionFits
  <2> QED  BY <2>1, <2>2
<1>14. 1 \in 1 .. Len(p) /\ p[1] = top
  BY <1>10, <1>11
<1>15. ProgramFits(p)
  BY <1>8, <1>11, <1>13, <1>14 DEF ProgramFits
<1> QED  BY <1>15 DEF p

\* The functions that release_output hands over are ones the machine can take on
\* trust: they end with a return, their jumps stay in them, what they capture and
\* what they create exists.  The condition is that no function has as many upvalues
\* as a byte has values (FunctionScope.cpp:98, and num_upvalues).
THEOREM CodeIsRight ==
    ASSUME NEW CONSTANT T, AreTrees(T), NEW CONSTANT stmts \in Seq(T)
    PROVE  CompilerInit(stmts) /\ [][CompilerNext]_<<todo, cs>> /\ []FewUpvalues =>
               [](CompilerDone => ProgramFits(Output))
<1>1. CompilerInit(stmts) => Sound(T)
  BY Begins
<1>2. Sound(T) /\ FewUpvalues /\ [CompilerNext]_<<todo, cs>> => Sound(T)'
  BY Steps, CompilerAssumption
<1>3. Sound(T) => (CompilerDone => ProgramFits(Output))
  BY OutputFits
<1> QED  BY <1>1, <1>2, <1>3, PTL
=============================================================================
