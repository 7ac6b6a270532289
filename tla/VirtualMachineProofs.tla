------------------------ MODULE VirtualMachineProofs ------------------------
(***************************************************************************)
(* The virtual machine keeps its invariants in the execution of every      *)
(* program whose code is as the machine takes it to be: the premise of the *)
(* theorems is what nothing checks at run time.                            *)
(***************************************************************************)
EXTENDS VirtualMachine, SequenceLemmas, FiniteSetTheorems

-----------------------------------------------------------------------------
(* Objects.                                                                *)

\* What a step may do to the objects h that others refer to: none is removed, and
\* none changes its type or, if it is a closure, anything at all.
Keeps(h, k) ==
    /\ Len(h) <= Len(k)
    /\ \A o \in 1 .. Len(h) :
           k[o].type = h[o].type /\ (h[o].type = "closure" => k[o] = h[o])

LEMMA RefsKept ==
    ASSUME NEW h, IsSeq(h), NEW k, IsSeq(k), Keeps(h, k)
    PROVE  /\ 1 .. Len(h) \subseteq 1 .. Len(k)
           /\ \A t : Ref(h, t) \subseteq Ref(k, t)
           /\ \A v : Good(h, v) => Good(k, v)
<1>1. 1 .. Len(h) \subseteq 1 .. Len(k)
  BY DEF IsSeq, Keeps
<1>2. \A t : Ref(h, t) \subseteq Ref(k, t)
  BY <1>1 DEF Ref, Keeps
<1>3. \A v : Good(h, v) => Good(k, v)
  BY <1>1 DEF Good
<1> QED  BY <1>1, <1>2, <1>3

LEMMA ObjectKept ==
    ASSUME NEW h, IsSeq(h), NEW k, IsSeq(k), Keeps(h, k),
           NEW p, NEW o, NEW x, ObjectOK(p, h, o, x)
    PROVE  ObjectOK(p, k, o, x)
<1>1. /\ 1 .. Len(h) \subseteq 1 .. Len(k)
      /\ \A t : Ref(h, t) \subseteq Ref(k, t)
      /\ \A v : Good(h, v) => Good(k, v)
  BY RefsKept
<1>2. ClosureOK(p, h, x) => ClosureOK(p, k, x)
  BY <1>1 DEF ClosureOK
<1>3. UpvalueOK(h, x) => UpvalueOK(k, x)
  BY <1>1 DEF UpvalueOK
<1>4. ClassOK(h, o, x) => ClassOK(k, o, x)
  BY <1>1 DEF ClassOK
<1>5. InstanceOK(h, x) => InstanceOK(k, x)
  BY <1>1 DEF InstanceOK
<1>6. MethodOK(h, x) => MethodOK(k, x)
  BY <1>1 DEF MethodOK
<1> QED  BY <1>2, <1>3, <1>4, <1>5, <1>6 DEF ObjectOK

\* A new object that refers to older ones.
Grown(p, h, k, x) ==
    /\ HeapOK(p, k) /\ Keeps(h, k)
    /\ Len(k) = Len(h) + 1 /\ k[Len(h) + 1] = x
    /\ \A o \in 1 .. Len(h) : k[o] = h[o]

LEMMA HeapGrows ==
    ASSUME NEW p, NEW h, HeapOK(p, h), NEW x, ObjectOK(p, h, Len(h) + 1, x)
    PROVE  Grown(p, h, Append(h, x), x)
<1> DEFINE k == Append(h, x)
<1>1. IsSeq(h) /\ Len(h) \in Nat
  BY DEF HeapOK, IsSeq
<1>2. /\ IsSeq(k) /\ Len(k) = Len(h) + 1 /\ k[Len(h) + 1] = x
      /\ \A o \in 1 .. Len(h) : k[o] = h[o]
  BY <1>1, AppendIs
<1> HIDE DEF k
<1>3. Keeps(h, k)
  BY <1>1, <1>2 DEF Keeps
<1>4. ASSUME NEW o \in 1 .. Len(k) PROVE ObjectOK(p, k, o, k[o])
  <2>1. CASE o = Len(h) + 1
    <3>1. ObjectOK(p, k, Len(h) + 1, x)
      BY <1>1, <1>2, <1>3, ObjectKept
    <3> QED  BY <1>2, <2>1, <3>1
  <2>2. CASE o # Len(h) + 1
    <3>1. o \in 1 .. Len(h)
      BY <1>1, <1>2, <2>2
    <3>2. ObjectOK(p, h, o, h[o])
      BY <3>1 DEF HeapOK
    <3>3. ObjectOK(p, k, o, h[o])
      BY <1>1, <1>2, <1>3, <3>2, ObjectKept
    <3> QED  BY <1>2, <3>1, <3>3
  <2> QED  BY <2>1, <2>2
<1>5. HeapOK(p, k)
  BY <1>2, <1>4 DEF HeapOK
<1> QED  BY <1>2, <1>3, <1>5 DEF Grown, k

\* Objects that are changed, and refer to what is there.
Changes(p, h, k) ==
    /\ k = [o \in 1 .. Len(h) |-> k[o]]
    /\ \A o \in 1 .. Len(h) :
           /\ ObjectOK(p, h, o, k[o])
           /\ k[o].type = h[o].type
           /\ h[o].type = "closure" => k[o] = h[o]

LEMMA HeapChanges ==
    ASSUME NEW p, NEW h, HeapOK(p, h), NEW k, Changes(p, h, k)
    PROVE  HeapOK(p, k) /\ Keeps(h, k) /\ Len(k) = Len(h)
<1>1. IsSeq(h) /\ Len(h) \in Nat
  BY DEF HeapOK, IsSeq
<1>2. IsSeq(k) /\ Len(k) = Len(h)
  BY <1>1, FunctionIsSeq DEF Changes
<1>3. Keeps(h, k)
  BY <1>1, <1>2 DEF Keeps, Changes
<1>4. ASSUME NEW o \in 1 .. Len(k) PROVE ObjectOK(p, k, o, k[o])
  <2>1. ObjectOK(p, h, o, k[o])
    BY <1>2 DEF Changes
  <2> QED  BY <1>1, <1>2, <1>3, <2>1, ObjectKept
<1> QED  BY <1>2, <1>3, <1>4 DEF HeapOK

\* One object that is changed.
Changed(p, h, k, c, x) ==
    /\ HeapOK(p, k) /\ Keeps(h, k) /\ Len(k) = Len(h)
    /\ \A o \in 1 .. Len(h) : k[o] = IF o = c THEN x ELSE h[o]

LEMMA HeapChanged ==
    ASSUME NEW p, NEW h, HeapOK(p, h), NEW c \in 1 .. Len(h), NEW x,
           ObjectOK(p, h, c, x), x.type = h[c].type, h[c].type # "closure"
    PROVE  Changed(p, h, [h EXCEPT ![c] = x], c, x)
<1> DEFINE k == [h EXCEPT ![c] = x]
<1>1. h = [o \in 1 .. Len(h) |-> h[o]]
  BY DEF HeapOK, IsSeq
<1>2. /\ k = [o \in 1 .. Len(h) |-> k[o]]
      /\ \A o \in 1 .. Len(h) : k[o] = IF o = c THEN x ELSE h[o]
  BY <1>1
<1> HIDE DEF k
<1>3. \A o \in 1 .. Len(h) : ObjectOK(p, h, o, h[o])
  BY DEF HeapOK
<1>4. \A o \in 1 .. Len(h) :
          /\ ObjectOK(p, h, o, k[o])
          /\ k[o].type = h[o].type
          /\ h[o].type = "closure" => k[o] = h[o]
  BY <1>2, <1>3
<1>5. HeapOK(p, k) /\ Keeps(h, k) /\ Len(k) = Len(h)
  <2>1. Changes(p, h, k)
    BY <1>2, <1>4 DEF Changes
  <2> QED  BY <2>1, HeapChanges
<1> QED  BY <1>2, <1>5 DEF Changed, k

-----------------------------------------------------------------------------
(* The parts of the state that refer to objects.                           *)

LEMMA StateKept ==
    ASSUME NEW h, IsSeq(h), NEW k, IsSeq(k), Keeps(h, k)
    PROVE  /\ \A c : CellsOK(h, c) => CellsOK(k, c)
           /\ \A g : GlobalsOK(h, g) => GlobalsOK(k, g)
           /\ \A fs : FramesOK(h, fs) => FramesOK(k, fs)
           /\ \A p, fs, f, i :
                  FramesOK(h, fs) /\ ChainOK(p, h, fs, f, i)
                  => ChainOK(p, k, fs, f, i)
<1>1. /\ \A t : Ref(h, t) \subseteq Ref(k, t)
      /\ \A v : Good(h, v) => Good(k, v)
  BY RefsKept
<1>2. \A c : CellsOK(h, c) => CellsOK(k, c)
  BY <1>1 DEF CellsOK
<1>3. \A g : GlobalsOK(h, g) => GlobalsOK(k, g)
  BY <1>1 DEF GlobalsOK
<1>4. \A fs : FramesOK(h, fs) => FramesOK(k, fs)
  BY <1>1 DEF FramesOK
<1>5. ASSUME NEW p, NEW fs, NEW f, NEW i,
             FramesOK(h, fs), ChainOK(p, h, fs, f, i)
      PROVE  ChainOK(p, k, fs, f, i)
  <2>1. Len(fs) \in Nat
    BY <1>5 DEF FramesOK, IsSeq
  <2>2. \A j \in 1 .. Len(fs) : k[fs[j].closure] = h[fs[j].closure]
    BY <1>5 DEF FramesOK, Keeps, Ref
  <2>3. ASSUME NEW j \in 1 .. Len(fs) - 1 PROVE LinkOK(p, k, fs, j)
    <3>1. LinkOK(p, h, fs, j)
      BY <1>5 DEF ChainOK
    <3>2. k[fs[j].closure] = h[fs[j].closure]
      BY <2>1, <2>2
    <3> QED  BY <3>1, <3>2 DEF LinkOK
  <2>4. Len(fs) > 0 /\ Len(fs) \in 1 .. Len(fs)
    BY <1>5, <2>1 DEF ChainOK
  <2>5. k[fs[Len(fs)].closure] = h[fs[Len(fs)].closure]
    BY <2>2, <2>4
  <2> QED  BY <1>5, <2>3, <2>5 DEF ChainOK
<1> QED  BY <1>2, <1>3, <1>4, <1>5

\* A step that opens and closes no upvalue.
LEMMA OpenKept ==
    ASSUME NEW h, IsSeq(h), NEW k, IsSeq(k), Len(h) <= Len(k),
           NEW s, OpenOK(h, s),
           \A o \in 1 .. Len(h) : /\ IsOpen(k, o) <=> IsOpen(h, o)
                                  /\ IsOpen(h, o) => k[o].slot = h[o].slot,
           \A o \in Len(h) + 1 .. Len(k) : ~ IsOpen(k, o)
    PROVE  OpenOK(k, s)
<1>1. Len(h) \in Nat /\ Len(k) \in Nat
  BY DEF IsSeq
<1>2. \A i \in 1 .. Len(s) : s[i] \in 1 .. Len(h) /\ IsOpen(h, s[i])
  BY DEF OpenOK
<1>3. \A i \in 1 .. Len(s) : k[s[i]].slot = h[s[i]].slot
  BY <1>2
<1>4. \A i, j \in 1 .. Len(s) : i < j => k[s[i]].slot > k[s[j]].slot
  BY <1>3 DEF OpenOK
<1>5. \A i \in 1 .. Len(s) : s[i] \in 1 .. Len(k) /\ IsOpen(k, s[i])
  BY <1>1, <1>2
<1>6. ASSUME NEW o \in 1 .. Len(k), IsOpen(k, o)
      PROVE  \E i \in 1 .. Len(s) : s[i] = o
  <2>1. o \in 1 .. Len(h)
    BY <1>1, <1>6
  <2>2. IsOpen(h, o)
    BY <1>6, <2>1
  <2> QED  BY <2>1, <2>2 DEF OpenOK
<1>7. IsSeq(s)
  BY DEF OpenOK
<1> QED  BY <1>4, <1>5, <1>6, <1>7 DEF OpenOK
-----------------------------------------------------------------------------
(* The search for a method.                                                *)

\* A round of the search of ClassObject::method.
FindAt(name, g, c) ==
    IF c = 0 THEN 0
    ELSE IF name \in DOMAIN heap[c].methods THEN heap[c].methods[name]
    ELSE g[heap[c].super]

LEMMA ClassIs ==
    ASSUME HeapOK(program, heap), NEW c \in Classes
    PROVE  /\ c \in 1 .. Len(heap) /\ c \in Nat \ {0}
           /\ \A m \in DOMAIN heap[c].methods :
                  heap[c].methods[m] \in Ref(heap, "closure")
           /\ heap[c].super \in Classes \cup {0}
           /\ heap[c].super \in Nat /\ heap[c].super < c
<1>1. IsSeq(heap) /\ \A o \in 1 .. Len(heap) : ObjectOK(program, heap, o, heap[o])
  BY DEF HeapOK
<1>2. Len(heap) \in Nat /\ DOMAIN heap = 1 .. Len(heap)
  BY <1>1, SeqIs
<1>3. c \in 1 .. Len(heap) /\ heap[c].type = "class"
  BY <1>2 DEF Classes
<1>4. ClassOK(heap, c, heap[c])
  BY <1>1, <1>3 DEF ObjectOK
<1>5. Ref(heap, "class") = Classes
  BY <1>2 DEF Ref, Classes
<1>6. Classes \subseteq Nat \ {0}
  BY <1>2 DEF Classes
<1>7. /\ \A m \in DOMAIN heap[c].methods :
             heap[c].methods[m] \in Ref(heap, "closure")
      /\ heap[c].super = 0 \/ (heap[c].super \in Classes /\ heap[c].super < c)
  BY <1>4, <1>5 DEF ClassOK
<1>8. c \in Nat \ {0}
  BY <1>6
<1>9. heap[c].super \in Nat /\ heap[c].super < c
  <2> DEFINE u == heap[c].super
  <2>1. u = 0 \/ (u \in Classes /\ u < c)
    BY <1>7
  <2> HIDE DEF u
  <2>2. CASE u = 0
    <3>1. 0 \in Nat /\ 0 < c
      BY <1>8
    <3> QED  BY <2>2, <3>1 DEF u
  <2>3. CASE u \in Classes /\ u < c
    BY <1>6, <2>3 DEF u
  <2> QED  BY <2>1, <2>2, <2>3
<1> QED  BY <1>3, <1>7, <1>8, <1>9

\* The definition of Method by recursion determines a function.
LEMMA SearchDefined ==
    ASSUME HeapOK(program, heap), NEW name
    PROVE  \E g : g = [c \in Classes \cup {0} |-> FindAt(name, g, c)]
<1> DEFINE Upto(n) == {c \in Classes \cup {0} : c <= n}
    G(g, n) == g = [c \in Upto(n) |-> FindAt(name, g, c)]
    Bad == {n \in Nat : ~ \E g : G(g, n)}
<1>0. \A c \in Classes : /\ c \in 1 .. Len(heap) /\ c \in Nat \ {0}
                         /\ heap[c].super \in Classes \cup {0}
                         /\ heap[c].super \in Nat /\ heap[c].super < c
  BY ClassIs
<1>1. Bad = {}
  <2> SUFFICES ASSUME Bad # {} PROVE FALSE
    OBVIOUS
  <2>1. PICK n \in Bad : \A m \in Bad : n <= m
    <3>1. Bad \subseteq Nat
      OBVIOUS
    <3> HIDE DEF Bad
    <3> QED  BY <3>1, Least
  <2>2. CASE n = 0
    <3>1. Upto(0) = {0}
      BY <1>0
    <3>2. G([c \in Upto(0) |-> 0], 0)
      BY <3>1 DEF FindAt
    <3> QED  BY <2>1, <2>2, <3>2
  <2>3. CASE n # 0
    <3>1. n - 1 \in Nat /\ n \in Nat /\ ~ (n <= n - 1)
      BY <2>1, <2>3
    <3>2. n - 1 \notin Bad
      <4> HIDE DEF Bad
      <4> QED  BY <2>1, <3>1
    <3>3. PICK g : G(g, n - 1)
      BY <3>1, <3>2
    <3> DEFINE h == [c \in Upto(n) |->
                        IF c = n THEN FindAt(name, g, n) ELSE g[c]]
    <3>4. ASSUME NEW c \in Upto(n)
          PROVE  h[c] = FindAt(name, h, c)
      <4> DEFINE d == heap[c].super
      <4>1. c \in Classes => d \in Upto(n) /\ d # n /\ d \in Upto(n - 1)
        <5>1. ASSUME c \in Classes
              PROVE  d \in Classes \cup {0} /\ d <= n - 1 /\ d <= n /\ d # n
          <6>1. d \in Nat /\ c \in Nat /\ d < c /\ c <= n
            BY <1>0, <5>1
          <6> QED  BY <1>0, <3>1, <5>1, <6>1
        <5> QED  BY <5>1
      <4>2. c \in Classes => h[d] = g[d]
        BY <4>1
      <4>3. FindAt(name, h, c) = FindAt(name, g, c)
        BY <4>2 DEF FindAt
      <4>4. CASE c = n
        BY <4>3, <4>4
      <4>5. CASE c # n
        <5>1. c \in Upto(n - 1)
          <6>1. c \in Nat /\ c <= n
            BY <1>0
          <6>2. c <= n - 1
            BY <3>1, <4>5, <6>1
          <6> QED  BY <6>2
        <5>2. g[c] = FindAt(name, g, c)
          BY <3>3, <5>1
        <5> QED  BY <4>3, <4>5, <5>2
      <4> QED  BY <4>4, <4>5
    <3>5. G(h, n)
      BY <3>4
    <3> QED  BY <3>5, <2>1
  <2> QED  BY <2>2, <2>3
<1>2. Len(heap) \in Nat
  BY DEF HeapOK, IsSeq
<1>3. Upto(Len(heap)) = Classes \cup {0}
  BY <1>0, <1>2
<1>4. PICK g : G(g, Len(heap))
  BY <1>1, <1>2
<1> QED  BY <1>3, <1>4

\* ClassObject::method gives a closure, or none.
LEMMA MethodFound ==
    ASSUME HeapOK(program, heap), NEW cls \in Classes, NEW name
    PROVE  Method(cls, name) = 0 \/ Method(cls, name) \in Ref(heap, "closure")
<1> DEFINE G(g) == g = [c \in Classes \cup {0} |-> FindAt(name, g, c)]
    find == CHOOSE g : G(g)
    Bad == {c \in Classes \cup {0} :
                find[c] # 0 /\ find[c] \notin Ref(heap, "closure")}
<1>1. G(find)
  <2>1. \E g : G(g)
    BY SearchDefined
  <2> HIDE DEF G
  <2> QED  BY <2>1
<1>2. Method(cls, name) = find[cls]
  BY DEF Method, FindAt
<1> HIDE DEF find
<1>3. \A c \in Classes \cup {0} : find[c] = FindAt(name, find, c)
  BY <1>1
<1>4. Bad = {}
  <2> SUFFICES ASSUME Bad # {} PROVE FALSE
    OBVIOUS
  <2>1. PICK n \in Bad : \A m \in Bad : n <= m
    <3>1. Bad \subseteq Nat
      BY ClassIs
    <3> HIDE DEF Bad
    <3> QED  BY <3>1, Least
  <2>2. n # 0
    BY <1>3, <2>1 DEF FindAt
  <2>3. /\ n \in Classes
        /\ \A m \in DOMAIN heap[n].methods :
               heap[n].methods[m] \in Ref(heap, "closure")
        /\ heap[n].super \in Classes \cup {0}
        /\ heap[n].super \in Nat /\ n \in Nat /\ heap[n].super < n
    BY <2>1, <2>2, ClassIs
  <2>4. name \notin DOMAIN heap[n].methods
    BY <1>3, <2>1, <2>2, <2>3 DEF FindAt
  <2>5. find[n] = find[heap[n].super]
    BY <1>3, <2>2, <2>3, <2>4 DEF FindAt
  <2>6. heap[n].super \in Bad
    BY <2>1, <2>3, <2>5
  <2>7. ~ (n <= heap[n].super)
    BY <2>3
  <2> HIDE DEF Bad
  <2> QED  BY <2>1, <2>6, <2>7
<1> QED  BY <1>2, <1>4
-----------------------------------------------------------------------------
(* The fields of objects.                                                  *)

LEMMA TypesOf ==
    ASSUME NEW p, NEW h, HeapOK(p, h), NEW o
    PROVE  /\ o \in Ref(h, "closure") => ClosureOK(p, h, h[o])
           /\ o \in Ref(h, "upvalue") => UpvalueOK(h, h[o])
           /\ o \in Ref(h, "instance") => InstanceOK(h, h[o])
           /\ o \in Ref(h, "method") => MethodOK(h, h[o])
           /\ o \in Ref(h, "class") => ClassOK(h, o, h[o])
<1>1. o \in 1 .. Len(h) => ObjectOK(p, h, o, h[o])
  BY DEF HeapOK
<1> QED  BY <1>1 DEF Ref, ObjectOK

\* An upvalue of the list reads a cell of the stack.
LEMMA OpenAre ==
    ASSUME NEW p, NEW h, HeapOK(p, h), NEW s, OpenOK(h, s),
           NEW i \in 1 .. Len(s)
    PROVE  s[i] \in Ref(h, "upvalue") /\ h[s[i]].slot \in 1 .. MaxStack
<1>1. s[i] \in 1 .. Len(h) /\ h[s[i]].type = "upvalue" /\ h[s[i]].slot > 0
  BY DEF OpenOK, IsOpen
<1>2. s[i] \in Ref(h, "upvalue")
  BY <1>1 DEF Ref
<1>3. UpvalueOK(h, h[s[i]])
  BY <1>2, TypesOf
<1> DEFINE c == h[s[i]].slot
<1>4. c \in 0 .. MaxStack /\ c > 0
  BY <1>1, <1>3 DEF UpvalueOK
<1> HIDE DEF c
<1>5. c \in 1 .. MaxStack
  BY <1>4, VirtualMachineAssumption
<1> QED  BY <1>2, <1>5 DEF c

-----------------------------------------------------------------------------
(* Upvalues that are closed.                                               *)

LEMMA LeadingIs ==
    ASSUME IsSeq(open), NEW s
    PROVE  \E n \in 0 .. Len(open) :
               Leading(s) = 1 .. n /\ Cardinality(Leading(s)) = n
<1> DEFINE m == Len(open)
    Stop == {n \in 0 .. m : n + 1 \notin Leading(s)}
<1>1. m \in Nat /\ DOMAIN open = 1 .. m
  BY SeqIs
<1>2. Leading(s) = {i \in 1 .. m : \A j \in 1 .. i : heap[open[j]].slot >= s}
  BY <1>1 DEF Leading
<1> HIDE DEF m
<1>3. m \in Stop /\ Stop \subseteq Nat
  BY <1>1, <1>2
<1>4. PICK n \in Stop : \A x \in Stop : n <= x
  <2> HIDE DEF Stop
  <2> QED  BY <1>3, Least
<1>5. \A i \in 1 .. n : i \in Leading(s)
  <2> SUFFICES ASSUME NEW i \in 1 .. n PROVE i \in Leading(s)
    OBVIOUS
  <2>1. i - 1 \in 0 .. m /\ ~ (n <= i - 1) /\ i - 1 + 1 = i
    BY <1>1
  <2>2. i - 1 \notin Stop
    <3> HIDE DEF Stop
    <3> QED  BY <1>4, <2>1
  <2> QED  BY <2>1, <2>2
<1>6. ASSUME NEW i \in Leading(s) PROVE i \in 1 .. n
  <2>1. i \in 1 .. m /\ \A j \in 1 .. i : heap[open[j]].slot >= s
    BY <1>2
  <2>2. n + 1 \notin Leading(s) /\ n \in 0 .. m
    BY <1>4
  <2>3. CASE i > n
    <3> DEFINE k == n + 1
    <3>1. k \in 1 .. i /\ k \in 1 .. m
      BY <1>1, <2>1, <2>2, <2>3
    <3>2. \A j \in 1 .. k : j \in 1 .. i
      BY <1>1, <2>1, <2>2, <3>1
    <3> HIDE DEF k
    <3>3. k \in Leading(s)
      BY <1>2, <2>1, <3>1, <3>2
    <3> QED  BY <2>2, <3>3 DEF k
  <2>4. CASE i <= n
    BY <1>1, <2>1, <2>2, <2>4
  <2> QED  BY <1>1, <2>1, <2>2, <2>3, <2>4
<1>7. Leading(s) = 1 .. n
  BY <1>5, <1>6
<1>8. n \in Nat /\ n \in 0 .. m
  BY <1>1, <1>4
<1>9. Cardinality(1 .. n) = n
  BY <1>8, FS_Interval
<1> QED  BY <1>7, <1>8, <1>9 DEF m

\* close_upvalues leaves a list that is right, and objects that are right.
LEMMA CloseIs ==
    ASSUME HeapOK(program, heap), CellsOK(heap, cells), OpenOK(heap, open),
           NEW s, CloseFrom(s)
    PROVE  /\ HeapOK(program, heap') /\ Keeps(heap, heap')
           /\ OpenOK(heap', open')
<1> DEFINE m == Len(open)
    closing == {open[i] : i \in Leading(s)}
    closed(o) == [type |-> "upvalue", slot |-> 0, val |-> cells[heap[o].slot]]
<1>1. IsSeq(heap) /\ Len(heap) \in Nat /\ DOMAIN heap = 1 .. Len(heap)
  BY SeqIs DEF HeapOK
<1>2. IsSeq(open) /\ m \in Nat /\ DOMAIN open = 1 .. m
  BY SeqIs DEF OpenOK
<1>3. PICK n \in 0 .. m : Leading(s) = 1 .. n /\ Cardinality(Leading(s)) = n
  BY <1>2, LeadingIs
<1>4. \A i \in 1 .. m : open[i] \in Ref(heap, "upvalue")
                        /\ heap[open[i]].slot \in 1 .. MaxStack
  BY OpenAre
<1>5. /\ heap' = [o \in 1 .. Len(heap) |->
                     IF o \in closing THEN closed(o) ELSE heap[o]]
      /\ open' = SubSeq(open, n + 1, m)
  BY <1>1, <1>3 DEF CloseFrom
<1>6. closing = {open[i] : i \in 1 .. n}
  BY <1>3
<1> HIDE DEF closing
<1>7. \A o \in closing : /\ o \in Ref(heap, "upvalue")
                         /\ heap[o].slot \in 1 .. MaxStack
  BY <1>2, <1>3, <1>4, <1>6
<1>8. Changes(program, heap, heap')
  <2>1. heap' = [o \in 1 .. Len(heap) |-> heap'[o]]
    BY <1>5
  <2>2. ASSUME NEW o \in 1 .. Len(heap)
        PROVE  /\ ObjectOK(program, heap, o, heap'[o])
               /\ heap'[o].type = heap[o].type
               /\ heap[o].type = "closure" => heap'[o] = heap[o]
    <3>1. CASE o \in closing
      <4>1. heap'[o] = closed(o) /\ heap[o].type = "upvalue"
        BY <1>5, <1>7, <3>1 DEF Ref
      <4>2. Good(heap, cells[heap[o].slot])
        BY <1>7, <3>1 DEF CellsOK
      <4>3. UpvalueOK(heap, closed(o)) /\ closed(o).type = "upvalue"
        BY <4>2, VirtualMachineAssumption DEF UpvalueOK
      <4> QED  BY <4>1, <4>3 DEF ObjectOK
    <3>2. CASE o \notin closing
      <4>1. heap'[o] = heap[o]
        BY <1>5, <3>2
      <4> QED  BY <4>1 DEF HeapOK
    <3> QED  BY <3>1, <3>2
  <2> QED  BY <2>1, <2>2 DEF Changes
<1>9. HeapOK(program, heap') /\ Keeps(heap, heap') /\ Len(heap') = Len(heap)
  BY <1>8, HeapChanges
<1>10. /\ IsSeq(open') /\ Len(open') = m - n
       /\ \A i \in 1 .. m - n : open'[i] = open[n + i]
  <2>1. /\ n + 1 \in Nat \ {0} /\ m <= m /\ n + 1 <= m + 1
        /\ m - (n + 1) + 1 = m - n /\ \A i \in 1 .. m - n : n + 1 + i - 1 = n + i
    BY <1>2
  <2> DEFINE k == n + 1
  <2>2. k \in Nat \ {0} /\ m <= m /\ k <= m + 1
    BY <2>1
  <2> HIDE DEF k
  <2>3. /\ IsSeq(SubSeq(open, k, m))
        /\ Len(SubSeq(open, k, m)) = m - k + 1
        /\ \A i \in 1 .. m - k + 1 : SubSeq(open, k, m)[i] = open[k + i - 1]
    BY <1>2, <2>2, CutIs
  <2> QED  BY <1>5, <2>1, <2>3 DEF k
<1>11. \A i, j \in 1 .. m : i < j => heap[open[i]].slot > heap[open[j]].slot
  BY DEF OpenOK
<1>12. \A i \in n + 1 .. m : open[i] \notin closing
  <2> SUFFICES ASSUME NEW i \in n + 1 .. m, open[i] \in closing PROVE FALSE
    OBVIOUS
  <2>1. PICK j \in 1 .. n : open[i] = open[j]
    BY <1>6
  <2>2. i \in 1 .. m /\ j \in 1 .. m /\ j < i
    BY <1>2
  <2>3. heap[open[j]].slot > heap[open[i]].slot
    BY <1>11, <2>2
  <2>4. heap[open[i]].slot \in Int
    BY <1>4, <2>2
  <2> QED  BY <2>1, <2>3, <2>4
<1>13. \A i \in n + 1 .. m : heap'[open[i]] = heap[open[i]]
  <2> SUFFICES ASSUME NEW i \in n + 1 .. m PROVE heap'[open[i]] = heap[open[i]]
    OBVIOUS
  <2>1. i \in 1 .. m
    BY <1>2
  <2>2. open[i] \in 1 .. Len(heap)
    BY <1>4, <2>1 DEF Ref
  <2> QED  BY <1>5, <1>12, <2>2
<1>14. \A i \in 1 .. m - n : n + i \in n + 1 .. m /\ n + i \in 1 .. m
  BY <1>2
<1> DEFINE at(i) == n + i
<1>15. \A i \in 1 .. m - n : /\ at(i) \in n + 1 .. m /\ at(i) \in 1 .. m
                             /\ open'[i] = open[at(i)]
                             /\ heap'[open'[i]] = heap[open[at(i)]]
  BY <1>10, <1>13, <1>14
<1>16. \A i, j \in 1 .. m - n : i < j => at(i) < at(j)
  BY <1>2
<1> HIDE DEF at
<1>17. \A i, j \in 1 .. Len(open') :
           i < j => heap'[open'[i]].slot > heap'[open'[j]].slot
  <2> SUFFICES ASSUME NEW i \in 1 .. m - n, NEW j \in 1 .. m - n, i < j
               PROVE  heap'[open'[i]].slot > heap'[open'[j]].slot
    BY <1>10
  <2>1. at(i) \in 1 .. m /\ at(j) \in 1 .. m /\ at(i) < at(j)
    BY <1>15, <1>16
  <2>2. heap[open[at(i)]].slot > heap[open[at(j)]].slot
    BY <1>11, <2>1
  <2>3. /\ heap'[open'[i]] = heap[open[at(i)]]
        /\ heap'[open'[j]] = heap[open[at(j)]]
    BY <1>15
  <2> QED  BY <2>2, <2>3
<1>18. \A i \in 1 .. Len(open') :
           open'[i] \in 1 .. Len(heap') /\ IsOpen(heap', open'[i])
  BY <1>9, <1>10, <1>15 DEF OpenOK, IsOpen
<1>19. ASSUME NEW o \in 1 .. Len(heap'), IsOpen(heap', o)
       PROVE  \E i \in 1 .. Len(open') : open'[i] = o
  <2>1. o \in 1 .. Len(heap) /\ o \notin closing
    <3>1. o \in closing => heap'[o].slot = 0
      BY <1>5, <1>9
    <3> QED  BY <1>9, <1>19, <3>1 DEF IsOpen
  <2>2. IsOpen(heap, o)
    <3>1. heap'[o] = heap[o]
      BY <1>5, <2>1
    <3> QED  BY <1>19, <3>1 DEF IsOpen
  <2>3. PICK i \in 1 .. m : open[i] = o
    BY <2>1, <2>2 DEF OpenOK
  <2>4. i \notin 1 .. n
    BY <1>6, <2>1, <2>3
  <2> DEFINE j == i - n
  <2>5. j \in 1 .. m - n /\ n + j = i
    BY <1>2, <2>4
  <2>6. open'[j] = o
    BY <1>10, <2>3, <2>5
  <2> QED  BY <1>10, <2>5, <2>6
<1> QED  BY <1>9, <1>10, <1>17, <1>18, <1>19 DEF OpenOK
-----------------------------------------------------------------------------
(* The capture of upvalues.                                                *)

\* Objects that are added while a closure is made: open upvalues only.
FreshUpvalue(x) ==
    /\ x = [type |-> "upvalue", slot |-> x.slot, val |-> Nil]
    /\ x.slot \in 1 .. MaxStack
Extends(h, k) ==
    /\ Len(h) <= Len(k)
    /\ \A o \in 1 .. Len(h) : k[o] = h[o]
    /\ \A o \in Len(h) + 1 .. Len(k) : FreshUpvalue(k[o])

SlotsOK(h, s) == \A i \in 1 .. Len(s) : h[s[i]].slot \in 1 .. MaxStack

\* What the loop over the upvalues of function f has after k rounds.
CapturedOK(f, k, acc) ==
    /\ acc = [heap |-> acc.heap, open |-> acc.open, ups |-> acc.ups]
    /\ IsSeq(acc.heap) /\ Extends(WithClosure(f).heap, acc.heap)
    /\ OpenOK(acc.heap, acc.open) /\ SlotsOK(acc.heap, acc.open)
    /\ IsSeq(acc.ups) /\ Len(acc.ups) = k
    /\ \A j \in 1 .. k : acc.ups[j] \in Ref(acc.heap, "upvalue")

LEMMA ExtendsTransitive ==
    ASSUME NEW h, IsSeq(h), NEW k, IsSeq(k), NEW l, IsSeq(l),
           Extends(h, k), Extends(k, l)
    PROVE  Extends(h, l)
<1>1. Len(h) \in Nat /\ Len(k) \in Nat /\ Len(l) \in Nat
      /\ Len(h) <= Len(k) /\ Len(k) <= Len(l)
  BY DEF IsSeq, Extends
<1>2. \A o \in 1 .. Len(h) : l[o] = h[o]
  BY <1>1 DEF Extends
<1>3. ASSUME NEW o \in Len(h) + 1 .. Len(l) PROVE FreshUpvalue(l[o])
  <2>1. CASE o <= Len(k)
    <3>1. o \in Len(h) + 1 .. Len(k) /\ o \in 1 .. Len(k)
      BY <1>1, <2>1
    <3> QED  BY <3>1 DEF Extends
  <2>2. CASE o > Len(k)
    <3>1. o \in Len(k) + 1 .. Len(l)
      BY <1>1, <2>2
    <3> QED  BY <3>1 DEF Extends
  <2> QED  BY <1>1, <2>1, <2>2
<1> QED  BY <1>1, <1>2, <1>3 DEF Extends

\* The search divides the list into the upvalues of higher cells and the others.
LEMMA InsertionPointIs ==
    ASSUME NEW acc, NEW s \in 1 .. MaxStack,
           OpenOK(acc.heap, acc.open), SlotsOK(acc.heap, acc.open)
    PROVE  /\ InsertionPoint(acc, s) \in 1 .. Len(acc.open) + 1
           /\ \A j \in 1 .. Len(acc.open) :
                  j < InsertionPoint(acc, s) <=> acc.heap[acc.open[j]].slot > s
<1> DEFINE m == Len(acc.open)
    slot(j) == acc.heap[acc.open[j]].slot
    At == {j \in 1 .. m : slot(j) <= s}
    i == InsertionPoint(acc, s)
<1>1. m \in Nat /\ DOMAIN acc.open = 1 .. m
  BY SeqIs DEF OpenOK
<1>2. \A j \in 1 .. m : slot(j) \in Int
  BY DEF SlotsOK
<1>3. i = IF At = {} THEN m + 1 ELSE Min(At)
  BY <1>1 DEF InsertionPoint
<1>4. \A j, k \in 1 .. m : j < k => slot(j) > slot(k)
  BY DEF OpenOK
<1>5. s \in Int
  OBVIOUS
<1> HIDE DEF m, slot, i
<1>6. CASE At = {}
  BY <1>1, <1>2, <1>3, <1>5, <1>6 DEF m, slot, i
<1>7. CASE At # {}
  <2>1. At \subseteq Nat
    BY <1>1
  <2>2. \E x \in At : \A y \in At : x <= y
    <3> HIDE DEF At
    <3> QED  BY <1>7, <2>1, Least
  <2>3. i \in At /\ \A y \in At : i <= y
    <3> HIDE DEF At
    <3> QED  BY <1>3, <1>7, <2>2 DEF Min
  <2>4. ASSUME NEW j \in 1 .. m PROVE j < i <=> slot(j) > s
    <3>1. i \in 1 .. m /\ slot(i) <= s /\ slot(i) \in Int /\ slot(j) \in Int
      BY <1>2, <2>3
    <3>2. ASSUME j < i PROVE slot(j) > s
      <4>1. j \notin At
        <5>1. ~ (i <= j)
          BY <1>1, <3>1, <3>2
        <5> QED  BY <2>3, <5>1
      <4> QED  BY <1>5, <3>1, <4>1
    <3>3. ASSUME ~ (j < i) PROVE ~ (slot(j) > s)
      <4>1. j = i \/ i < j
        BY <1>1, <3>1, <3>3
      <4>2. slot(j) <= slot(i)
        BY <1>4, <3>1, <4>1
      <4> QED  BY <1>5, <3>1, <4>2
    <3> QED  BY <3>2, <3>3
  <2>5. i \in 1 .. m + 1
    BY <1>1, <2>3
  <2> QED  BY <2>4, <2>5 DEF m, slot, i
<1> QED  BY <1>6, <1>7

\* A new upvalue at its place in the list.
LEMMA InsertedIs ==
    ASSUME NEW h, IsSeq(h), NEW l, OpenOK(h, l), SlotsOK(h, l),
           NEW s \in 1 .. MaxStack, NEW i \in 1 .. Len(l) + 1,
           \A j \in 1 .. Len(l) : j < i => h[l[j]].slot > s,
           \A j \in 1 .. Len(l) : i <= j => h[l[j]].slot < s,
           NEW k, k = Append(h, [type |-> "upvalue", slot |-> s, val |-> Nil]),
           NEW r, r = InsertAt(l, i, Len(h) + 1)
    PROVE  /\ IsSeq(k) /\ Extends(h, k) /\ Len(h) + 1 \in Ref(k, "upvalue")
           /\ OpenOK(k, r) /\ SlotsOK(k, r)
<1> DEFINE n == Len(h)
    m == Len(l)
    x == [type |-> "upvalue", slot |-> s, val |-> Nil]
<1>1. n \in Nat /\ m \in Nat /\ s \in Int /\ i \in Nat
  BY DEF IsSeq, OpenOK
<1>2. /\ IsSeq(k) /\ Len(k) = n + 1 /\ k[n + 1] = x
      /\ \A o \in 1 .. n : k[o] = h[o]
  BY AppendIs
<1>3. /\ IsSeq(r) /\ Len(r) = m + 1
      /\ \A j \in 1 .. m + 1 :
             r[j] = IF j < i THEN l[j] ELSE IF j = i THEN n + 1 ELSE l[j - 1]
  BY InsertIs DEF OpenOK
<1>4. x.type = "upvalue" /\ x.slot = s /\ FreshUpvalue(x)
  BY DEF FreshUpvalue
<1> HIDE DEF x
<1>5. Extends(h, k)
  <2>1. n <= n + 1 /\ \A o \in n + 1 .. n + 1 : o = n + 1
    BY <1>1
  <2> QED  BY <1>2, <1>4, <2>1 DEF Extends
<1>6. n + 1 \in Ref(k, "upvalue")
  <2>1. n + 1 \in 1 .. n + 1
    BY <1>1
  <2> QED  BY <1>2, <1>4, <2>1 DEF Ref
<1>7. \A j \in 1 .. m : /\ l[j] \in 1 .. n /\ IsOpen(h, l[j])
                        /\ h[l[j]].slot \in 1 .. MaxStack
                        /\ k[l[j]] = h[l[j]]
  BY <1>2 DEF OpenOK, SlotsOK
<1> HIDE DEF n, m
\* Where the elements of r come from.
<1> DEFINE from(j) == IF j < i THEN j ELSE j - 1
<1>8. ASSUME NEW j \in 1 .. m + 1, j # i
      PROVE  from(j) \in 1 .. m /\ r[j] = l[from(j)] /\ (j < i <=> from(j) < i)
  <2>1. CASE j < i
    <3>1. j \in 1 .. m
      BY <1>1, <2>1 DEF m
    <3> QED  BY <1>3, <2>1, <3>1
  <2>2. CASE ~ (j < i)
    <3>1. j - 1 \in 1 .. m /\ ~ (j - 1 < i)
      BY <1>1, <1>8, <2>2
    <3> QED  BY <1>3, <1>8, <2>2, <3>1
  <2> QED  BY <2>1, <2>2
<1>9. r[i] = n + 1 /\ i \in 1 .. m + 1
  BY <1>1, <1>3 DEF m
<1>10. ASSUME NEW a \in 1 .. m + 1, NEW b \in 1 .. m + 1, a < b
       PROVE  k[r[a]].slot > k[r[b]].slot
  <2>1. CASE a = i
    <3>1. b # i /\ ~ (b < i) /\ i <= from(b)
      BY <1>1, <1>10, <2>1
    <3>2. from(b) \in 1 .. m /\ r[b] = l[from(b)]
      BY <1>8, <3>1
    <3>3. h[l[from(b)]].slot < s
      BY <3>1, <3>2 DEF m
    <3>4. k[r[b]].slot < s /\ k[r[a]].slot = s /\ k[r[b]].slot \in Int
      BY <1>2, <1>4, <1>7, <1>9, <2>1, <3>2, <3>3 DEF n
    <3> QED  BY <1>1, <3>4
  <2>2. CASE b = i
    <3>1. a # i /\ a < i
      BY <1>1, <1>10, <2>2
    <3>2. from(a) \in 1 .. m /\ r[a] = l[from(a)] /\ from(a) < i
      BY <1>8, <3>1
    <3>3. h[l[from(a)]].slot > s
      BY <3>2 DEF m
    <3>4. k[r[a]].slot > s /\ k[r[b]].slot = s /\ k[r[a]].slot \in Int
      BY <1>2, <1>4, <1>7, <1>9, <2>2, <3>2, <3>3 DEF n
    <3> QED  BY <3>4
  <2>3. CASE a # i /\ b # i
    <3>1. /\ from(a) \in 1 .. m /\ r[a] = l[from(a)]
          /\ from(b) \in 1 .. m /\ r[b] = l[from(b)]
      BY <1>8, <2>3
    <3>2. from(a) < from(b)
      BY <1>1, <1>10, <2>3
    <3>3. h[l[from(a)]].slot > h[l[from(b)]].slot
      <4> HIDE DEF from
      <4> QED  BY <3>1, <3>2 DEF OpenOK, m
    <3> QED  BY <1>7, <3>1, <3>3
  <2> QED  BY <2>1, <2>2, <2>3
<1>11. ASSUME NEW j \in 1 .. m + 1
       PROVE  /\ r[j] \in 1 .. n + 1 /\ IsOpen(k, r[j])
              /\ k[r[j]].slot \in 1 .. MaxStack
  <2>1. CASE j = i
    <3>1. k[r[j]] = x /\ r[j] \in 1 .. n + 1
      BY <1>1, <1>2, <1>9, <2>1 DEF n
    <3>2. s > 0
      BY VirtualMachineAssumption
    <3> QED  BY <1>4, <3>1, <3>2 DEF IsOpen
  <2>2. CASE j # i
    <3>1. from(j) \in 1 .. m /\ r[j] = l[from(j)]
      BY <1>8, <2>2
    <3> HIDE DEF from
    <3>2. /\ r[j] \in 1 .. n /\ IsOpen(h, r[j]) /\ k[r[j]] = h[r[j]]
          /\ h[r[j]].slot \in 1 .. MaxStack
      BY <1>7, <3>1
    <3>3. r[j] \in 1 .. n + 1
      BY <1>1, <3>2
    <3> QED  BY <3>2, <3>3 DEF IsOpen
  <2> QED  BY <2>1, <2>2
<1>12. ASSUME NEW o \in 1 .. n + 1, IsOpen(k, o)
       PROVE  \E j \in 1 .. m + 1 : r[j] = o
  <2>1. CASE o = n + 1
    BY <1>9, <2>1
  <2>2. CASE o # n + 1
    <3>1. o \in 1 .. n
      BY <1>1, <2>2
    <3>2. IsOpen(h, o)
      BY <1>2, <1>12, <3>1 DEF IsOpen, n
    <3>3. PICK a \in 1 .. m : l[a] = o
      BY <3>1, <3>2 DEF OpenOK, n, m
    <3>4. CASE a < i
      <4>1. a \in 1 .. m + 1 /\ r[a] = l[a]
        BY <1>1, <1>3, <3>4 DEF m
      <4> QED  BY <3>3, <4>1
    <3>5. CASE ~ (a < i)
      <4> DEFINE b == a + 1
      <4>1. b \in 1 .. m + 1 /\ ~ (b < i) /\ b # i /\ b - 1 = a
        BY <1>1, <3>5
      <4>2. r[b] = l[b - 1]
        <5> HIDE DEF b
        <5> QED  BY <1>3, <4>1 DEF m
      <4> QED  BY <3>3, <4>1, <4>2
    <3> QED  BY <3>4, <3>5
  <2> QED  BY <2>1, <2>2
<1>13. OpenOK(k, r)
  BY <1>2, <1>3, <1>10, <1>11, <1>12 DEF OpenOK, n, m
<1>14. SlotsOK(k, r)
  BY <1>3, <1>11 DEF SlotsOK, m
<1> QED  BY <1>2, <1>5, <1>6, <1>13, <1>14 DEF n

\* One round of the loop.
LEMMA CaptureIs ==
    ASSUME NEW f, NEW k \in Nat, NEW acc, CapturedOK(f, k, acc),
           IsSeq(WithClosure(f).heap), NEW s \in 1 .. MaxStack
    PROVE  CapturedOK(f, k + 1, Capture(acc, s))
<1> DEFINE i == InsertionPoint(acc, s)
    m == Len(acc.open)
    r == Capture(acc, s)
    slot(j) == acc.heap[acc.open[j]].slot
<1>1. /\ IsSeq(acc.heap) /\ IsSeq(acc.ups) /\ Len(acc.ups) = k
      /\ Extends(WithClosure(f).heap, acc.heap)
      /\ OpenOK(acc.heap, acc.open) /\ SlotsOK(acc.heap, acc.open)
      /\ acc = [heap |-> acc.heap, open |-> acc.open, ups |-> acc.ups]
      /\ \A j \in 1 .. k : acc.ups[j] \in Ref(acc.heap, "upvalue")
  BY DEF CapturedOK
<1>2. /\ i \in 1 .. m + 1
      /\ \A j \in 1 .. m : j < i <=> slot(j) > s
  BY <1>1, InsertionPointIs
<1>3. m \in Nat /\ DOMAIN acc.open = 1 .. m
  BY <1>1, SeqIs DEF OpenOK
<1>4. \A j \in 1 .. m : /\ slot(j) \in Int
                        /\ acc.open[j] \in Ref(acc.heap, "upvalue")
  BY <1>1 DEF SlotsOK, OpenOK, IsOpen, Ref
<1>5. CASE i \in DOMAIN acc.open /\ slot(i) = s
  <2> DEFINE ups == Append(acc.ups, acc.open[i])
  <2>1. r = [heap |-> acc.heap, open |-> acc.open, ups |-> ups]
    <3>1. r = [acc EXCEPT !.ups = Append(@, acc.open[i])]
      BY <1>5 DEF Capture
    <3> QED  BY <1>1, <3>1
  <2>2. /\ IsSeq(ups) /\ Len(ups) = k + 1 /\ ups[k + 1] = acc.open[i]
        /\ \A j \in 1 .. k : ups[j] = acc.ups[j]
    BY <1>1, AppendIs
  <2>3. acc.open[i] \in Ref(acc.heap, "upvalue")
    BY <1>3, <1>4, <1>5
  <2> HIDE DEF ups, r, i
  <2>4. \A j \in 1 .. k + 1 : ups[j] \in Ref(acc.heap, "upvalue")
    BY <1>1, <2>2, <2>3
  <2>5. CapturedOK(f, k + 1, r)
    BY <1>1, <2>1, <2>2, <2>4 DEF CapturedOK
  <2> QED  BY <2>5 DEF r
<1>6. CASE ~ (i \in DOMAIN acc.open /\ slot(i) = s)
  <2> DEFINE new == Len(acc.heap) + 1
      h == Append(acc.heap, [type |-> "upvalue", slot |-> s, val |-> Nil])
      l == InsertAt(acc.open, i, new)
      ups == Append(acc.ups, new)
  <2>1. r = [heap |-> h, open |-> l, ups |-> ups]
    BY <1>6 DEF Capture
  <2>2. ASSUME NEW j \in 1 .. m, i <= j PROVE slot(j) < s
    <3>1. ~ (j < i) /\ i \in Int
      BY <1>2, <1>3, <2>2
    <3>2. slot(j) <= s
      BY <1>2, <1>4, <3>1
    <3>3. CASE j = i
      BY <1>3, <1>4, <1>6, <3>2, <3>3
    <3>4. CASE i < j
      <4>1. i \in 1 .. m /\ i < j
        BY <1>2, <1>3, <3>4
      <4>2. slot(i) > slot(j)
        BY <1>1, <4>1 DEF OpenOK
      <4>3. slot(i) <= s /\ slot(i) \in Int /\ slot(j) \in Int
        <5>1. ~ (i < i)
          BY <4>1
        <5> QED  BY <1>2, <1>4, <4>1, <5>1
      <4> QED  BY <4>2, <4>3
    <3> QED  BY <2>2, <3>1, <3>3, <3>4
  <2>3. \A j \in 1 .. m : j < i => slot(j) > s
    BY <1>2
  <2>4. /\ IsSeq(h) /\ Extends(acc.heap, h) /\ new \in Ref(h, "upvalue")
        /\ OpenOK(h, l) /\ SlotsOK(h, l)
    <3> HIDE DEF i
    <3> QED  BY <1>1, <1>2, <2>2, <2>3, InsertedIs
  <2>5. /\ IsSeq(ups) /\ Len(ups) = k + 1 /\ ups[k + 1] = new
        /\ \A j \in 1 .. k : ups[j] = acc.ups[j]
    BY <1>1, AppendIs
  <2>6. Extends(WithClosure(f).heap, h)
    <3> HIDE DEF h
    <3> QED  BY <1>1, <2>4, ExtendsTransitive
  <2>7. \A o \in Ref(acc.heap, "upvalue") : o \in Ref(h, "upvalue")
    <3> HIDE DEF h
    <3>1. 1 .. Len(acc.heap) \subseteq 1 .. Len(h)
      BY <1>1, <2>4 DEF Extends, IsSeq
    <3> QED  BY <2>4, <3>1 DEF Ref, Extends
  <2> HIDE DEF h, l, ups, new, r, i
  <2>8. \A j \in 1 .. k + 1 : ups[j] \in Ref(h, "upvalue")
    BY <1>1, <2>4, <2>5, <2>7
  <2>9. CapturedOK(f, k + 1, r)
    BY <2>1, <2>4, <2>5, <2>6, <2>8 DEF CapturedOK
  <2> QED  BY <2>9 DEF r
<1> QED  BY <1>5, <1>6

LEMMA CaptureOneIs ==
    ASSUME NEW f, NEW k \in Nat, NEW acc, CapturedOK(f, k, acc),
           IsSeq(heap), NEW u,
           u.is_local => Frame.slot + u.index \in 1 .. MaxStack,
           ~ u.is_local => Upvalue(u.index) \in Ref(heap, "upvalue")
    PROVE  CapturedOK(f, k + 1, CaptureOne(acc, u))
<1> DEFINE x == [type |-> "closure", fn |-> f, ups |-> <<>>]
    h == WithClosure(f).heap
<1>1. h = Append(heap, x)
  BY DEF WithClosure
<1>2. /\ IsSeq(h) /\ Len(h) = Len(heap) + 1
      /\ \A o \in 1 .. Len(heap) : h[o] = heap[o]
  BY <1>1, AppendIs
<1>3. CASE u.is_local
  BY <1>2, <1>3, CaptureIs DEF CaptureOne
<1>4. CASE ~ u.is_local
  <2> DEFINE up == Upvalue(u.index)
      ups == Append(acc.ups, up)
      r == CaptureOne(acc, u)
  <2>1. /\ IsSeq(acc.heap) /\ IsSeq(acc.ups) /\ Len(acc.ups) = k
        /\ Extends(h, acc.heap)
        /\ OpenOK(acc.heap, acc.open) /\ SlotsOK(acc.heap, acc.open)
        /\ acc = [heap |-> acc.heap, open |-> acc.open, ups |-> acc.ups]
        /\ \A j \in 1 .. k : acc.ups[j] \in Ref(acc.heap, "upvalue")
    BY DEF CapturedOK
  <2>2. r = [heap |-> acc.heap, open |-> acc.open, ups |-> ups]
    <3>1. r = [acc EXCEPT !.ups = Append(@, up)]
      BY <1>4 DEF CaptureOne
    <3> HIDE DEF up
    <3> QED  BY <2>1, <3>1
  <2>3. up \in Ref(acc.heap, "upvalue")
    <3> HIDE DEF h
    <3>1. up \in 1 .. Len(heap) /\ heap[up].type = "upvalue"
      BY <1>4 DEF Ref
    <3> HIDE DEF up
    <3>2. up \in 1 .. Len(h) /\ h[up] = heap[up] /\ up \in 1 .. Len(acc.heap)
      BY <1>2, <2>1, <3>1 DEF IsSeq, Extends
    <3> QED  BY <2>1, <3>1, <3>2 DEF Extends, Ref
  <2> HIDE DEF h, up, r
  <2>4. /\ IsSeq(ups) /\ Len(ups) = k + 1 /\ ups[k + 1] = up
        /\ \A j \in 1 .. k : ups[j] = acc.ups[j]
    BY <2>1, AppendIs
  <2> HIDE DEF ups
  <2>5. \A j \in 1 .. k + 1 : ups[j] \in Ref(acc.heap, "upvalue")
    BY <2>1, <2>3, <2>4
  <2>6. CapturedOK(f, k + 1, r)
    BY <2>1, <2>2, <2>4, <2>5 DEF CapturedOK, h
  <2> QED  BY <2>6 DEF r
<1> QED  BY <1>3, <1>4

\* A round of the loop of execute_create_closure.
Round(f, g, k) ==
    IF k = 0 THEN WithClosure(f) ELSE CaptureOne(g[k - 1], program[f].ups[k])

\* The definition of Captured by recursion determines a function.
LEMMA CapturedDefined ==
    ASSUME NEW f, Len(program[f].ups) \in Nat
    PROVE  Captured(f) =
               [k \in 0 .. Len(program[f].ups) |-> Round(f, Captured(f), k)]
<1> DEFINE max == Len(program[f].ups)
    G(g, n) == g = [k \in 0 .. n |-> Round(f, g, k)]
    Bad == {n \in 0 .. max : ~ \E g : G(g, n)}
<1>1. Bad = {}
  <2> SUFFICES ASSUME Bad # {} PROVE FALSE
    OBVIOUS
  <2>1. PICK n \in Bad : \A m \in Bad : n <= m
    <3>1. Bad \subseteq Nat
      OBVIOUS
    <3> HIDE DEF Bad
    <3> QED  BY <3>1, Least
  <2>2. CASE n = 0
    <3>1. G([k \in 0 .. 0 |-> WithClosure(f)], 0)
      BY DEF Round
    <3> QED  BY <2>1, <2>2, <3>1
  <2>3. CASE n # 0
    <3>1. n - 1 \in 0 .. max /\ n \in Nat /\ ~ (n <= n - 1)
      BY <2>1, <2>3
    <3>2. n - 1 \notin Bad
      <4> HIDE DEF Bad
      <4> QED  BY <2>1, <3>1
    <3>3. PICK g : G(g, n - 1)
      BY <3>1, <3>2
    <3> DEFINE h == [k \in 0 .. n |-> IF k = n THEN Round(f, g, n) ELSE g[k]]
    <3>4. ASSUME NEW k \in 0 .. n PROVE h[k] = Round(f, h, k)
      <4>1. k # 0 => h[k - 1] = g[k - 1]
        <5>1. k # 0 => k - 1 \in 0 .. n /\ k - 1 # n
          BY <3>1
        <5> QED  BY <5>1
      <4>2. Round(f, h, k) = Round(f, g, k)
        BY <4>1 DEF Round
      <4>3. CASE k = n
        BY <4>2, <4>3
      <4>4. CASE k # n
        <5>1. k \in 0 .. n - 1
          BY <3>1, <4>4
        <5>2. g[k] = Round(f, g, k)
          BY <3>3, <5>1
        <5> QED  BY <4>2, <4>4, <5>2
      <4> QED  BY <4>3, <4>4
    <3>5. G(h, n)
      BY <3>4
    <3> QED  BY <3>5, <2>1
  <2> QED  BY <2>2, <2>3
<1>2. \E g : G(g, max)
  <2>1. max \in 0 .. max
    OBVIOUS
  <2> QED  BY <1>1, <2>1
<1>3. Captured(f) = CHOOSE g : G(g, max)
  BY DEF Captured, Round
<1>4. G(Captured(f), max)
  <2> HIDE DEF G
  <2> QED  BY <1>2, <1>3
<1> QED  BY <1>4

\* The upvalues of function f that a new closure gets.
CanCapture(f) ==
    /\ Len(program[f].ups) \in Nat
    /\ \A k \in 1 .. Len(program[f].ups) :
           LET u == program[f].ups[k]
           IN  /\ u.is_local => Frame.slot + u.index \in 1 .. MaxStack
               /\ ~ u.is_local => Upvalue(u.index) \in Ref(heap, "upvalue")

LEMMA WithClosureIs ==
    ASSUME NEW f, IsSeq(heap), OpenOK(heap, open), SlotsOK(heap, open)
    PROVE  CapturedOK(f, 0, WithClosure(f))
<1> DEFINE x == [type |-> "closure", fn |-> f, ups |-> <<>>]
    acc == WithClosure(f)
    h == Append(heap, x)
    n == Len(heap)
<1>1. acc = [heap |-> h, open |-> open, ups |-> <<>>]
  BY DEF WithClosure
<1>2. /\ IsSeq(h) /\ Len(h) = n + 1 /\ h[n + 1] = x
      /\ \A o \in 1 .. n : h[o] = heap[o]
  BY AppendIs
<1>3. n \in Nat
  BY DEF IsSeq
<1>4. x.type = "closure"
  OBVIOUS
<1> HIDE DEF x, h
<1>5. OpenOK(h, open)
  <2>1. n <= n + 1 /\ \A o \in n + 1 .. n + 1 : o = n + 1
    BY <1>3
  <2>2. \A o \in 1 .. n : /\ IsOpen(h, o) <=> IsOpen(heap, o)
                          /\ IsOpen(heap, o) => h[o].slot = heap[o].slot
    BY <1>2 DEF IsOpen
  <2>3. \A o \in n + 1 .. n + 1 : ~ IsOpen(h, o)
    BY <1>2, <1>4, <2>1 DEF IsOpen
  <2> QED  BY <1>2, <2>1, <2>2, <2>3, OpenKept
<1>6. SlotsOK(h, open)
  BY <1>2 DEF SlotsOK, OpenOK
<1>7. Extends(h, h)
  <2>1. n + 1 <= n + 1 /\ \A o \in n + 1 + 1 .. n + 1 : FALSE
    BY <1>3
  <2> QED  BY <1>2, <2>1 DEF Extends
<1>8. IsSeq(<<>>) /\ Len(<<>>) = 0
  BY DEF IsSeq
<1>9. \A j \in 1 .. 0 : FALSE
  OBVIOUS
<1>10. acc.heap = h /\ acc.open = open /\ acc.ups = <<>>
  BY <1>1
<1> HIDE DEF acc
<1>11. CapturedOK(f, 0, acc)
  BY <1>1, <1>2, <1>5, <1>6, <1>7, <1>8, <1>9, <1>10 DEF CapturedOK, acc
<1> QED  BY <1>11 DEF acc

LEMMA CapturedIs ==
    ASSUME NEW f, IsSeq(heap), OpenOK(heap, open), SlotsOK(heap, open),
           CanCapture(f)
    PROVE  CapturedOK(f, Len(program[f].ups), Captured(f)[Len(program[f].ups)])
<1> DEFINE max == Len(program[f].ups)
    c == Captured(f)
    Bad == {k \in 0 .. max : ~ CapturedOK(f, k, c[k])}
<1>1. max \in Nat /\ c = [k \in 0 .. max |-> Round(f, c, k)]
  BY CapturedDefined DEF CanCapture
<1> HIDE DEF c
<1>2. \A k \in 0 .. max : c[k] = Round(f, c, k)
  BY <1>1
<1>3. \A k \in 1 .. max :
          /\ program[f].ups[k].is_local =>
                 Frame.slot + program[f].ups[k].index \in 1 .. MaxStack
          /\ ~ program[f].ups[k].is_local =>
                 Upvalue(program[f].ups[k].index) \in Ref(heap, "upvalue")
  BY DEF CanCapture
<1> HIDE DEF max
<1>4. Bad = {}
  <2> SUFFICES ASSUME Bad # {} PROVE FALSE
    OBVIOUS
  <2>1. PICK n \in Bad : \A m \in Bad : n <= m
    <3>1. Bad \subseteq Nat
      BY <1>1
    <3> HIDE DEF Bad
    <3> QED  BY <3>1, Least
  <2>2. n # 0
    <3>1. c[0] = WithClosure(f)
      BY <1>1, <1>2 DEF Round
    <3> QED  BY <2>1, <3>1, WithClosureIs
  <2> DEFINE k == n - 1
      u == program[f].ups[n]
  <2>3. k \in Nat /\ k \in 0 .. max /\ k + 1 = n /\ ~ (n <= k) /\ n \in 1 .. max
    BY <1>1, <2>1, <2>2
  <2>4. k \notin Bad
    <3> HIDE DEF Bad, k
    <3> QED  BY <2>1, <2>3
  <2>5. CapturedOK(f, k, c[k])
    <3> HIDE DEF k
    <3> QED  BY <2>3, <2>4
  <2>6. c[n] = CaptureOne(c[k], u)
    BY <1>2, <2>2, <2>3 DEF Round
  <2>7. /\ u.is_local => Frame.slot + u.index \in 1 .. MaxStack
        /\ ~ u.is_local => Upvalue(u.index) \in Ref(heap, "upvalue")
    BY <1>3, <2>3
  <2> HIDE DEF k, u
  <2>8. CapturedOK(f, k + 1, CaptureOne(c[k], u))
    BY <2>3, <2>5, <2>7, CaptureOneIs
  <2> QED  BY <2>1, <2>3, <2>6, <2>8
<1>5. max \in 0 .. max
  BY <1>1
<1> QED  BY <1>4, <1>5 DEF c, max

\* The closure gets its upvalues.
LEMMA ClosureMade ==
    ASSUME NEW f \in 1 .. Len(program), HeapOK(program, heap), NEW acc,
           CapturedOK(f, Len(program[f].ups), acc), NEW k,
           k = [acc.heap EXCEPT ![Len(heap) + 1].ups = acc.ups]
    PROVE  /\ HeapOK(program, k) /\ Keeps(heap, k) /\ OpenOK(k, acc.open)
           /\ Len(heap) + 1 \in 1 .. Len(k)
<1> DEFINE n == Len(heap)
    a == acc.heap
    x == [type |-> "closure", fn |-> f, ups |-> <<>>]
    y == [type |-> "closure", fn |-> f, ups |-> acc.ups]
    h == WithClosure(f).heap
<1>1. IsSeq(heap) /\ n \in Nat
  BY DEF HeapOK, IsSeq
<1>2. h = Append(heap, x)
  BY DEF WithClosure
<1>3. /\ IsSeq(h) /\ Len(h) = n + 1 /\ h[n + 1] = x
      /\ \A o \in 1 .. n : h[o] = heap[o]
  BY <1>1, <1>2, AppendIs
<1>4. /\ IsSeq(a) /\ Extends(h, a) /\ OpenOK(a, acc.open)
      /\ \A j \in 1 .. Len(program[f].ups) : acc.ups[j] \in Ref(a, "upvalue")
  BY DEF CapturedOK
<1> DEFINE c == n + 1
    m == Len(a)
<1>5. m \in Nat /\ c \in 1 .. m /\ a = [o \in 1 .. m |-> a[o]]
  BY <1>1, <1>3, <1>4 DEF IsSeq, Extends
<1>6. /\ a[c] = x
      /\ \A o \in 1 .. n : a[o] = heap[o] /\ o \in 1 .. m /\ o # c
      /\ \A o \in c + 1 .. m : FreshUpvalue(a[o])
  <2>1. \A o \in 1 .. n : o \in 1 .. n + 1
    BY <1>1
  <2>2. n + 1 \in 1 .. n + 1
    BY <1>1
  <2>3. \A o \in 1 .. n + 1 : a[o] = h[o]
    BY <1>3, <1>4 DEF Extends
  <2>4. \A o \in 1 .. n : o \in 1 .. m /\ o # c
    BY <1>1, <1>5
  <2>5. \A o \in c + 1 .. m : FreshUpvalue(a[o])
    BY <1>3, <1>4 DEF Extends
  <2> QED  BY <1>3, <2>1, <2>2, <2>3, <2>4, <2>5
<1>7. k = [a EXCEPT ![c] = [a[c] EXCEPT !.ups = acc.ups]]
  OBVIOUS
<1>8. [x EXCEPT !.ups = acc.ups] = y
  OBVIOUS
<1>9. /\ k = [o \in 1 .. m |-> k[o]]
      /\ k[c] = y
      /\ \A o \in 1 .. m : o # c => k[o] = a[o]
  <2> HIDE DEF c, a, m, x, y
  <2>1. k = [a EXCEPT ![c] = y]
    BY <1>6, <1>7, <1>8
  <2> QED  BY <1>5, <2>1
<1>10. IsSeq(k) /\ Len(k) = m
  <2> HIDE DEF m
  <2> QED  BY <1>5, <1>9, FunctionIsSeq
<1>11. /\ x.type = "closure"
       /\ y.type = "closure" /\ y.fn = f /\ y.ups = acc.ups
       /\ y = [type |-> "closure", fn |-> y.fn, ups |-> y.ups]
  OBVIOUS
<1> HIDE DEF x, y, h, a, c
<1>12. Keeps(heap, k)
  <2>1. n <= m
    BY <1>1, <1>5 DEF c
  <2>2. \A o \in 1 .. n : k[o] = heap[o]
    BY <1>6, <1>9
  <2> HIDE DEF m, n
  <2> QED  BY <1>10, <2>1, <2>2 DEF Keeps, n
<1>13. \A o \in 1 .. m : IsOpen(k, o) <=> IsOpen(a, o)
  BY <1>6, <1>9, <1>11 DEF IsOpen
<1>14. OpenOK(k, acc.open)
  <2>1. \A o \in 1 .. m : IsOpen(a, o) => k[o].slot = a[o].slot
    BY <1>6, <1>9, <1>11 DEF IsOpen
  <2>2. m <= m /\ \A o \in m + 1 .. m : FALSE
    BY <1>5
  <2>3. Len(a) <= Len(k) /\ \A o \in Len(a) + 1 .. Len(k) : ~ IsOpen(k, o)
    BY <1>10, <2>2
  <2> QED  BY <1>4, <1>10, <1>13, <2>1, <2>3, OpenKept
<1>15. \A o \in Ref(a, "upvalue") : o \in Ref(k, "upvalue")
  BY <1>6, <1>9, <1>10, <1>11 DEF Ref
<1>16. ASSUME NEW o \in 1 .. Len(k) PROVE ObjectOK(program, k, o, k[o])
  <2>1. CASE o \in 1 .. n
    <3>1. ObjectOK(program, heap, o, heap[o])
      BY <2>1 DEF HeapOK
    <3>2. ObjectOK(program, k, o, heap[o])
      BY <1>1, <1>10, <1>12, <3>1, ObjectKept
    <3> QED  BY <1>6, <1>9, <2>1, <3>2
  <2>2. CASE o = c
    <3>1. ClosureOK(program, k, y)
      BY <1>4, <1>11, <1>15 DEF ClosureOK
    <3> QED  BY <1>9, <1>11, <2>2, <3>1 DEF ObjectOK
  <2>3. CASE o \in c + 1 .. m
    <3>1. o \in 1 .. m /\ o # c
      BY <1>1, <1>5, <2>3 DEF c
    <3>2. FreshUpvalue(k[o])
      BY <1>6, <1>9, <2>3, <3>1
    <3> DEFINE z == k[o]
    <3>3. /\ z = [type |-> "upvalue", slot |-> z.slot, val |-> Nil]
          /\ z.slot \in 1 .. MaxStack
      BY <3>2 DEF FreshUpvalue
    <3> HIDE DEF z
    <3>4. z.type = "upvalue" /\ z.val = Nil /\ z.slot \in 0 .. MaxStack
      BY <3>3, VirtualMachineAssumption
    <3>5. Good(k, Nil)
      BY DEF Good, Is, Nil
    <3>6. UpvalueOK(k, z)
      BY <3>3, <3>4, <3>5 DEF UpvalueOK
    <3> QED  BY <3>4, <3>6 DEF ObjectOK, z
  <2> QED  BY <1>1, <1>5, <1>10, <2>1, <2>2, <2>3 DEF c
<1>17. HeapOK(program, k)
  BY <1>10, <1>16 DEF HeapOK
<1>18. n + 1 \in 1 .. Len(k)
  BY <1>5, <1>10 DEF c
<1> QED  BY <1>12, <1>14, <1>17, <1>18

\* What the machine takes on trust.
Trusted == CodeFits /\ OperandsPresent /\ StackFits

-----------------------------------------------------------------------------
(* What holds where an instruction is fetched.                             *)

Ready ==
    /\ IInv /\ status = "running"
    /\ fn \in 1 .. Len(program) /\ ip \in 1 .. Len(program[fn].code)
    /\ Len(frames) \in Nat \ {0}
    /\ Frame.slot \in 1 .. MaxStack /\ Frame.closure \in Ref(heap, "closure")
    /\ heap[Frame.closure].fn = fn
    /\ top \in Int /\ top <= MaxStack
    /\ Operands(Ins) \in Nat /\ top - Operands(Ins) >= 0
    /\ Ins[1] # "Return" => ip + 1 \in 1 .. Len(program[fn].code)

LEMMA OperandsNat ==
    ASSUME NEW ins, ins[1] = "Call" => ins[2] \in Nat,
           ins[1] = "Invoke" => ins[3] \in Nat
    PROVE  Operands(ins) \in Nat
BY DEF Operands

LEMMA BaseNat ==
    ASSUME Frame.slot \in 1 .. MaxStack
    PROVE  Base \in Int /\ Base >= 0
BY VirtualMachineAssumption DEF Base

LEMMA Fetched ==
    ASSUME IInv, Trusted, status = "running"
    PROVE  Ready
<1>1. /\ fn \in 1 .. Len(program) /\ ip \in 1 .. Len(program[fn].code)
      /\ ChainOK(program, heap, frames, fn, ip)
      /\ Len(frames) \in Nat /\ Len(frames) > 0 /\ FramesOK(heap, frames)
      /\ top \in Int
  BY DEF IInv, ControlOK, ChainOK, FramesOK, IsSeq
<1>2. Len(frames) \in 1 .. Len(frames) /\ Frame = frames[Len(frames)]
  BY <1>1 DEF Frame, Last
<1>3. /\ Frame.slot \in 1 .. MaxStack /\ Frame.closure \in Ref(heap, "closure")
      /\ heap[Frame.closure].fn = fn
  BY <1>1, <1>2 DEF FramesOK, ChainOK
<1>4. Base \in Int /\ Base >= 0
  BY <1>3, BaseNat
<1> DEFINE code == program[fn].code
<1>5. /\ code[ip][1] # "Return" => ip + 1 \in 1 .. Len(code)
      /\ code[ip][1] = "Call" => code[ip][2] \in Nat
      /\ code[ip][1] = "Invoke" => code[ip][3] \in Nat
  BY <1>1 DEF Trusted, CodeFits, ProgramFits, FunctionFits, ControlStays,
       RefersWell, InReach, IsJump
<1>6. Operands(Ins) \in Nat
  BY <1>5, OperandsNat DEF Ins
<1>7. top - Operands(Ins) >= Base
  BY DEF Trusted, OperandsPresent
<1>8. top - Operands(Ins) >= 0
  <2> DEFINE n == Operands(Ins)
      b == Base
  <2>1. top \in Int /\ n \in Nat /\ b \in Int /\ b >= 0 /\ top - n >= b
    BY <1>1, <1>4, <1>6, <1>7
  <2> HIDE DEF n, b
  <2>2. top - n >= 0
    BY <2>1
  <2> QED  BY <2>2 DEF n
<1>9. top <= MaxStack
  BY DEF Trusted, StackFits
<1>10. Len(frames) \in Nat \ {0}
  BY <1>1
<1> QED  BY <1>1, <1>3, <1>5, <1>6, <1>8, <1>9, <1>10 DEF Ready, Ins

\* The number of operands, instruction by instruction.
LEMMA OperandCounts ==
    ASSUME NEW ins
    PROVE  /\ ins[1] \in {"Add", "Subtract", "Multiply", "Divide", "Less",
                          "Greater", "Equal", "SetProperty", "CreateMethod",
                          "GetSuperFunc"} => Operands(ins) = 2
           /\ ins[1] \in {"Not", "Negate", "Pop", "Print", "ConditionalJump",
                          "DefineGlobal", "SetGlobal", "SetUpvalue", "SetLocal",
                          "CloseUpvalue", "CreateSubclass", "GetProperty"}
                  => Operands(ins) = 1
           /\ ins[1] = "Call" => Operands(ins) = ins[2] + 1
           /\ ins[1] = "Invoke" => Operands(ins) = ins[3] + 1
           /\ ins[1] = "Return" /\ Len(frames) > 1 => Operands(ins) = 1
BY DEF Operands

-----------------------------------------------------------------------------
(* What a step leaves right.                                               *)

\* The values and the objects after a step.
DataOK ==
    /\ HeapOK(program, heap') /\ Keeps(heap, heap')
    /\ CellsOK(heap', cells') /\ GlobalsOK(heap', globals')
    /\ OpenOK(heap', open')
    /\ top' \in Int /\ top' >= -1

\* A step inside of the code of a function.
Moves ==
    /\ UNCHANGED <<program, fn, frames>>
    /\ status' \in {"running", "error"}
    /\ status' = "running" => ip' \in 1 .. Len(program[fn].code)

LEMMA Stays ==
    ASSUME Ready, DataOK, Moves
    PROVE  IInv'
<1>1. /\ IsSeq(heap) /\ IsSeq(heap') /\ Keeps(heap, heap')
      /\ FramesOK(heap, frames) /\ ChainOK(program, heap, frames, fn, ip)
  BY DEF Ready, IInv, ControlOK, DataOK, HeapOK
<1>2. FramesOK(heap', frames) /\ ChainOK(program, heap', frames, fn, ip)
  BY <1>1, StateKept
<1>3. FramesOK(heap', frames')
  BY <1>2 DEF Moves
<1>4. status' = "running" => ChainOK(program', heap', frames', fn', ip')
  BY <1>2 DEF Moves, ChainOK
<1>5. status' # "idle" /\ fn' \in 1 .. Len(program')
  BY DEF Moves, Ready
<1>6. ControlOK'
  BY <1>4, <1>5 DEF ControlOK, DataOK, Moves
<1>7. HeapOK(program', heap')
  BY DEF DataOK, Moves
<1> QED  BY <1>3, <1>6, <1>7 DEF IInv, DataOK

LEMMA Advances ==
    ASSUME Ready, Ins[1] # "Return", Advance, UNCHANGED program,
           status' \in {"running", "error"}
    PROVE  Moves
BY DEF Ready, Advance, Moves

\* A step that touches no object.
LEMMA SameObjects ==
    ASSUME Ready, UNCHANGED <<heap, open>>, GlobalsOK(heap, globals'),
           CellsOK(heap, cells'), top' \in Int, top' >= -1
    PROVE  DataOK
<1>1. Keeps(heap, heap)
  BY DEF Ready, IInv, HeapOK, IsSeq, Keeps
<1> QED  BY <1>1 DEF Ready, IInv, DataOK

LEMMA CellPut ==
    ASSUME NEW h, NEW c, CellsOK(h, c), NEW i, NEW v, Good(h, v)
    PROVE  CellsOK(h, [c EXCEPT ![i] = v])
<1> DEFINE d == [c EXCEPT ![i] = v]
<1>1. d = [j \in 1 .. MaxStack |-> IF j = i THEN v ELSE c[j]]
  BY DEF CellsOK
<1>2. d = [j \in 1 .. MaxStack |-> d[j]]
  BY <1>1
<1>3. \A j \in 1 .. MaxStack : Good(h, d[j])
  BY <1>1 DEF CellsOK
<1> HIDE DEF d
<1>4. CellsOK(h, d)
  BY <1>2, <1>3 DEF CellsOK
<1> QED  BY <1>4 DEF d

LEMMA Replaced ==
    ASSUME NEW h, CellsOK(h, cells), top \in Int, NEW n \in Nat, top - n >= 0,
           NEW v, Good(h, v), Replace(n, v)
    PROVE  CellsOK(h, cells') /\ top' \in Int /\ top' >= -1
<1>1. cells' = [cells EXCEPT ![top - n + 1] = v]
  BY DEF Replace
<1>2. CellsOK(h, cells')
  BY <1>1, CellPut
<1>3. top' \in Int /\ top' >= -1
  BY DEF Replace
<1> QED  BY <1>2, <1>3

LEMMA Discarded ==
    ASSUME NEW h, CellsOK(h, cells), top \in Int, NEW n \in Nat, top - n >= -1,
           Discard(n)
    PROVE  CellsOK(h, cells') /\ top' \in Int /\ top' >= -1
BY DEF Discard

\* The operands of an instruction are good values.
LEMMA TopGood ==
    ASSUME Ready, NEW n \in Nat, top - n >= 1
    PROVE  Good(heap, Top(n))
<1>1. top - n \in 1 .. MaxStack
  BY VirtualMachineAssumption DEF Ready
<1> QED  BY <1>1 DEF Ready, IInv, CellsOK, Top

\* Values that are no objects.
LEMMA PlainGood ==
    ASSUME NEW h
    PROVE  /\ \A x : Good(h, Num(x)) /\ Good(h, Bool(x)) /\ Good(h, Str(x))
           /\ Good(h, Nil)
           /\ \A o : o \in 1 .. Len(h) => Good(h, Obj(o))
BY DEF Good, Is, Num, Bool, Str, Nil, Obj

\* The cells and the height of the stack after a step.
StackOK(h) == CellsOK(h, cells') /\ top' \in Int /\ top' >= -1

\* A step to the next instruction that touches no object.
LEMMA Plain ==
    ASSUME Ready, Ins[1] # "Return", Advance, UNCHANGED <<program, heap, open>>,
           GlobalsOK(heap, globals'), StackOK(heap),
           status' \in {"running", "error"}
    PROVE  IInv'
<1>1. DataOK
  BY SameObjects DEF StackOK
<1>2. Moves
  BY Advances
<1> QED  BY <1>1, <1>2, Stays

LEMMA FailedKeeps ==
    ASSUME Ready, Ins[1] # "Return", NEW n \in Nat, top - n >= -1, Fail(n),
           UNCHANGED program, NoObjects
    PROVE  IInv'
<1>1. CellsOK(heap, cells) /\ GlobalsOK(heap, globals) /\ top \in Int
  BY DEF Ready, IInv
<1>2. StackOK(heap)
  BY <1>1, Discarded DEF Fail, StackOK
<1> QED  BY <1>1, <1>2, Plain DEF Fail, NoObjects

\* A value takes the place of n others.
LEMMA Computed ==
    ASSUME Ready, Ins[1] # "Return", NEW n \in Nat, top - n >= 0,
           NEW v, Good(heap, v), Replace(n, v), Advance, Running,
           UNCHANGED program, NoObjects
    PROVE  IInv'
<1>1. CellsOK(heap, cells) /\ GlobalsOK(heap, globals) /\ top \in Int
  BY DEF Ready, IInv
<1>2. StackOK(heap)
  BY <1>1, Replaced DEF StackOK
<1>3. status' = "running"
  BY DEF Running, Ready
<1> QED  BY <1>1, <1>2, <1>3, Plain DEF NoObjects

-----------------------------------------------------------------------------
(* The instructions that create and change no objects.                     *)

LEMMA ArithmeticKeeps == ASSUME IInv, Trusted, Arithmetic PROVE IInv'
<1>1. PICK op \in {"Subtract", "Multiply", "Divide", "Less", "Greater"} :
          /\ Fetch(op) /\ NoObjects
          /\ \/ /\ Replace(2, Compute(op, Top(1)[2], Top(0)[2]))
                /\ Advance /\ Running
             \/ Fail(2)
  BY DEF Arithmetic
<1>2. Ready /\ Ins[1] = op /\ UNCHANGED program
  BY <1>1, Fetched DEF Fetch
<1>3. Operands(Ins) = 2 /\ Ins[1] # "Return"
  BY <1>2, OperandCounts
<1>4. top - 2 >= 0 /\ top - 2 >= -1
  BY <1>2, <1>3 DEF Ready
<1>5. Good(heap, Compute(op, Top(1)[2], Top(0)[2]))
  <2>1. \E x : \/ Compute(op, Top(1)[2], Top(0)[2]) = Num(x)
               \/ Compute(op, Top(1)[2], Top(0)[2]) = Bool(x)
    BY DEF Compute
  <2> QED  BY <2>1, PlainGood
<1> QED  BY <1>1, <1>2, <1>3, <1>4, <1>5, Computed, FailedKeeps

LEMMA AddKeeps == ASSUME IInv, Trusted, Add PROVE IInv'
<1>1. Ready /\ Ins[1] = "Add" /\ UNCHANGED program
  BY Fetched DEF Add, Fetch
<1>2. Operands(Ins) = 2 /\ Ins[1] # "Return"
  BY <1>1, OperandCounts
<1>3. top - 2 >= 0 /\ top - 2 >= -1
  BY <1>1, <1>2 DEF Ready
<1>4. /\ NoObjects
      /\ \/ Fail(2)
         \/ /\ \E x : Replace(2, Num(x)) \/ Replace(2, Str(x))
            /\ Advance /\ Running
  BY Zenon DEF Add
<1> QED  BY <1>1, <1>2, <1>3, <1>4, PlainGood, Computed, FailedKeeps

LEMMA EqualKeeps == ASSUME IInv, Trusted, Equal PROVE IInv'
<1>1. Ready /\ Ins[1] = "Equal" /\ UNCHANGED program
  BY Fetched DEF Equal, Fetch
<1>2. Operands(Ins) = 2 /\ Ins[1] # "Return"
  BY <1>1, OperandCounts
<1>3. top - 2 >= 0
  BY <1>1, <1>2 DEF Ready
<1> QED  BY <1>1, <1>2, <1>3, PlainGood, Computed DEF Equal

LEMMA NotKeeps == ASSUME IInv, Trusted, Not PROVE IInv'
<1>1. Ready /\ Ins[1] = "Not" /\ UNCHANGED program
  BY Fetched DEF Not, Fetch
<1>2. Operands(Ins) = 1 /\ Ins[1] # "Return"
  BY <1>1, OperandCounts
<1>3. top - 1 >= 0
  BY <1>1, <1>2 DEF Ready
<1> QED  BY <1>1, <1>2, <1>3, PlainGood, Computed DEF Not

LEMMA NegateKeeps == ASSUME IInv, Trusted, Negate PROVE IInv'
<1>1. Ready /\ Ins[1] = "Negate" /\ UNCHANGED program
  BY Fetched DEF Negate, Fetch
<1>2. Operands(Ins) = 1 /\ Ins[1] # "Return"
  BY <1>1, OperandCounts
<1>3. top - 1 >= 0 /\ top - 0 >= -1
  BY <1>1, <1>2 DEF Ready
<1> QED  BY <1>1, <1>2, <1>3, PlainGood, Computed, FailedKeeps DEF Negate

LEMMA LiteralKeeps == ASSUME IInv, Trusted, Literal PROVE IInv'
<1>1. Ready /\ Ins[1] = "Literal" /\ UNCHANGED program
  BY Fetched DEF Literal, Fetch
<1>2. top - 0 >= 0
  BY <1>1 DEF Ready
<1>3. Good(heap, Ins[2])
  <2>1. ~ Is(Ins[2], "obj")
    BY <1>1 DEF Ready, Trusted, CodeFits, ProgramFits, FunctionFits, ControlStays,
       RefersWell, InReach, IsJump, Ins
  <2> QED  BY <2>1 DEF Good
<1> QED  BY <1>1, <1>2, <1>3, Computed DEF Literal, Push

LEMMA PopKeeps == ASSUME IInv, Trusted, Pop PROVE IInv'
<1>1. Ready /\ Ins[1] = "Pop" /\ UNCHANGED program
  BY Fetched DEF Pop, Fetch
<1>2. CellsOK(heap, cells) /\ GlobalsOK(heap, globals) /\ top \in Int
  BY <1>1 DEF Ready, IInv
<1>3. top - 1 >= -1
  BY <1>1, OperandCounts DEF Ready
<1>4. StackOK(heap)
  BY <1>2, <1>3, Discarded DEF StackOK, Pop
<1> QED  BY <1>1, <1>2, <1>4, Plain DEF Pop, NoObjects, Running, Ready

LEMMA PrintTopKeeps == ASSUME IInv, Trusted, PrintTop PROVE IInv'
<1>1. Ready /\ Ins[1] = "Print" /\ UNCHANGED program
  BY Fetched DEF PrintTop, Fetch
<1>2. CellsOK(heap, cells) /\ GlobalsOK(heap, globals) /\ top \in Int
  BY <1>1 DEF Ready, IInv
<1>3. top - 1 >= -1
  BY <1>1, OperandCounts DEF Ready
<1>4. StackOK(heap)
  BY <1>2, <1>3, Discarded DEF StackOK, PrintTop
<1> QED  BY <1>1, <1>2, <1>4, Plain DEF PrintTop, NoObjects, Running, Ready

\* A step to another instruction of the function.
LEMMA Jumped ==
    ASSUME Ready, Goto(Ins[2]), Discard(0), Running, UNCHANGED program,
           NoObjects, Ins[2] \in 1 .. Len(program[fn].code)
    PROVE  IInv'
<1>1. CellsOK(heap, cells) /\ GlobalsOK(heap, globals) /\ top \in Int
  BY DEF Ready, IInv
<1>2. top - 0 >= -1
  BY DEF Ready
<1>3. DataOK
  BY <1>1, <1>2, Discarded, SameObjects DEF NoObjects
<1>4. Moves
  BY DEF Ready, Moves, Goto, Running
<1> QED  BY <1>3, <1>4, Stays

LEMMA ConditionalJumpKeeps == ASSUME IInv, Trusted, ConditionalJump PROVE IInv'
<1>1. Ready /\ Ins[1] = "ConditionalJump" /\ UNCHANGED program
  BY Fetched DEF ConditionalJump, Fetch
<1>2. Ins[2] \in 1 .. Len(program[fn].code)
  BY <1>1 DEF Ready, Trusted, CodeFits, ProgramFits, FunctionFits, ControlStays,
       RefersWell, InReach, IsJump, Ins
<1>3. CASE Goto(Ins[2])
  BY <1>1, <1>2, <1>3, Jumped DEF ConditionalJump
<1>4. CASE Advance
  <2>1. CellsOK(heap, cells) /\ GlobalsOK(heap, globals) /\ top \in Int
    BY <1>1 DEF Ready, IInv
  <2>2. top - 0 >= -1
    BY <1>1 DEF Ready
  <2>3. StackOK(heap)
    BY <2>1, <2>2, Discarded DEF StackOK, ConditionalJump
  <2> QED
    BY <1>1, <1>4, <2>1, <2>3, Plain
       DEF ConditionalJump, NoObjects, Running, Ready
<1> QED  BY <1>3, <1>4 DEF ConditionalJump

LEMMA JumpKeeps == ASSUME IInv, Trusted, Jump PROVE IInv'
<1>1. Ready /\ Ins[1] = "Jump" /\ UNCHANGED program
  BY Fetched DEF Jump, Fetch
<1>2. Ins[2] \in 1 .. Len(program[fn].code)
  BY <1>1 DEF Ready, Trusted, CodeFits, ProgramFits, FunctionFits, ControlStays,
       RefersWell, InReach, IsJump, Ins
<1> QED  BY <1>1, <1>2, Jumped DEF Jump

-----------------------------------------------------------------------------
(* Variables.                                                              *)

LEMMA GlobalPut ==
    ASSUME NEW x, Good(heap, x), GlobalsOK(heap, globals), NEW k
    PROVE  GlobalsOK(heap, Put(globals, k, x))
BY DEF GlobalsOK, Put

LEMMA DefineGlobalKeeps == ASSUME IInv, Trusted, DefineGlobal PROVE IInv'
<1>1. Ready /\ Ins[1] = "DefineGlobal" /\ UNCHANGED program
  BY Fetched DEF DefineGlobal, Fetch
<1>2. CellsOK(heap, cells) /\ GlobalsOK(heap, globals) /\ top \in Int
  BY <1>1 DEF Ready, IInv
<1>3. top - 1 >= -1 /\ top - 0 >= 1
  BY <1>1, OperandCounts DEF Ready
<1>4. GlobalsOK(heap, globals')
  BY <1>1, <1>2, <1>3, TopGood, GlobalPut DEF DefineGlobal
<1>5. StackOK(heap)
  BY <1>2, <1>3, Discarded DEF StackOK, DefineGlobal
<1> QED  BY <1>1, <1>4, <1>5, Plain DEF DefineGlobal, Running, Ready

LEMMA GetGlobalKeeps == ASSUME IInv, Trusted, GetGlobal PROVE IInv'
<1>1. Ready /\ Ins[1] = "GetGlobal" /\ UNCHANGED program /\ NoObjects
  BY Fetched DEF GetGlobal, Fetch
<1>2. top - 0 >= 0 /\ top - 0 >= -1
  BY <1>1 DEF Ready
<1>3. CASE Ins[2] \in DOMAIN globals
  <2>1. Good(heap, globals[Ins[2]])
    BY <1>1, <1>3 DEF Ready, IInv, GlobalsOK
  <2> QED  BY <1>1, <1>2, <1>3, <2>1, Computed DEF GetGlobal, Push
<1>4. CASE Ins[2] \notin DOMAIN globals
  BY <1>1, <1>2, <1>4, FailedKeeps DEF GetGlobal
<1> QED  BY <1>3, <1>4

LEMMA SetGlobalKeeps == ASSUME IInv, Trusted, SetGlobal PROVE IInv'
<1>1. Ready /\ Ins[1] = "SetGlobal" /\ UNCHANGED <<program, heap, open>>
  BY Fetched DEF SetGlobal, Fetch
<1>2. CellsOK(heap, cells) /\ GlobalsOK(heap, globals) /\ top \in Int
  BY <1>1 DEF Ready, IInv
<1>3. top - 0 >= -1 /\ top - 0 >= 1
  BY <1>1, OperandCounts DEF Ready
<1>4. CASE Ins[2] \in DOMAIN globals
  <2>1. GlobalsOK(heap, globals')
    BY <1>1, <1>2, <1>3, <1>4, TopGood, GlobalPut DEF SetGlobal
  <2>2. StackOK(heap)
    BY <1>2, <1>3, <1>4, Discarded DEF StackOK, SetGlobal
  <2> QED  BY <1>1, <1>4, <2>1, <2>2, Plain DEF SetGlobal, Running, Ready
<1>5. CASE Ins[2] \notin DOMAIN globals
  BY <1>1, <1>3, <1>5, FailedKeeps DEF SetGlobal, NoObjects
<1> QED  BY <1>4, <1>5

LEMMA GetLocalKeeps == ASSUME IInv, Trusted, GetLocal PROVE IInv'
<1>1. Ready /\ Ins[1] = "GetLocal" /\ UNCHANGED program
  BY Fetched DEF GetLocal, Fetch
<1>2. top - 0 >= 0
  BY <1>1 DEF Ready
<1> DEFINE c == Frame.slot + Ins[2]
<1>3. c \in Frame.slot .. top
  BY <1>1 DEF Ready, Trusted, OperandsPresent
<1>4. c \in 1 .. MaxStack
  <2> HIDE DEF c
  <2> QED  BY <1>1, <1>3, VirtualMachineAssumption DEF Ready
<1> HIDE DEF c
<1>5. Good(heap, cells[c])
  BY <1>1, <1>4 DEF Ready, IInv, CellsOK
<1> QED  BY <1>1, <1>2, <1>5, Computed DEF GetLocal, Push, c

LEMMA SetLocalKeeps == ASSUME IInv, Trusted, SetLocal PROVE IInv'
<1>1. Ready /\ Ins[1] = "SetLocal" /\ UNCHANGED program
  BY Fetched DEF SetLocal, Fetch
<1>2. CellsOK(heap, cells) /\ GlobalsOK(heap, globals) /\ top \in Int
  BY <1>1 DEF Ready, IInv
<1>3. top - 0 >= 1 /\ top >= -1
  BY <1>1, OperandCounts DEF Ready
<1>4. StackOK(heap)
  BY <1>1, <1>2, <1>3, TopGood, CellPut DEF SetLocal, StackOK
<1> QED  BY <1>1, <1>2, <1>4, Plain DEF SetLocal, Running, Ready, NoObjects

-----------------------------------------------------------------------------
(* Upvalues.                                                               *)

\* An upvalue of the closure that runs is an upvalue.
LEMMA UpvalueIs ==
    ASSUME Ready, NEW i, i + 1 \in 1 .. Len(program[fn].ups)
    PROVE  Upvalue(i) \in Ref(heap, "upvalue")
<1>1. ClosureOK(program, heap, heap[Frame.closure])
  BY TypesOf DEF Ready, IInv
<1> QED  BY <1>1 DEF Ready, ClosureOK, Upvalue

LEMMA GetUpvalueKeeps == ASSUME IInv, Trusted, GetUpvalue PROVE IInv'
<1> DEFINE u == Upvalue(Ins[2])
<1>1. Ready /\ Ins[1] = "GetUpvalue" /\ UNCHANGED program
  BY Fetched DEF GetUpvalue, Fetch
<1>2. top - 0 >= 0
  BY <1>1 DEF Ready
<1>3. u \in Ref(heap, "upvalue")
  <2>1. Ins[2] + 1 \in 1 .. Len(program[fn].ups)
    BY <1>1 DEF Ready, Trusted, CodeFits, ProgramFits, FunctionFits, ControlStays,
       RefersWell, InReach, IsJump, Ins
  <2> QED  BY <1>1, <2>1, UpvalueIs
<1>4. UpvalueOK(heap, heap[u])
  <2> HIDE DEF u
  <2> QED  BY <1>1, <1>3, TypesOf DEF Ready, IInv
<1> HIDE DEF u
<1>5. Good(heap, UpvalueValue(u))
  <2>1. CASE heap[u].slot > 0
    <3>1. heap[u].slot \in 1 .. MaxStack
      BY <1>4, <2>1, VirtualMachineAssumption DEF UpvalueOK
    <3> QED  BY <1>1, <2>1, <3>1 DEF Ready, IInv, CellsOK, UpvalueValue
  <2>2. CASE ~ (heap[u].slot > 0)
    BY <1>4, <2>2 DEF UpvalueOK, UpvalueValue
  <2> QED  BY <2>1, <2>2
<1> QED  BY <1>1, <1>2, <1>5, Computed DEF GetUpvalue, Push, u

LEMMA SetUpvalueKeeps == ASSUME IInv, Trusted, SetUpvalue PROVE IInv'
<1> DEFINE u == Upvalue(Ins[2])
    x == [heap[u] EXCEPT !.val = Top(0)]
<1>1. Ready /\ Ins[1] = "SetUpvalue" /\ UNCHANGED program
  BY Fetched DEF SetUpvalue, Fetch
<1>2. top - 0 >= 1 /\ top >= -1
  BY <1>1, OperandCounts DEF Ready
<1>3. u \in Ref(heap, "upvalue")
  <2>1. Ins[2] + 1 \in 1 .. Len(program[fn].ups)
    BY <1>1 DEF Ready, Trusted, CodeFits, ProgramFits, FunctionFits, ControlStays,
       RefersWell, InReach, IsJump, Ins
  <2> QED  BY <1>1, <2>1, UpvalueIs
<1>4. Good(heap, Top(0))
  BY <1>1, <1>2, TopGood
<1>5. /\ HeapOK(program, heap) /\ CellsOK(heap, cells)
      /\ GlobalsOK(heap, globals) /\ OpenOK(heap, open) /\ top \in Int
  BY <1>1 DEF Ready, IInv
<1>6. UpvalueOK(heap, heap[u])
  <2> HIDE DEF u
  <2> QED  BY <1>3, <1>5, TypesOf
<1>7. u \in 1 .. Len(heap) /\ heap[u].type = "upvalue"
  BY <1>3 DEF Ref
<1>8. /\ Advance /\ Running /\ UNCHANGED <<top, open, globals>>
      /\ \/ cells' = [cells EXCEPT ![heap[u].slot] = Top(0)] /\ UNCHANGED heap
         \/ heap' = [heap EXCEPT ![u] = x] /\ UNCHANGED cells
  BY DEF SetUpvalue
<1>9. CASE UNCHANGED heap /\ cells' = [cells EXCEPT ![heap[u].slot] = Top(0)]
  <2>1. StackOK(heap)
    BY <1>2, <1>4, <1>5, <1>8, <1>9, CellPut DEF StackOK
  <2> QED  BY <1>1, <1>5, <1>8, <1>9, <2>1, Plain DEF Running, Ready
<1>10. CASE heap' = [heap EXCEPT ![u] = x] /\ UNCHANGED cells
  <2> HIDE DEF u
  <2>1. /\ x = [type |-> "upvalue", slot |-> heap[u].slot, val |-> Top(0)]
        /\ x.type = "upvalue" /\ x.slot = heap[u].slot /\ x.val = Top(0)
    BY <1>6 DEF UpvalueOK
  <2> HIDE DEF x
  <2>2. ObjectOK(program, heap, u, x)
    BY <1>4, <1>6, <2>1 DEF ObjectOK, UpvalueOK
  <2>3. /\ HeapOK(program, heap') /\ Keeps(heap, heap')
        /\ Len(heap') = Len(heap)
        /\ \A o \in 1 .. Len(heap) : heap'[o] = IF o = u THEN x ELSE heap[o]
    <3>1. Changed(program, heap, [heap EXCEPT ![u] = x], u, x)
      <4>1. x.type = heap[u].type /\ heap[u].type # "closure"
        BY <1>7, <2>1
      <4> QED  BY <1>5, <1>7, <2>2, <4>1, HeapChanged
    <3> QED  BY <1>10, <3>1 DEF Changed
  <2>4. IsSeq(heap) /\ IsSeq(heap') /\ Len(heap) \in Nat
    BY <1>5, <2>3 DEF HeapOK, IsSeq
  <2>5. CellsOK(heap', cells') /\ GlobalsOK(heap', globals')
    BY <1>5, <1>8, <1>10, <2>3, <2>4, StateKept
  <2>6. OpenOK(heap', open')
    <3>1. \A o \in 1 .. Len(heap) :
              /\ IsOpen(heap', o) <=> IsOpen(heap, o)
              /\ IsOpen(heap, o) => heap'[o].slot = heap[o].slot
      BY <1>7, <2>1, <2>3 DEF IsOpen
    <3>2. /\ Len(heap) <= Len(heap')
          /\ \A o \in Len(heap) + 1 .. Len(heap') : ~ IsOpen(heap', o)
      BY <2>3, <2>4
    <3> QED  BY <1>5, <1>8, <2>4, <3>1, <3>2, OpenKept
  <2>7. DataOK
    BY <1>2, <1>5, <1>8, <2>3, <2>5, <2>6 DEF DataOK
  <2>8. Moves
    BY <1>1, <1>8, Advances DEF Running, Ready
  <2> QED  BY <1>1, <2>7, <2>8, Stays
<1> QED  BY <1>8, <1>9, <1>10

LEMMA CloseUpvalueKeeps == ASSUME IInv, Trusted, CloseUpvalue PROVE IInv'
<1>1. Ready /\ Ins[1] = "CloseUpvalue" /\ UNCHANGED program
  BY Fetched DEF CloseUpvalue, Fetch
<1>2. top - 1 >= -1 /\ top - 1 >= 0
  BY <1>1, OperandCounts DEF Ready
<1>3. /\ HeapOK(program, heap) /\ CellsOK(heap, cells)
      /\ GlobalsOK(heap, globals) /\ OpenOK(heap, open) /\ top \in Int
  BY <1>1 DEF Ready, IInv
<1>4. /\ CloseFrom(top) /\ Discard(1) /\ UNCHANGED globals
      /\ Advance /\ Running
  BY DEF CloseUpvalue
<1>5. HeapOK(program, heap') /\ Keeps(heap, heap') /\ OpenOK(heap', open')
  BY <1>3, <1>4, CloseIs
<1>6. CellsOK(heap', cells) /\ GlobalsOK(heap', globals)
  BY <1>3, <1>5, StateKept DEF HeapOK
<1>7. CellsOK(heap', cells') /\ top' \in Int /\ top' >= -1
  BY <1>2, <1>3, <1>4, <1>6, Discarded
<1>8. DataOK
  BY <1>4, <1>5, <1>6, <1>7 DEF DataOK
<1>9. Moves
  BY <1>1, <1>4, Advances DEF Running, Ready
<1> QED  BY <1>1, <1>8, <1>9, Stays

LEMMA CreateClosureKeeps ==
    ASSUME IInv, Trusted, StackFits', CreateClosure
    PROVE  IInv'
<1> DEFINE f == Ins[2]
    n == Len(program[f].ups)
    c == Len(heap) + 1
    acc == Captured(f)[n]
<1>1. Ready /\ Ins[1] = "CreateClosure" /\ UNCHANGED program
  BY Fetched DEF CreateClosure, Fetch
<1>2. /\ HeapOK(program, heap) /\ CellsOK(heap, cells)
      /\ GlobalsOK(heap, globals) /\ OpenOK(heap, open) /\ top \in Int
  BY <1>1 DEF Ready, IInv
<1>3. /\ heap' = [acc.heap EXCEPT ![c].ups = acc.ups]
      /\ open' = acc.open /\ Replace(0, Obj(c))
      /\ UNCHANGED globals /\ Advance /\ Running
  BY DEF CreateClosure, Push
<1>4. top + 1 <= MaxStack
  <2>1. top' = top - 0 + 1 /\ top' <= MaxStack
    BY <1>3 DEF Replace, StackFits
  <2> QED  BY <1>2, <2>1
<1>5. /\ f \in 1 .. Len(program)
      /\ IsSeq(program[f].ups)
      /\ \A k \in 1 .. n : \/ program[f].ups[k].is_local
                           \/ program[f].ups[k].index + 1
                                  \in 1 .. Len(program[fn].ups)
  <2>1. /\ fn \in 1 .. Len(program) /\ ip \in 1 .. Len(program[fn].code)
        /\ \A g \in 1 .. Len(program) : FunctionFits(program, g)
    BY <1>1 DEF Ready, Trusted, CodeFits, ProgramFits
  <2>2. RefersWell(Ins, program[fn].ups, program)
    BY <2>1 DEF FunctionFits, Ins
  <2>3. f \in 1 .. Len(program)
        /\ \A k \in 1 .. n : InReach(program[f].ups[k], program[fn].ups)
    BY <1>1, <2>2 DEF RefersWell
  <2>4. IsSeq(program[f].ups)
    BY <2>1, <2>3 DEF FunctionFits, IsCodeObject
  <2> QED  BY <2>3, <2>4 DEF InReach
<1>6. \A k \in 1 .. n :
          program[f].ups[k].is_local =>
              Frame.slot + program[f].ups[k].index \in Frame.slot .. top + 1
  BY <1>1 DEF Ready, Trusted, OperandsPresent
<1>7. Frame.slot .. top + 1 \subseteq 1 .. MaxStack
  BY <1>1, <1>2, <1>4, VirtualMachineAssumption DEF Ready
<1>8. CanCapture(f)
  <2>1. \A k \in 1 .. n :
            ~ program[f].ups[k].is_local =>
                Upvalue(program[f].ups[k].index) \in Ref(heap, "upvalue")
    BY <1>1, <1>5, UpvalueIs
  <2> QED  BY <1>5, <1>6, <1>7, <2>1 DEF CanCapture, IsSeq
<1>9. IsSeq(heap) /\ SlotsOK(heap, open)
  BY <1>2, OpenAre DEF HeapOK, SlotsOK
<1>10. CapturedOK(f, n, acc)
  BY <1>2, <1>8, <1>9, CapturedIs
<1> HIDE DEF acc
<1>11. /\ HeapOK(program, heap') /\ Keeps(heap, heap')
       /\ OpenOK(heap', open') /\ c \in 1 .. Len(heap')
  BY <1>2, <1>3, <1>5, <1>10, ClosureMade
<1>12. CellsOK(heap', cells) /\ GlobalsOK(heap', globals)
  BY <1>2, <1>9, <1>11, StateKept DEF HeapOK
<1> HIDE DEF c
<1>13. Good(heap', Obj(c)) /\ top - 0 >= 0
  BY <1>1, <1>11, PlainGood DEF Ready
<1>14. CellsOK(heap', cells') /\ top' \in Int /\ top' >= -1
  BY <1>2, <1>3, <1>12, <1>13, Replaced
<1>15. DataOK
  BY <1>3, <1>11, <1>12, <1>14 DEF DataOK
<1>16. Moves
  BY <1>1, <1>3, Advances DEF Running, Ready
<1> QED  BY <1>1, <1>15, <1>16, Stays

-----------------------------------------------------------------------------
(* Objects that are created and changed.                                   *)

\* A new object that is no upvalue, and the values of the stack.
LEMMA ObjectAdded ==
    ASSUME Ready, NEW x, ObjectOK(program, heap, Len(heap) + 1, x),
           x.type # "upvalue", heap' = Append(heap, x)
    PROVE  /\ HeapOK(program, heap') /\ Keeps(heap, heap')
           /\ OpenOK(heap', open) /\ CellsOK(heap', cells)
           /\ GlobalsOK(heap', globals)
           /\ Good(heap', Obj(Len(heap) + 1))
           /\ \A v : Good(heap, v) => Good(heap', v)
<1> DEFINE n == Len(heap)
<1>1. /\ HeapOK(program, heap) /\ CellsOK(heap, cells)
      /\ GlobalsOK(heap, globals) /\ OpenOK(heap, open) /\ top \in Int
  BY DEF Ready, IInv
<1>2. /\ HeapOK(program, heap') /\ Keeps(heap, heap')
      /\ Len(heap') = n + 1 /\ heap'[n + 1] = x
      /\ \A o \in 1 .. n : heap'[o] = heap[o]
  <2>1. Grown(program, heap, Append(heap, x), x)
    BY <1>1, HeapGrows
  <2> QED  BY <2>1 DEF Grown
<1>3. IsSeq(heap) /\ IsSeq(heap') /\ n \in Nat
  BY <1>1, <1>2 DEF HeapOK, IsSeq
<1>4. CellsOK(heap', cells) /\ GlobalsOK(heap', globals)
  BY <1>1, <1>2, <1>3, StateKept
<1>5. \A v : Good(heap, v) => Good(heap', v)
  BY <1>2, <1>3, RefsKept
<1>6. Good(heap', Obj(n + 1))
  <2>1. n + 1 \in 1 .. Len(heap')
    BY <1>2, <1>3
  <2> QED  BY <2>1, PlainGood
<1>7. OpenOK(heap', open)
  <2>1. n <= Len(heap') /\ \A o \in n + 1 .. Len(heap') : o = n + 1
    BY <1>2, <1>3
  <2>2. \A o \in n + 1 .. Len(heap') : ~ IsOpen(heap', o)
    BY <1>2, <2>1 DEF IsOpen
  <2>3. \A o \in 1 .. n : /\ IsOpen(heap', o) <=> IsOpen(heap, o)
                          /\ IsOpen(heap, o) => heap'[o].slot = heap[o].slot
    BY <1>2 DEF IsOpen
  <2> QED  BY <1>1, <1>3, <2>1, <2>2, <2>3, OpenKept
<1> QED  BY <1>2, <1>4, <1>5, <1>6, <1>7

\* An object that is changed, and is neither a closure nor an upvalue.
LEMMA ObjectSet ==
    ASSUME Ready, NEW c \in 1 .. Len(heap), NEW x,
           ObjectOK(program, heap, c, x), x.type = heap[c].type,
           heap[c].type # "closure", heap[c].type # "upvalue",
           heap' = [heap EXCEPT ![c] = x]
    PROVE  /\ HeapOK(program, heap') /\ Keeps(heap, heap')
           /\ OpenOK(heap', open) /\ CellsOK(heap', cells)
           /\ GlobalsOK(heap', globals)
           /\ \A v : Good(heap, v) => Good(heap', v)
<1> DEFINE n == Len(heap)
<1>1. /\ HeapOK(program, heap) /\ CellsOK(heap, cells)
      /\ GlobalsOK(heap, globals) /\ OpenOK(heap, open) /\ top \in Int
  BY DEF Ready, IInv
<1>2. /\ HeapOK(program, heap') /\ Keeps(heap, heap') /\ Len(heap') = n
      /\ \A o \in 1 .. n : heap'[o] = IF o = c THEN x ELSE heap[o]
  <2>1. Changed(program, heap, [heap EXCEPT ![c] = x], c, x)
    BY <1>1, HeapChanged
  <2> QED  BY <2>1 DEF Changed
<1>3. IsSeq(heap) /\ IsSeq(heap') /\ n \in Nat
  BY <1>1, <1>2 DEF HeapOK, IsSeq
<1>4. CellsOK(heap', cells) /\ GlobalsOK(heap', globals)
  BY <1>1, <1>2, <1>3, StateKept
<1>5. \A v : Good(heap, v) => Good(heap', v)
  BY <1>2, <1>3, RefsKept
<1>6. OpenOK(heap', open)
  <2>1. n <= Len(heap') /\ \A o \in n + 1 .. Len(heap') : ~ IsOpen(heap', o)
    BY <1>2, <1>3
  <2>2. \A o \in 1 .. n : /\ IsOpen(heap', o) <=> IsOpen(heap, o)
                          /\ IsOpen(heap, o) => heap'[o].slot = heap[o].slot
    BY <1>2 DEF IsOpen
  <2> QED  BY <1>1, <1>3, <2>1, <2>2, OpenKept
<1> QED  BY <1>2, <1>4, <1>5, <1>6

\* A step to the next instruction after which n values are replaced.
LEMMA Created ==
    ASSUME Ready, Ins[1] # "Return", UNCHANGED <<program, open, globals>>,
           HeapOK(program, heap'), Keeps(heap, heap'), OpenOK(heap', open),
           CellsOK(heap', cells), GlobalsOK(heap', globals),
           NEW n \in Nat, top - n >= 0, Advance, Running,
           \/ \E v : Good(heap', v) /\ Replace(n, v)
           \/ Discard(n)
    PROVE  IInv'
<1>1. top \in Int /\ top - n >= -1
  BY DEF Ready, IInv
<1>2. CellsOK(heap', cells') /\ top' \in Int /\ top' >= -1
  BY <1>1, Replaced, Discarded
<1>3. DataOK
  BY <1>2 DEF DataOK
<1>4. Moves
  BY Advances DEF Running, Ready
<1> QED  BY <1>3, <1>4, Stays

LEMMA NewClassIs ==
    ASSUME NEW name, NEW super, super = 0 \/ super \in Ref(heap, "class"),
           IsSeq(heap)
    PROVE  /\ ObjectOK(program, heap, Len(heap) + 1, NewClass(name, super))
           /\ NewClass(name, super).type # "upvalue"
<1> DEFINE x == NewClass(name, super)
<1>1. /\ x = [type |-> "class", name |-> x.name, methods |-> x.methods,
              super |-> x.super]
      /\ x.type = "class" /\ x.super = super /\ DOMAIN x.methods = {}
  BY DEF NewClass, Nothing
<1> HIDE DEF x
<1>2. super = 0 \/ (super \in Ref(heap, "class") /\ super < Len(heap) + 1)
  BY DEF IsSeq, Ref
<1>3. ClassOK(heap, Len(heap) + 1, x)
  BY <1>1, <1>2 DEF ClassOK
<1>4. ObjectOK(program, heap, Len(heap) + 1, x) /\ x.type # "upvalue"
  BY <1>1, <1>3 DEF ObjectOK
<1> QED  BY <1>4 DEF x

LEMMA CreateClassKeeps == ASSUME IInv, Trusted, CreateClass PROVE IInv'
<1> DEFINE x == NewClass(Ins[2], 0)
    v == Obj(Len(heap) + 1)
<1>1. Ready /\ Ins[1] = "CreateClass" /\ UNCHANGED program
  BY Fetched DEF CreateClass, Fetch
<1>2. top - 0 >= 0 /\ IsSeq(heap)
  BY <1>1 DEF Ready, IInv, HeapOK
<1>3. /\ heap' = Append(heap, x) /\ Replace(0, v) /\ UNCHANGED <<open, globals>>
      /\ Advance /\ Running
  BY DEF CreateClass, Push
<1>4. ObjectOK(program, heap, Len(heap) + 1, x) /\ x.type # "upvalue"
  BY <1>2, NewClassIs
<1> HIDE DEF x
<1>5. /\ HeapOK(program, heap') /\ Keeps(heap, heap') /\ OpenOK(heap', open)
      /\ CellsOK(heap', cells) /\ GlobalsOK(heap', globals) /\ Good(heap', v)
  BY <1>1, <1>3, <1>4, ObjectAdded
<1> QED  BY <1>1, <1>2, <1>3, <1>5, Created

LEMMA CreateSubclassKeeps == ASSUME IInv, Trusted, CreateSubclass PROVE IInv'
<1> DEFINE x == NewClass(Ins[2], Top(0)[2])
    v == Obj(Len(heap) + 1)
<1>1. Ready /\ Ins[1] = "CreateSubclass" /\ UNCHANGED program
  BY Fetched DEF CreateSubclass, Fetch
<1>2. top - 0 >= 0 /\ top - 0 >= 1 /\ top - 0 >= -1 /\ IsSeq(heap)
  BY <1>1, OperandCounts DEF Ready, IInv, HeapOK
<1>3. UNCHANGED <<open, globals>>
  BY DEF CreateSubclass
<1>4. CASE IsObj(Top(0), "class")
  <2>1. /\ heap' = Append(heap, x) /\ Replace(0, v) /\ Advance /\ Running
    BY <1>4 DEF CreateSubclass, Push
  <2>2. Top(0)[2] \in Ref(heap, "class")
    BY <1>1, <1>2, <1>4, TopGood DEF IsObj, Ref, Good
  <2>3. ObjectOK(program, heap, Len(heap) + 1, x) /\ x.type # "upvalue"
    BY <1>2, <2>2, NewClassIs
  <2> HIDE DEF x
  <2>4. /\ HeapOK(program, heap') /\ Keeps(heap, heap') /\ OpenOK(heap', open)
        /\ CellsOK(heap', cells) /\ GlobalsOK(heap', globals) /\ Good(heap', v)
    BY <1>1, <2>1, <2>3, ObjectAdded
  <2> QED  BY <1>1, <1>2, <1>3, <2>1, <2>4, Created
<1>5. CASE ~ IsObj(Top(0), "class")
  BY <1>1, <1>2, <1>3, <1>5, FailedKeeps DEF CreateSubclass, NoObjects
<1> QED  BY <1>4, <1>5

LEMMA CreateMethodKeeps == ASSUME IInv, Trusted, CreateMethod PROVE IInv'
<1> DEFINE c == Top(1)[2]
    x == [heap[c] EXCEPT !.methods = Put(@, Ins[2], Top(0)[2])]
<1>1. Ready /\ Ins[1] = "CreateMethod" /\ UNCHANGED program
  BY Fetched DEF CreateMethod, Fetch
<1>2. top - 0 >= 1 /\ top - 1 >= 1 /\ top - 1 >= 0 /\ HeapOK(program, heap)
  BY <1>1, OperandCounts DEF Ready, IInv
<1>3. /\ heap' = [heap EXCEPT ![c] = x] /\ Discard(1)
      /\ UNCHANGED <<open, globals>> /\ Advance /\ Running
  BY DEF CreateMethod
<1>4. IsObj(Top(1), "class") /\ IsObj(Top(0), "closure")
  BY <1>1 DEF Ready, Trusted, OperandsPresent
<1>5. c \in Ref(heap, "class") /\ Top(0)[2] \in Ref(heap, "closure")
  BY <1>1, <1>2, <1>4, TopGood DEF IsObj, Ref, Good
<1> HIDE DEF c
<1>6. ClassOK(heap, c, heap[c])
  BY <1>2, <1>5, TypesOf
<1>7. /\ x = [type |-> "class", name |-> x.name, methods |-> x.methods,
              super |-> x.super]
      /\ x.super = heap[c].super
      /\ x.methods = Put(heap[c].methods, Ins[2], Top(0)[2])
      /\ x.type = "class"
  BY <1>6 DEF ClassOK
<1> HIDE DEF x
<1>8. \A m \in DOMAIN x.methods : x.methods[m] \in Ref(heap, "closure")
  BY <1>5, <1>6, <1>7 DEF ClassOK, Put
<1>9. ObjectOK(program, heap, c, x)
  BY <1>6, <1>7, <1>8 DEF ObjectOK, ClassOK
<1>10. c \in 1 .. Len(heap) /\ heap[c].type = "class"
  BY <1>5 DEF Ref
<1>11. /\ HeapOK(program, heap') /\ Keeps(heap, heap') /\ OpenOK(heap', open)
       /\ CellsOK(heap', cells) /\ GlobalsOK(heap', globals)
  BY <1>1, <1>3, <1>7, <1>9, <1>10, ObjectSet
<1> QED  BY <1>1, <1>2, <1>3, <1>11, Created

\* A method is bound to an instance.
LEMMA BindKeeps ==
    ASSUME Ready, Ins[1] # "Return", UNCHANGED program,
           NEW n \in Nat, top - n >= 0, NEW m \in Ref(heap, "closure"),
           NEW o \in 1 .. Len(heap), Bind(n, m, o)
    PROVE  IInv'
<1> DEFINE x == [type |-> "method", closure |-> m, instance |-> o]
    v == Obj(Len(heap) + 1)
<1>1. /\ heap' = Append(heap, x) /\ Replace(n, v)
      /\ UNCHANGED <<open, globals>> /\ Advance /\ Running
  BY DEF Bind
<1>2. /\ x.type = "method" /\ x.closure = m /\ x.instance = o
      /\ x = [type |-> "method", closure |-> x.closure, instance |-> x.instance]
  OBVIOUS
<1> HIDE DEF x
<1>3. ObjectOK(program, heap, Len(heap) + 1, x) /\ x.type # "upvalue"
  BY <1>2 DEF ObjectOK, MethodOK
<1>4. /\ HeapOK(program, heap') /\ Keeps(heap, heap') /\ OpenOK(heap', open)
      /\ CellsOK(heap', cells) /\ GlobalsOK(heap', globals) /\ Good(heap', v)
  BY <1>1, <1>3, ObjectAdded
<1> QED  BY <1>1, <1>4, Created

\* The class of an instance.
LEMMA ClassOf ==
    ASSUME Ready, NEW o \in Ref(heap, "instance"), NEW name
    PROVE  \/ Method(heap[o].cls, name) = 0
           \/ Method(heap[o].cls, name) \in Ref(heap, "closure")
<1>1. HeapOK(program, heap)
  BY DEF Ready, IInv
<1>2. heap[o].cls \in Ref(heap, "class")
  BY <1>1, TypesOf DEF InstanceOK
<1>3. Ref(heap, "class") \subseteq Classes
  BY <1>1, SeqIs DEF HeapOK, Ref, Classes
<1> QED  BY <1>1, <1>2, <1>3, MethodFound

LEMMA GetPropertyKeeps == ASSUME IInv, Trusted, GetProperty PROVE IInv'
<1> DEFINE o == Top(0)[2]
    m == Method(heap[o].cls, Ins[2])
<1>1. Ready /\ Ins[1] = "GetProperty" /\ UNCHANGED program
  BY Fetched DEF GetProperty, Fetch
<1>2. top - 0 >= 1 /\ top - 1 >= 0 /\ top - 0 >= -1 /\ HeapOK(program, heap)
  BY <1>1, OperandCounts DEF Ready, IInv
<1>3. CASE Fail(0) /\ NoObjects
  BY <1>1, <1>2, <1>3, FailedKeeps
<1>4. ASSUME IsObj(Top(0), "instance")
      PROVE  o \in Ref(heap, "instance")
  BY <1>1, <1>2, <1>4, TopGood DEF IsObj, Ref, Good
<1>5. CASE /\ IsObj(Top(0), "instance") /\ Ins[2] \in DOMAIN heap[o].fields
           /\ Replace(1, heap[o].fields[Ins[2]])
           /\ NoObjects /\ Advance /\ Running
  <2> HIDE DEF o
  <2>1. InstanceOK(heap, heap[o])
    BY <1>2, <1>4, <1>5, TypesOf
  <2>2. Good(heap, heap[o].fields[Ins[2]])
    BY <1>5, <2>1 DEF InstanceOK
  <2> QED  BY <1>1, <1>2, <1>5, <2>2, Computed
<1>6. CASE IsObj(Top(0), "instance") /\ m # 0 /\ Bind(1, m, o)
  <2> HIDE DEF o
  <2>1. m \in Ref(heap, "closure")
    BY <1>1, <1>4, <1>6, ClassOf
  <2>2. o \in 1 .. Len(heap)
    BY <1>4, <1>6 DEF Ref
  <2> HIDE DEF m
  <2> QED  BY <1>1, <1>2, <1>6, <2>1, <2>2, BindKeeps
<1> QED  BY <1>3, <1>5, <1>6 DEF GetProperty

LEMMA SetPropertyKeeps == ASSUME IInv, Trusted, SetProperty PROVE IInv'
<1> DEFINE o == Top(1)[2]
    x == [heap[o] EXCEPT !.fields = Put(@, Ins[2], Top(0))]
<1>1. Ready /\ Ins[1] = "SetProperty" /\ UNCHANGED program
  BY Fetched DEF SetProperty, Fetch
<1>2. /\ top - 0 >= 1 /\ top - 1 >= 1 /\ top - 2 >= 0 /\ top - 0 >= -1
      /\ HeapOK(program, heap)
  BY <1>1, OperandCounts DEF Ready, IInv
<1>3. CASE ~ IsObj(Top(1), "instance")
  BY <1>1, <1>2, <1>3, FailedKeeps DEF SetProperty, NoObjects
<1>4. CASE IsObj(Top(1), "instance")
  <2>1. /\ heap' = [heap EXCEPT ![o] = x] /\ Replace(2, Top(0))
        /\ UNCHANGED <<open, globals>> /\ Advance /\ Running
    BY <1>4 DEF SetProperty
  <2>2. o \in Ref(heap, "instance")
    BY <1>1, <1>2, <1>4, TopGood DEF IsObj, Ref, Good
  <2> HIDE DEF o
  <2>3. InstanceOK(heap, heap[o]) /\ Good(heap, Top(0))
    BY <1>1, <1>2, <2>2, TypesOf, TopGood
  <2>4. /\ x = [type |-> "instance", cls |-> x.cls, fields |-> x.fields]
        /\ x.cls = heap[o].cls
        /\ x.fields = Put(heap[o].fields, Ins[2], Top(0))
        /\ x.type = "instance"
    BY <2>3 DEF InstanceOK
  <2> HIDE DEF x
  <2>5. \A f \in DOMAIN x.fields : Good(heap, x.fields[f])
    BY <2>3, <2>4 DEF InstanceOK, Put
  <2>6. ObjectOK(program, heap, o, x)
    BY <2>3, <2>4, <2>5 DEF ObjectOK, InstanceOK
  <2>7. o \in 1 .. Len(heap) /\ heap[o].type = "instance"
    BY <2>2 DEF Ref
  <2>8. /\ HeapOK(program, heap') /\ Keeps(heap, heap') /\ OpenOK(heap', open)
        /\ CellsOK(heap', cells) /\ GlobalsOK(heap', globals)
        /\ Good(heap', Top(0))
    BY <1>1, <2>1, <2>3, <2>4, <2>6, <2>7, ObjectSet
  <2> QED  BY <1>1, <1>2, <2>1, <2>8, Created
<1> QED  BY <1>3, <1>4

LEMMA GetSuperFuncKeeps == ASSUME IInv, Trusted, GetSuperFunc PROVE IInv'
<1> DEFINE c == Top(0)[2]
    o == Top(1)[2]
    m == Method(c, Ins[2])
<1>1. Ready /\ Ins[1] = "GetSuperFunc" /\ UNCHANGED program
  BY Fetched DEF GetSuperFunc, Fetch
<1>2. /\ top - 0 >= 1 /\ top - 1 >= 1 /\ top - 2 >= 0 /\ top - 1 >= -1
      /\ HeapOK(program, heap)
  BY <1>1, OperandCounts DEF Ready, IInv
<1>3. IsObj(Top(1), "instance") /\ IsObj(Top(0), "class")
  BY <1>1 DEF Ready, Trusted, OperandsPresent
<1>4. o \in 1 .. Len(heap) /\ c \in Ref(heap, "class")
  BY <1>1, <1>2, <1>3, TopGood DEF IsObj, Ref, Good
<1> HIDE DEF o, c
<1>5. Ref(heap, "class") \subseteq Classes
  BY <1>2, SeqIs DEF HeapOK, Ref, Classes
<1>6. m = 0 \/ m \in Ref(heap, "closure")
  BY <1>2, <1>4, <1>5, MethodFound
<1>7. CASE m # 0 /\ Bind(2, m, o)
  <2> HIDE DEF m
  <2> QED  BY <1>1, <1>2, <1>4, <1>6, <1>7, BindKeeps
<1>8. CASE Fail(1) /\ NoObjects
  BY <1>1, <1>2, <1>8, FailedKeeps
<1> QED  BY <1>7, <1>8 DEF GetSuperFunc, m, c, o

-----------------------------------------------------------------------------
(* Calls and returns.                                                      *)

\* What a call finds: its instruction, and n arguments above the callee.
Calling(n) ==
    /\ Ready /\ CodeFits /\ UNCHANGED program
    /\ Ins[1] \in {"Call", "Invoke"}
    /\ n \in Nat /\ top - n >= 1
    /\ Len(frames) > 1 => top - n > Frame.slot

\* The frame of a closure that is called.
LEMMA FramePushed ==
    ASSUME NEW n, Calling(n), DataOK, NEW c \in Ref(heap, "closure"),
           frames' = Append(frames, [ip |-> ip + 1, fn |-> fn, slot |-> top - n,
                                     closure |-> c]),
           fn' = heap[c].fn, ip' = 1, status' = "running"
    PROVE  IInv'
<1> DEFINE m == Len(frames)
    x == [ip |-> ip + 1, fn |-> fn, slot |-> top - n, closure |-> c]
<1>1. /\ IsSeq(heap) /\ IsSeq(heap') /\ Keeps(heap, heap')
      /\ HeapOK(program, heap) /\ HeapOK(program, heap')
      /\ FramesOK(heap, frames) /\ ChainOK(program, heap, frames, fn, ip)
  BY DEF Calling, Ready, IInv, ControlOK, DataOK, HeapOK
<1>2. FramesOK(heap', frames) /\ ChainOK(program, heap', frames, fn, ip)
  BY <1>1, StateKept
<1>3. m \in Nat /\ m > 0 /\ IsSeq(frames)
  BY <1>1 DEF ChainOK, FramesOK, IsSeq
<1>4. /\ IsSeq(frames') /\ Len(frames') = m + 1 /\ frames'[m + 1] = x
      /\ \A i \in 1 .. m : frames'[i] = frames[i]
  BY <1>3, AppendIs
<1>5. /\ x.ip = ip + 1 /\ x.fn = fn /\ x.slot = top - n /\ x.closure = c
  OBVIOUS
<1> HIDE DEF x
<1>6. c \in Ref(heap', "closure") /\ heap'[c] = heap[c]
  BY <1>1, RefsKept DEF Keeps, Ref
<1>7. top - n \in 1 .. MaxStack
  BY VirtualMachineAssumption DEF Calling, Ready
<1>8. FramesOK(heap', frames')
  <2>1. ASSUME NEW i \in 1 .. Len(frames')
        PROVE  /\ frames'[i].slot \in 1 .. MaxStack
               /\ frames'[i].closure \in Ref(heap', "closure")
    <3>1. i \in 1 .. m \/ i = m + 1
      BY <1>3, <1>4
    <3> QED  BY <1>2, <1>4, <1>5, <1>6, <1>7, <3>1 DEF FramesOK
  <2> QED  BY <1>4, <2>1 DEF FramesOK
<1>9. fn' \in 1 .. Len(program)
  BY <1>1, TypesOf DEF ClosureOK
<1>10. ip' \in 1 .. Len(program[fn'].code)
  BY <1>9 DEF Calling, Ready, CodeFits, ProgramFits, FunctionFits, ControlStays,
       RefersWell, InReach, IsJump
<1>11. ASSUME NEW j \in 1 .. m PROVE LinkOK(program, heap', frames', j)
  <2>1. CASE j < m
    <3>1. j \in 1 .. m - 1 /\ j + 1 \in 1 .. m
      BY <1>3, <2>1
    <3>2. LinkOK(program, heap', frames, j)
      BY <1>2, <3>1 DEF ChainOK
    <3> QED  BY <1>4, <3>1, <3>2 DEF LinkOK
  <2>2. CASE j = m
    <3>1. frames'[j] = Frame /\ frames'[j + 1] = x
      BY <1>3, <1>4, <2>2 DEF Frame, Last
    <3>2. fn = heap'[Frame.closure].fn
      BY <1>1 DEF Calling, Ready, Keeps, Ref
    <3>3. ip + 1 \in 2 .. Len(program[fn].code) /\ (ip + 1) - 1 = ip
      BY DEF Calling, Ready
    <3>4. program[fn].code[ip][1] \in {"Call", "Invoke"}
      BY DEF Calling, Ins
    <3>5. j > 1 => top - n > Frame.slot
      BY <2>2 DEF Calling
    <3> QED  BY <1>5, <3>1, <3>2, <3>3, <3>4, <3>5 DEF LinkOK
  <2> QED  BY <1>3, <2>1, <2>2
<1>12. ChainOK(program, heap', frames', fn', ip')
  <2>1. Len(frames') > 0 /\ Len(frames') - 1 = m
    BY <1>3, <1>4
  <2>2. fn' = heap'[frames'[Len(frames')].closure].fn
    BY <1>4, <1>5, <1>6
  <2>3. frames'[1].slot = 1
    BY <1>2, <1>3, <1>4 DEF ChainOK
  <2> QED  BY <1>10, <1>11, <2>1, <2>2, <2>3 DEF ChainOK
<1>13. program' = program
  BY DEF Calling
<1>14. ControlOK'
  BY <1>9, <1>12, <1>13 DEF ControlOK, DataOK
<1> QED  BY <1>8, <1>13, <1>14 DEF IInv, DataOK

LEMMA ClosureCalled ==
    ASSUME NEW n, Calling(n), NEW c \in Ref(heap, "closure"),
           CallClosure(c, n), HeapOK(program, heap'), Keeps(heap, heap'),
           OpenOK(heap', open), CellsOK(heap', cells'), GlobalsOK(heap', globals)
    PROVE  IInv'
<1>1. UNCHANGED <<top, open, globals>>
  BY DEF CallClosure
<1>2. DataOK
  BY <1>1 DEF DataOK, Calling, Ready, IInv, ControlOK
<1>3. CASE status' = "error" /\ Advance
  <2>1. Moves
    BY <1>3, Advances DEF Calling
  <2> QED  BY <1>2, <2>1, Stays DEF Calling
<1>4. CASE /\ frames' = Append(frames, [ip |-> ip + 1, fn |-> fn,
                                        slot |-> SlotBase(n), closure |-> c])
           /\ fn' = heap[c].fn /\ ip' = 1 /\ Running
  <2>1. status' = "running"
    BY <1>4 DEF Running, Calling, Ready
  <2> QED  BY <1>2, <1>4, <2>1, FramePushed DEF SlotBase
<1> QED  BY <1>3, <1>4 DEF CallClosure

LEMMA CallFailed ==
    ASSUME NEW n, Calling(n), Fail(0), NoObjects
    PROVE  IInv'
<1>1. Ready /\ Ins[1] # "Return" /\ UNCHANGED program /\ top - 0 >= -1
  BY DEF Calling, Ready
<1> QED  BY <1>1, FailedKeeps

LEMMA ClassCalled ==
    ASSUME NEW n, Calling(n), NEW c \in Ref(heap, "class"), CallClass(c, n)
    PROVE  IInv'
<1> DEFINE x == [type |-> "instance", cls |-> c, fields |-> Nothing]
    v == Obj(Len(heap) + 1)
    init == Method(c, "init")
<1>1. Ready /\ HeapOK(program, heap)
  BY DEF Calling, Ready, IInv
<1>2. heap' = Append(heap, x) /\ SetCallee(n, v)
  BY DEF CallClass
<1>3. /\ x = [type |-> "instance", cls |-> x.cls, fields |-> x.fields]
      /\ x.type = "instance" /\ x.cls = c /\ DOMAIN x.fields = {}
  BY DEF Nothing
<1> HIDE DEF x
<1>4. ObjectOK(program, heap, Len(heap) + 1, x) /\ x.type # "upvalue"
  BY <1>3 DEF ObjectOK, InstanceOK
<1>5. /\ HeapOK(program, heap') /\ Keeps(heap, heap') /\ OpenOK(heap', open)
      /\ CellsOK(heap', cells) /\ GlobalsOK(heap', globals) /\ Good(heap', v)
  BY <1>1, <1>2, <1>4, ObjectAdded
<1>6. CellsOK(heap', cells')
  BY <1>2, <1>5, CellPut DEF SetCallee
<1>7. CASE init # 0 /\ CallClosure(init, n)
  <2>1. c \in Classes
    BY <1>1, SeqIs DEF HeapOK, Ref, Classes
  <2>2. init \in Ref(heap, "closure")
    BY <1>1, <1>7, <2>1, MethodFound
  <2> HIDE DEF init
  <2> QED  BY <1>5, <1>6, <1>7, <2>2, ClosureCalled
<1>8. CASE /\ UNCHANGED <<top, open, globals>> /\ Advance
           /\ Running \/ status' = "error"
  <2>1. status' \in {"running", "error"}
    BY <1>1, <1>8 DEF Ready, Running
  <2>2. top' \in Int /\ top' >= -1
    BY <1>1, <1>8 DEF Ready, IInv, ControlOK
  <2>3. DataOK
    BY <1>5, <1>6, <1>8, <2>2 DEF DataOK
  <2>4. Moves
    BY <1>8, <2>1, Advances DEF Calling
  <2> QED  BY <1>1, <2>3, <2>4, Stays
<1> QED  BY <1>7, <1>8 DEF CallClass

LEMMA NativeCalled ==
    ASSUME NEW n, Calling(n), NEW c, CallNative(c, n)
    PROVE  IInv'
<1>1. /\ Ready /\ Ins[1] # "Return" /\ UNCHANGED program
      /\ CellsOK(heap, cells) /\ GlobalsOK(heap, globals)
      /\ n \in Nat /\ top \in Int /\ top - n >= 1 /\ top >= -1
  BY DEF Calling, Ready, IInv, ControlOK
<1>2. NoObjects /\ Advance
  BY DEF CallNative
<1>3. CASE /\ top' = top - n /\ cells' = [cells EXCEPT ![top - n - n] = Num(0)]
           /\ Running
  <2>1. CellsOK(heap, cells')
    BY <1>1, <1>3, CellPut, PlainGood
  <2>2. top' \in Int /\ top' >= -1
    BY <1>1, <1>3
  <2>3. StackOK(heap) /\ status' = "running"
    BY <1>1, <1>3, <2>1, <2>2 DEF StackOK, Running, Ready
  <2> QED  BY <1>1, <1>2, <2>3, Plain DEF NoObjects
<1>4. CASE status' = "error" /\ Discard(0)
  <2>1. top - 0 >= -1
    BY <1>1
  <2>2. StackOK(heap)
    BY <1>1, <1>4, <2>1, Discarded DEF StackOK
  <2> QED  BY <1>1, <1>2, <1>4, <2>2, Plain DEF NoObjects
<1> QED  BY <1>3, <1>4 DEF CallNative

LEMMA ObjectCalled ==
    ASSUME NEW n, Calling(n), NEW v, Good(heap, v), CallObject(v, n)
    PROVE  IInv'
<1>1. /\ HeapOK(program, heap) /\ CellsOK(heap, cells) /\ IsSeq(heap)
      /\ GlobalsOK(heap, globals) /\ OpenOK(heap, open)
  BY DEF Calling, Ready, IInv, HeapOK
<1>2. Keeps(heap, heap)
  BY <1>1 DEF IsSeq, Keeps
<1>3. ASSUME NEW t, IsObj(v, t) PROVE v[2] \in Ref(heap, t)
  BY <1>3 DEF IsObj, Ref, Good
<1>4. CASE IsObj(v, "class") /\ CallClass(v[2], n)
  BY <1>3, <1>4, ClassCalled
<1>5. CASE /\ IsObj(v, "closure")
           /\ CallClosure(v[2], n) /\ UNCHANGED <<cells, heap>>
  <2>1. v[2] \in Ref(heap, "closure")
    BY <1>3, <1>5
  <2>2. /\ HeapOK(program, heap') /\ Keeps(heap, heap') /\ OpenOK(heap', open)
        /\ CellsOK(heap', cells') /\ GlobalsOK(heap', globals)
    BY <1>1, <1>2, <1>5
  <2> QED  BY <1>5, <2>1, <2>2, ClosureCalled
<1>6. CASE /\ IsObj(v, "method") /\ UNCHANGED heap
           /\ SetCallee(n, Obj(heap[v[2]].instance))
           /\ CallClosure(heap[v[2]].closure, n)
  <2> DEFINE x == heap[v[2]]
  <2>1. MethodOK(heap, x)
    BY <1>1, <1>3, <1>6, TypesOf
  <2> HIDE DEF x
  <2>2. x.closure \in Ref(heap, "closure") /\ Good(heap, Obj(x.instance))
    BY <2>1, PlainGood DEF MethodOK
  <2>3. CellsOK(heap, cells')
    BY <1>1, <1>6, <2>2, CellPut DEF SetCallee, x
  <2>4. /\ HeapOK(program, heap') /\ Keeps(heap, heap') /\ OpenOK(heap', open)
        /\ CellsOK(heap', cells') /\ GlobalsOK(heap', globals)
    BY <1>1, <1>2, <1>6, <2>3
  <2>5. CallClosure(x.closure, n)
    BY <1>6 DEF x
  <2> QED  BY <2>2, <2>4, <2>5, ClosureCalled
<1>7. CASE CallNative(v[2], n)
  BY <1>7, NativeCalled
<1>8. CASE Fail(0) /\ NoObjects
  BY <1>8, CallFailed
<1> QED  BY <1>4, <1>5, <1>6, <1>7, <1>8, Zenon DEF CallObject

LEMMA CallingIs ==
    ASSUME IInv, Trusted, status = "running", UNCHANGED program, NEW n,
           \/ Ins[1] = "Call" /\ Ins[2] = n
           \/ Ins[1] = "Invoke" /\ Ins[3] = n
    PROVE  Calling(n)
<1>1. Ready
  BY Fetched
<1>2. Operands(Ins) = n + 1 /\ Ins[1] \in {"Call", "Invoke"}
  BY OperandCounts
<1>3. n \in Nat
  BY <1>1 DEF Ready, Trusted, CodeFits, ProgramFits, FunctionFits, ControlStays,
       RefersWell, InReach, IsJump, Ins
<1>4. top - n >= 1
  BY <1>1, <1>2, <1>3 DEF Ready
<1>5. ASSUME Len(frames) > 1 PROVE top - n > Frame.slot
  <2>1. top - (n + 1) >= Frame.slot
    BY <1>2, <1>5 DEF Trusted, OperandsPresent
  <2>2. top \in Int /\ Frame.slot \in Int
    BY <1>1, VirtualMachineAssumption DEF Ready
  <2> QED  BY <1>3, <2>1, <2>2
<1> QED  BY <1>1, <1>2, <1>3, <1>4, <1>5 DEF Calling, Trusted

LEMMA CallKeeps == ASSUME IInv, Trusted, Call PROVE IInv'
<1> DEFINE n == Ins[2]
<1>1. Calling(n) /\ CallObject(Top(n), n)
  BY CallingIs DEF Call, Fetch
<1>2. Good(heap, Top(n))
  BY <1>1, TopGood DEF Calling
<1> QED  BY <1>1, <1>2, ObjectCalled

LEMMA InvokeKeeps == ASSUME IInv, Trusted, Invoke PROVE IInv'
<1> DEFINE n == Ins[3]
    o == Top(n)[2]
    m == Method(heap[o].cls, Ins[2])
<1>1. Calling(n)
  BY CallingIs DEF Invoke, Fetch
<1>2. /\ HeapOK(program, heap) /\ CellsOK(heap, cells) /\ IsSeq(heap)
      /\ GlobalsOK(heap, globals) /\ OpenOK(heap, open) /\ Ready
  BY <1>1 DEF Calling, Ready, IInv, HeapOK
<1>3. ASSUME IsObj(Top(n), "instance") PROVE o \in Ref(heap, "instance")
  <2>1. Good(heap, Top(n))
    BY <1>1, TopGood DEF Calling
  <2> QED  BY <1>3, <2>1 DEF IsObj, Ref, Good
<1>4. CASE Fail(0) /\ NoObjects
  BY <1>1, <1>4, CallFailed
<1>5. CASE /\ IsObj(Top(n), "instance") /\ Ins[2] \in DOMAIN heap[o].fields
           /\ CallObject(heap[o].fields[Ins[2]], n)
  <2> HIDE DEF o
  <2>1. InstanceOK(heap, heap[o])
    BY <1>2, <1>3, <1>5, TypesOf
  <2>2. Good(heap, heap[o].fields[Ins[2]])
    BY <1>5, <2>1 DEF InstanceOK
  <2> QED  BY <1>1, <1>5, <2>2, ObjectCalled
<1>6. CASE /\ IsObj(Top(n), "instance") /\ m # 0 /\ CallClosure(m, n)
           /\ UNCHANGED <<cells, heap>>
  <2> HIDE DEF o
  <2>1. m \in Ref(heap, "closure")
    BY <1>2, <1>3, <1>6, ClassOf
  <2> HIDE DEF m
  <2>2. Keeps(heap, heap)
    BY <1>2 DEF IsSeq, Keeps
  <2>3. /\ HeapOK(program, heap') /\ Keeps(heap, heap') /\ OpenOK(heap', open)
        /\ CellsOK(heap', cells') /\ GlobalsOK(heap', globals)
    BY <1>2, <1>6, <2>2
  <2> QED  BY <1>1, <1>6, <2>1, <2>3, ClosureCalled
<1> QED  BY <1>4, <1>5, <1>6 DEF Invoke

\* The frames that are left when the last one is removed.
LEMMA FramePopped ==
    ASSUME FramesOK(heap', frames), ChainOK(program, heap', frames, fn, ip)
    PROVE  /\ FramesOK(heap', Front(frames))
           /\ Len(frames) > 1 =>
                  /\ Frame.fn \in 1 .. Len(program)
                     => ChainOK(program, heap', Front(frames), Frame.fn, Frame.ip)
                  /\ Frame.fn = heap'[frames[Len(frames) - 1].closure].fn
                  /\ frames[Len(frames) - 1].closure \in Ref(heap', "closure")
<1> DEFINE m == Len(frames)
    fs == Front(frames)
<1>1. m \in Nat /\ m > 0 /\ IsSeq(frames)
  BY DEF ChainOK, FramesOK, IsSeq
<1>2. IsSeq(fs) /\ Len(fs) = m - 1 /\ \A i \in 1 .. m - 1 : fs[i] = frames[i]
  BY <1>1, FrontIs
<1>3. FramesOK(heap', fs)
  <2>1. \A i \in 1 .. m - 1 : i \in 1 .. m
    BY <1>1
  <2> QED  BY <1>2, <2>1 DEF FramesOK
<1>4. ASSUME m > 1
      PROVE  /\ ChainOK(program, heap', fs, Frame.fn, Frame.ip)
             /\ Frame.fn = heap'[frames[m - 1].closure].fn
             /\ frames[m - 1].closure \in Ref(heap', "closure")
  <2>1. m - 1 \in 1 .. m - 1 /\ m - 1 \in 1 .. m /\ (m - 1) + 1 = m
    BY <1>1, <1>4
  <2>2. LinkOK(program, heap', frames, m - 1) /\ Frame = frames[m]
    BY <2>1 DEF ChainOK, Frame, Last
  <2>3. /\ Frame.fn = heap'[frames[m - 1].closure].fn
        /\ Frame.ip \in 2 .. Len(program[Frame.fn].code)
        /\ frames[m - 1].closure \in Ref(heap', "closure")
    BY <2>1, <2>2 DEF LinkOK, FramesOK
  <2>4. Frame.ip \in 1 .. Len(program[Frame.fn].code)
    BY <2>3
  <2>5. ASSUME NEW j \in 1 .. (m - 1) - 1 PROVE LinkOK(program, heap', fs, j)
    <3>1. j \in 1 .. m - 1 /\ j + 1 \in 1 .. m - 1
      BY <1>1, <2>5
    <3>2. LinkOK(program, heap', frames, j)
      BY <3>1 DEF ChainOK
    <3> QED  BY <1>2, <3>1, <3>2 DEF LinkOK
  <2>6. Frame.fn = heap'[fs[Len(fs)].closure].fn /\ Len(fs) > 0
    BY <1>1, <1>2, <1>4, <2>1, <2>3
  <2>7. fs[1].slot = 1
    BY <1>1, <1>2, <1>4 DEF ChainOK
  <2> QED  BY <1>2, <2>3, <2>4, <2>5, <2>6, <2>7 DEF ChainOK
<1> QED  BY <1>3, <1>4

LEMMA ReturnKeeps == ASSUME IInv, Trusted, Return PROVE IInv'
<1> DEFINE s == Frame.slot
<1>1. /\ Ready /\ Ins[1] = "Return" /\ UNCHANGED program
      /\ HeapOK(program, heap) /\ CellsOK(heap, cells) /\ IsSeq(heap)
      /\ GlobalsOK(heap, globals) /\ OpenOK(heap, open)
      /\ FramesOK(heap, frames) /\ ChainOK(program, heap, frames, fn, ip)
  BY Fetched DEF Return, Fetch, Ready, IInv, HeapOK, ControlOK
<1>2. CloseFrom(s) /\ frames' = Front(frames) /\ UNCHANGED globals
  BY DEF Return
<1>3. HeapOK(program, heap') /\ Keeps(heap, heap') /\ OpenOK(heap', open')
  BY <1>1, <1>2, CloseIs
<1>4. IsSeq(heap')
  BY <1>3 DEF HeapOK
<1>5. /\ CellsOK(heap', cells) /\ GlobalsOK(heap', globals')
      /\ FramesOK(heap', frames) /\ ChainOK(program, heap', frames, fn, ip)
  BY <1>1, <1>2, <1>3, <1>4, StateKept
<1>6. FramesOK(heap', frames')
  BY <1>2, <1>5, FramePopped
<1>7. CASE /\ Len(frames) = 1 /\ status' = "done" /\ Discard(1) /\ UNCHANGED fn
  <2>1. cells' = cells /\ top' \in Int /\ top' >= -1
    BY <1>1, <1>7 DEF Discard, Ready
  <2>2. fn' \in 1 .. Len(program')
    BY <1>1, <1>7 DEF Ready
  <2>3. ControlOK'
    BY <1>7, <2>1, <2>2 DEF ControlOK
  <2> QED  BY <1>1, <1>3, <1>5, <1>6, <2>1, <2>3 DEF IInv
<1>8. CASE /\ Len(frames) > 1 /\ cells' = [cells EXCEPT ![ResultCell] = Top(0)]
           /\ top' = ResultCell /\ Resume /\ Running
  <2>1. Operands(Ins) = 1
    BY <1>1, <1>8, OperandCounts
  <2>2. top - 0 >= 1
    BY <1>1, <2>1 DEF Ready
  <2>3. Good(heap, Top(0))
    BY <1>1, <2>2, TopGood
  <2>4. Good(heap', Top(0))
    BY <1>1, <1>3, <1>4, <2>3, RefsKept
  <2>5. CellsOK(heap', cells')
    BY <1>5, <1>8, <2>4, CellPut
  <2>6. top' \in Int /\ top' >= -1
    BY <1>1, <1>8, VirtualMachineAssumption DEF Ready, ResultCell
  <2>7. /\ Frame.fn \in 1 .. Len(program)
           => ChainOK(program, heap', frames', Frame.fn, Frame.ip)
        /\ Frame.fn = heap'[frames[Len(frames) - 1].closure].fn
        /\ frames[Len(frames) - 1].closure \in Ref(heap', "closure")
    BY <1>2, <1>5, <1>8, FramePopped
  <2>8. Frame.fn \in 1 .. Len(program)
    <3> DEFINE c == frames[Len(frames) - 1].closure
    <3>1. ClosureOK(program, heap', heap'[c])
      BY <1>3, <2>7, TypesOf
    <3>2. heap'[c].fn \in 1 .. Len(program)
      BY <3>1 DEF ClosureOK
    <3> QED  BY <2>7, <3>2
  <2>9. status' = "running" /\ fn' = Frame.fn /\ ip' = Frame.ip
    BY <1>1, <1>8 DEF Running, Ready, Resume
  <2>10. ControlOK'
    BY <1>1, <2>6, <2>7, <2>8, <2>9 DEF ControlOK
  <2> QED  BY <1>1, <1>3, <1>5, <1>6, <2>5, <2>10 DEF IInv
<1> QED  BY <1>7, <1>8 DEF Return

-----------------------------------------------------------------------------
(* The code that is loaded.                                                *)

\* The functions of the first program keep their numbers.
LEMMA FirstLoaded ==
    ASSUME program = <<>>, NEW p, ProgramFits(p), NEW q,
           q = program \o Relocated(p)
    PROVE  /\ IsSeq(q) /\ Len(q) = Len(p)
           /\ \A f \in 1 .. Len(p) :
                  /\ IsCodeObject(q[f]) /\ q[f].ups = p[f].ups
                  /\ Len(q[f].code) = Len(p[f].code)
                  /\ \A j \in 1 .. Len(p[f].code) :
                         \/ q[f].code[j] = p[f].code[j]
                         \/ /\ p[f].code[j][1] = "CreateClosure"
                            /\ q[f].code[j] = <<"CreateClosure", p[f].code[j][2]>>
<1> DEFINE New(ins) == IF ins[1] = "CreateClosure"
                       THEN <<ins[1], ins[2] + Len(program)>> ELSE ins
           Code(x) == [j \in DOMAIN x.code |-> New(x.code[j])]
           New1(x) == [x EXCEPT !.code = Code(x)]
           r == [i \in DOMAIN p |-> New1(p[i])]
<1>1. q = <<>> \o r
  BY DEF Relocated
<1>2. /\ IsSeq(p) /\ Len(p) \in Nat
      /\ \A f \in 1 .. Len(p) : FunctionFits(p, f)
  BY DEF ProgramFits, IsSeq
<1>3. \A ins : \/ New(ins) = ins
              \/ /\ ins[1] = "CreateClosure"
                 /\ New(ins) = <<"CreateClosure", ins[2] + 0>>
  BY Len(program) = 0
<1>4. ASSUME NEW x, IsCodeObject(x), ControlStays(x.code)
      PROVE  /\ IsCodeObject(New1(x)) /\ New1(x).ups = x.ups
             /\ Len(New1(x).code) = Len(x.code)
             /\ \A j \in 1 .. Len(x.code) : New1(x).code[j] = New(x.code[j])
  <2> DEFINE c == Code(x)
             n == Len(x.code)
  <2> HIDE DEF New
  <2>1. n \in Nat /\ DOMAIN x.code = 1 .. n
    BY <1>4 DEF IsCodeObject, IsSeq
  <2>2. c = [j \in 1 .. n |-> New(x.code[j])]
    BY <2>1
  <2>3. IsSeq(c) /\ Len(c) = n /\ \A j \in 1 .. n : c[j] = New(x.code[j])
    <3> HIDE DEF c, n
    <3> QED  BY <2>1, <2>2 DEF IsSeq
  <2> HIDE DEF c
  <2>4. New1(x) = [name |-> x.name, arity |-> x.arity, ups |-> x.ups, code |-> c]
    BY <1>4 DEF IsCodeObject, c
  <2> HIDE DEF New1
  <2> QED  BY <1>4, <2>3, <2>4 DEF IsCodeObject
<1> HIDE DEF New1
<1>5. r = [i \in 1 .. Len(p) |-> New1(p[i])]
  BY <1>2 DEF IsSeq
<1> HIDE DEF r
<1>6. IsSeq(r) /\ Len(r) = Len(p) /\ \A i \in 1 .. Len(p) : r[i] = New1(p[i])
  BY <1>2, <1>5 DEF IsSeq
<1>7. IsSeq(<<>>) /\ Len(<<>>) = 0
  BY DEF IsSeq
<1>8. /\ IsSeq(<<>> \o r) /\ Len(<<>> \o r) = 0 + Len(r)
      /\ \A i \in 1 .. Len(r) : (<<>> \o r)[0 + i] = r[i]
  <2> DEFINE e == <<>>
  <2> HIDE DEF e
  <2>1. IsSeq(e) /\ IsSeq(r)
    BY <1>6, <1>7 DEF e
  <2>2. /\ IsSeq(e \o r) /\ Len(e \o r) = Len(e) + Len(r)
        /\ \A i \in 1 .. Len(r) : (e \o r)[Len(e) + i] = r[i]
    BY <2>1, ConcatIs
  <2> QED  BY <1>7, <2>2 DEF e
<1>9. IsSeq(q) /\ Len(q) = Len(p) /\ \A f \in 1 .. Len(p) : q[f] = New1(p[f])
  BY <1>1, <1>2, <1>6, <1>8
<1>10. ASSUME NEW f \in 1 .. Len(p)
       PROVE  /\ IsCodeObject(q[f]) /\ q[f].ups = p[f].ups
              /\ Len(q[f].code) = Len(p[f].code)
              /\ \A j \in 1 .. Len(p[f].code) : q[f].code[j] = New(p[f].code[j])
  <2> HIDE DEF New
  <2>1. q[f] = New1(p[f]) /\ IsCodeObject(p[f]) /\ ControlStays(p[f].code)
    BY <1>2, <1>9 DEF FunctionFits
  <2> QED  BY <1>4, <2>1
<1>11. ASSUME NEW f \in 1 .. Len(p), NEW j \in 1 .. Len(p[f].code),
              p[f].code[j][1] = "CreateClosure"
       PROVE  p[f].code[j][2] + 0 = p[f].code[j][2]
  <2>1. p[f].code[j][2] \in 1 .. Len(p)
    BY <1>2, <1>11 DEF FunctionFits, RefersWell
  <2> QED  BY <1>2, <2>1
<1> HIDE DEF New
<1>12. ASSUME NEW f \in 1 .. Len(p), NEW j \in 1 .. Len(p[f].code)
       PROVE  \/ q[f].code[j] = p[f].code[j]
              \/ /\ p[f].code[j][1] = "CreateClosure"
                 /\ q[f].code[j] = <<"CreateClosure", p[f].code[j][2]>>
  BY <1>3, <1>10, <1>11
<1> QED  BY <1>9, <1>10, <1>12

\* A program that fits still does when it has been loaded.
LEMMA FirstFits ==
    ASSUME program = <<>>, NEW p, ProgramFits(p), NEW q,
           q = program \o Relocated(p)
    PROVE  ProgramFits(q)
<1>1. /\ IsSeq(q) /\ Len(q) = Len(p)
      /\ \A f \in 1 .. Len(p) :
             /\ IsCodeObject(q[f]) /\ q[f].ups = p[f].ups
             /\ Len(q[f].code) = Len(p[f].code)
             /\ \A j \in 1 .. Len(p[f].code) :
                    \/ q[f].code[j] = p[f].code[j]
                    \/ /\ p[f].code[j][1] = "CreateClosure"
                       /\ q[f].code[j] = <<"CreateClosure", p[f].code[j][2]>>
  BY FirstLoaded
<1>2. /\ 1 \in 1 .. Len(p) /\ p[1].ups = <<>>
      /\ \A f \in 1 .. Len(p) : FunctionFits(p, f)
  BY DEF ProgramFits
<1>3. ASSUME NEW f \in 1 .. Len(p) PROVE FunctionFits(q, f)
  <2> DEFINE s == p[f].code
             t == q[f].code
             u == p[f].ups
  <2>1. IsCodeObject(q[f]) /\ q[f].ups = u /\ Len(t) = Len(s)
    BY <1>1
  <2>2. ControlStays(s) /\ \A i \in 1 .. Len(s) : RefersWell(s[i], u, p)
    BY <1>2 DEF FunctionFits
  <2>3. ASSUME NEW i \in 1 .. Len(s)
        PROVE  \/ t[i] = s[i]
               \/ s[i][1] = "CreateClosure" /\ t[i] = <<"CreateClosure", s[i][2]>>
    BY <1>1
  <2> HIDE DEF s, t, u
  <2>4. ASSUME NEW i \in 1 .. Len(s)
        PROVE  t[i][1] = s[i][1] /\ t[i][2] = s[i][2]
               /\ (s[i][1] # "CreateClosure" => t[i] = s[i])
    BY <2>3
  <2>5. ControlStays(t)
    BY <2>1, <2>2, <2>4 DEF ControlStays, IsJump
  <2>6. ASSUME NEW i \in 1 .. Len(s) PROVE RefersWell(t[i], u, q)
    <3>1. RefersWell(s[i], u, p)
      BY <2>2
    <3>2. CASE s[i][1] # "CreateClosure"
      <4>1. t[i] = s[i]
        BY <2>4, <3>2
      <4> QED  BY <3>1, <3>2, <4>1 DEF RefersWell
    <3>3. CASE s[i][1] = "CreateClosure"
      <4>1. t[i][1] = "CreateClosure" /\ t[i][2] = s[i][2]
        BY <2>4, <3>3
      <4>2. /\ s[i][2] \in 1 .. Len(p)
            /\ \A k \in 1 .. Len(p[s[i][2]].ups) : InReach(p[s[i][2]].ups[k], u)
        BY <3>1, <3>3 DEF RefersWell
      <4>3. q[s[i][2]].ups = p[s[i][2]].ups
        BY <1>1, <4>2
      <4> QED  BY <1>1, <4>1, <4>2, <4>3 DEF RefersWell
    <3> QED  BY <3>2, <3>3
  <2>7. IsCodeObject(q[f]) /\ ControlStays(q[f].code)
    BY <2>1, <2>5 DEF t
  <2>8. \A i \in 1 .. Len(q[f].code) : RefersWell(q[f].code[i], q[f].ups, q)
    BY <2>1, <2>6 DEF t, s, u
  <2> QED  BY <2>7, <2>8 DEF FunctionFits
<1>4. q[1].ups = <<>>
  BY <1>1, <1>2
<1> QED  BY <1>1, <1>2, <1>3, <1>4 DEF ProgramFits
\* No instruction changes the code, and the machine is not idle afterwards.
LEMMA ProgramKept ==
    ASSUME Instruction
    PROVE  UNCHANGED program /\ status = "running" /\ status' # "idle"
<1>1. CASE \/ Arithmetic \/ Add \/ Equal \/ Not \/ Negate \/ Literal \/ Pop
           \/ PrintTop \/ ConditionalJump \/ Jump
  BY <1>1 DEF Arithmetic, Add, Equal, Not, Negate, Literal, Pop, PrintTop,
     ConditionalJump, Jump, Fetch, Running, Fail
<1>2. CASE \/ DefineGlobal \/ GetGlobal \/ SetGlobal \/ GetLocal \/ SetLocal
           \/ GetUpvalue \/ SetUpvalue \/ CloseUpvalue
  BY <1>2 DEF DefineGlobal, GetGlobal, SetGlobal, GetLocal, SetLocal, GetUpvalue,
     SetUpvalue, CloseUpvalue, Fetch, Running, Fail
<1>3. CASE \/ CreateClosure \/ CreateClass \/ CreateSubclass \/ CreateMethod
           \/ GetProperty \/ SetProperty \/ GetSuperFunc
  BY <1>3 DEF CreateClosure, CreateClass, CreateSubclass, CreateMethod,
     GetProperty, SetProperty, GetSuperFunc, Bind, Fetch, Running, Fail
<1>4. ASSUME NEW c, NEW n, CallClosure(c, n), status = "running"
      PROVE  status' # "idle"
  BY <1>4 DEF CallClosure, Running
<1>5. ASSUME NEW v, NEW n, CallObject(v, n), status = "running"
      PROVE  status' # "idle"
  <2>1. \/ CallClass(v[2], n) \/ CallClosure(v[2], n)
        \/ CallClosure(heap[v[2]].closure, n) \/ CallNative(v[2], n) \/ Fail(0)
    BY <1>5 DEF CallObject
  <2>2. CASE CallClass(v[2], n)
    BY <1>4, <1>5, <2>2 DEF CallClass, Running
  <2>3. CASE CallNative(v[2], n)
    BY <1>5, <2>3 DEF CallNative, Running
  <2>4. CASE Fail(0)
    BY <2>4 DEF Fail
  <2> QED  BY <1>4, <1>5, <2>1, <2>2, <2>3, <2>4
<1>6. CASE Call
  BY <1>5, <1>6 DEF Call, Fetch
<1>7. CASE Invoke
  BY <1>4, <1>5, <1>7 DEF Invoke, Fetch, Fail
<1>8. CASE Return
  BY <1>8 DEF Return, Fetch, Running
<1> QED  BY <1>1, <1>2, <1>3, <1>6, <1>7, <1>8 DEF Instruction

\* The code that is loaded is the code that runs.
LoadedFits == CodeFits /\ (status = "idle" => program = <<>>)

LEMMA LoadsFitting ==
    ASSUME LoadedFits, NEW p, ProgramFits(p), Execute(p)
    PROVE  LoadedFits'
<1>1. program = <<>> /\ program' = program \o Relocated(p) /\ status' = "running"
  BY DEF LoadedFits, Execute
<1>2. ProgramFits(program')
  BY <1>1, FirstFits
<1> QED  BY <1>1, <1>2 DEF LoadedFits, CodeFits

LEMMA StaysFitting == ASSUME LoadedFits, Instruction PROVE LoadedFits'
<1>1. ProgramFits(program)
  BY ProgramKept DEF LoadedFits, CodeFits
<1>2. UNCHANGED program /\ status' # "idle"
  BY ProgramKept
<1> QED  BY <1>1, <1>2 DEF LoadedFits, CodeFits

-----------------------------------------------------------------------------
(* The beginning of a program, and every step.                             *)

LEMMA InitKeeps == ASSUME Init PROVE IInv
<1>1. cells = [i \in 1 .. MaxStack |-> Garbage]
  BY DEF Init
<1>2. CellsOK(heap, cells)
  <2>1. ~ Is(Garbage, "obj")
    BY DEF Garbage, Is
  <2> QED  BY <1>1, <2>1 DEF CellsOK, Good
<1>3. IsSeq(heap) /\ Len(heap) = 1 /\ heap[1] = [type |-> "native", arity |-> 0]
  BY DEF Init, IsSeq
<1>4. HeapOK(program, heap)
  <2>1. \A o \in 1 .. Len(heap) : o = 1
    BY <1>3
  <2> QED  BY <1>3, <2>1 DEF HeapOK, ObjectOK, NativeOK
<1>5. GlobalsOK(heap, globals)
  <2>1. \A x \in DOMAIN globals : globals[x] = Obj(1)
    BY DEF Init
  <2>2. Good(heap, Obj(1))
    BY <1>3, PlainGood
  <2> QED  BY <2>1, <2>2 DEF GlobalsOK
<1>6. IsSeq(<<>>) /\ 1 .. Len(<<>>) = {}
  BY DEF IsSeq
<1>7. FramesOK(heap, frames)
  BY <1>6 DEF Init, FramesOK
<1>8. OpenOK(heap, open)
  <2>1. \A o \in 1 .. Len(heap) : ~ IsOpen(heap, o)
    BY <1>3 DEF IsOpen
  <2> QED  BY <1>6, <2>1 DEF Init, OpenOK
<1>9. ControlOK
  BY DEF Init, ControlOK
<1> QED  BY <1>2, <1>4, <1>5, <1>7, <1>8, <1>9 DEF IInv

LEMMA ExecuteKeeps ==
    ASSUME IInv, CodeFits', NEW p, Execute(p)
    PROVE  IInv'
<1> DEFINE n == Len(heap)
    x == [type |-> "closure", fn |-> 1, ups |-> <<>>]
    f == [ip |-> 1, fn |-> 1, slot |-> 1, closure |-> n + 1]
<1>1. /\ HeapOK(program, heap) /\ CellsOK(heap, cells) /\ IsSeq(heap)
      /\ GlobalsOK(heap, globals) /\ OpenOK(heap, open)
      /\ top = 0 /\ program = <<>> /\ frames = <<>>
  BY DEF Execute, IInv, HeapOK, ControlOK
<1>2. Len(program) + 1 = 1
  BY <1>1
<1>3. /\ heap' = Append(heap, x) /\ frames' = Append(<<>>, f)
      /\ fn' = 1 /\ ip' = 1 /\ status' = "running"
      /\ UNCHANGED <<cells, top, open, globals>>
  BY <1>1, <1>2 DEF Execute
<1>4. /\ 1 \in 1 .. Len(program') /\ program'[1].ups = <<>>
      /\ 1 \in 1 .. Len(program'[1].code)
  BY <1>3 DEF CodeFits, ProgramFits, FunctionFits, ControlStays,
       RefersWell, InReach, IsJump
<1>5. /\ IsSeq(heap') /\ Len(heap') = n + 1 /\ heap'[n + 1] = x
      /\ \A o \in 1 .. n : heap'[o] = heap[o]
  BY <1>1, <1>3, AppendIs
<1>6. n \in Nat
  BY <1>1 DEF IsSeq
<1>7. Keeps(heap, heap')
  BY <1>5, <1>6 DEF Keeps
<1>8. /\ x = [type |-> "closure", fn |-> x.fn, ups |-> x.ups]
      /\ x.type = "closure" /\ x.fn = 1
  OBVIOUS
<1> HIDE DEF x
<1>9. ObjectOK(program', heap', n + 1, x)
  <2>1. 1 .. Len(program'[1].ups) = {}
    BY <1>4
  <2> QED  BY <1>4, <1>8, <2>1 DEF ObjectOK, ClosureOK
<1>10. HeapOK(program', heap')
  <2>1. ASSUME NEW o \in 1 .. n PROVE ObjectOK(program', heap', o, heap'[o])
    <3>1. ObjectOK(program, heap, o, heap[o])
      BY <1>1 DEF HeapOK
    <3>2. ObjectOK(program, heap', o, heap[o])
      BY <1>1, <1>5, <1>7, <3>1, ObjectKept
    <3>3. 1 .. Len(program) = {}
      BY <1>1
    <3>4. ~ ClosureOK(program, heap', heap[o])
      BY <3>3 DEF ClosureOK
    <3>5. ObjectOK(program', heap', o, heap[o])
      BY <3>2, <3>4 DEF ObjectOK
    <3> QED  BY <1>5, <3>5
  <2>2. \A o \in 1 .. Len(heap') : o \in 1 .. n \/ o = n + 1
    BY <1>5, <1>6
  <2> QED  BY <1>5, <1>9, <2>1, <2>2 DEF HeapOK
<1>11. CellsOK(heap', cells') /\ GlobalsOK(heap', globals')
  BY <1>1, <1>3, <1>5, <1>7, StateKept
<1>12. OpenOK(heap', open')
  <2>1. n <= Len(heap') /\ \A o \in n + 1 .. Len(heap') : o = n + 1
    BY <1>5, <1>6
  <2>2. \A o \in n + 1 .. Len(heap') : ~ IsOpen(heap', o)
    BY <1>5, <1>8, <2>1 DEF IsOpen
  <2>3. \A o \in 1 .. n : /\ IsOpen(heap', o) <=> IsOpen(heap, o)
                          /\ IsOpen(heap, o) => heap'[o].slot = heap[o].slot
    BY <1>5 DEF IsOpen
  <2>4. OpenOK(heap', open)
    BY <1>1, <1>5, <2>1, <2>2, <2>3, OpenKept
  <2> QED  BY <1>3, <2>4
<1>13. IsSeq(frames') /\ Len(frames') = 1 /\ frames'[1] = f
  BY <1>3 DEF IsSeq
<1>14. \A i \in 1 .. Len(frames') : frames'[i] = f
  BY <1>13
<1>15. FramesOK(heap', frames')
  <2>1. n + 1 \in Ref(heap', "closure")
    BY <1>5, <1>6, <1>8 DEF Ref
  <2>2. 1 \in 1 .. MaxStack
    BY VirtualMachineAssumption
  <2> QED  BY <1>13, <1>14, <2>1, <2>2 DEF FramesOK
<1>16. ChainOK(program', heap', frames', fn', ip')
  <2>1. Len(frames') > 0 /\ 1 .. Len(frames') - 1 = {}
    BY <1>13
  <2>2. heap'[frames'[Len(frames')].closure].fn = 1
    BY <1>5, <1>8, <1>13
  <2> QED  BY <1>3, <1>4, <1>13, <2>1, <2>2 DEF ChainOK
<1>17. ControlOK'
  BY <1>1, <1>3, <1>4, <1>16 DEF ControlOK
<1> QED  BY <1>10, <1>11, <1>12, <1>15, <1>17 DEF IInv

LEMMA StepKeeps ==
    ASSUME IInv, Trusted, Trusted', NEW Programs,
           \/ \E p \in Programs : Execute(p)
           \/ Instruction
           \/ UNCHANGED vars
    PROVE  IInv'
<1>1. CASE \E p \in Programs : Execute(p)
  BY <1>1, ExecuteKeeps DEF Trusted
<1>2. CASE UNCHANGED vars
  BY <1>2 DEF vars, IInv, ControlOK
<1>3. CASE Instruction
  <2>1. CASE \/ Arithmetic \/ Add \/ Equal \/ Not \/ Negate \/ Literal \/ Pop
             \/ PrintTop \/ ConditionalJump \/ Jump
    BY <2>1, ArithmeticKeeps, AddKeeps, EqualKeeps, NotKeeps, NegateKeeps,
       LiteralKeeps, PopKeeps, PrintTopKeeps, ConditionalJumpKeeps, JumpKeeps
  <2>2. CASE \/ DefineGlobal \/ GetGlobal \/ SetGlobal \/ GetLocal \/ SetLocal
             \/ GetUpvalue \/ SetUpvalue \/ CloseUpvalue
    BY <2>2, DefineGlobalKeeps, GetGlobalKeeps, SetGlobalKeeps, GetLocalKeeps,
       SetLocalKeeps, GetUpvalueKeeps, SetUpvalueKeeps, CloseUpvalueKeeps
  <2>3. CASE \/ CreateClosure \/ CreateClass \/ CreateSubclass \/ CreateMethod
             \/ GetProperty \/ SetProperty \/ GetSuperFunc
    BY <2>3, CreateClosureKeeps, CreateClassKeeps, CreateSubclassKeeps,
       CreateMethodKeeps, GetPropertyKeeps, SetPropertyKeeps, GetSuperFuncKeeps
       DEF Trusted
  <2>4. CASE Call \/ Invoke \/ Return
    BY <2>4, CallKeeps, InvokeKeeps, ReturnKeeps
  <2> QED  BY <1>3, <2>1, <2>2, <2>3, <2>4 DEF Instruction
<1> QED  BY <1>1, <1>2, <1>3

-----------------------------------------------------------------------------
(* What an instruction writes on the stack.                                *)

Untouched == \A c \in 1 .. Frame.slot - 1 : cells'[c] = cells[c]

LEMMA WrittenAbove ==
    ASSUME Ready, NEW i \in Int, i >= Frame.slot, NEW v,
           cells' = [cells EXCEPT ![i] = v]
    PROVE  Untouched
<1>1. /\ DOMAIN cells = 1 .. MaxStack /\ MaxStack \in Nat
      /\ Frame.slot \in 1 .. MaxStack
  BY VirtualMachineAssumption DEF Ready, IInv, CellsOK
<1>2. ASSUME NEW c \in 1 .. Frame.slot - 1 PROVE cells'[c] = cells[c]
  <2>1. c \in 1 .. MaxStack /\ c # i
    BY <1>1
  <2> QED  BY <1>1, <2>1
<1> QED  BY <1>2 DEF Untouched

\* No operand lies below slot 0 of the frame.
LEMMA OperandsAbove ==
    ASSUME Ready, Trusted
    PROVE  (top - Operands(Ins)) + 1 >= Frame.slot
<1> DEFINE n == Operands(Ins)
    b == Base
    s == Frame.slot
<1>1. /\ top \in Int /\ n \in Nat /\ top - n >= b
      /\ s \in Int /\ Len(frames) \in Nat \ {0}
  BY VirtualMachineAssumption DEF Ready, Trusted, OperandsPresent
<1>2. b \in Int /\ b >= s - 1
  <2>1. CASE Len(frames) = 1
    <3>1. frames[1].slot = 1
      BY DEF Ready, IInv, ControlOK, ChainOK
    <3> QED  BY <2>1, <3>1 DEF Base, Frame, Last
  <2>2. CASE Len(frames) # 1
    BY <1>1, <2>2 DEF Base
  <2> QED  BY <2>1, <2>2
<1> HIDE DEF n, b, s
<1>3. (top - n) + 1 >= s
  BY <1>1, <1>2
<1> QED  BY <1>3 DEF n, s

\* At most one cell is written, that of one of k operands or the next free one.
Writes(k) ==
    UNCHANGED cells \/ \E n \in 0 .. k : \E v : Replace(n, v)

LEMMA WritesOperand ==
    ASSUME Ready, Trusted, NEW k \in Nat, k <= Operands(Ins), Writes(k)
    PROVE  Untouched
<1>1. CASE UNCHANGED cells
  BY <1>1 DEF Untouched
<1>2. CASE \E n \in 0 .. k : \E v : Replace(n, v)
  <2>1. PICK n \in 0 .. k : \E v : Replace(n, v)
    BY <1>2
  <2>2. PICK v : cells' = [cells EXCEPT ![top - n + 1] = v]
    BY <2>1 DEF Replace
  <2> DEFINE m == Operands(Ins)
      s == Frame.slot
  <2>3. /\ top \in Int /\ m \in Nat /\ s \in Int /\ k <= m
        /\ (top - m) + 1 >= s
    BY OperandsAbove, VirtualMachineAssumption DEF Ready
  <2> HIDE DEF m, s
  <2>4. top - n + 1 \in Int /\ top - n + 1 >= s
    BY <2>3
  <2> QED  BY <2>2, <2>4, WrittenAbove DEF s
<1> QED  BY <1>1, <1>2 DEF Writes

LEMMA OperatorsWrite ==
    ASSUME IInv, Trusted,
           \/ Arithmetic \/ Add \/ Equal \/ Not \/ Negate
           \/ GetProperty \/ SetProperty \/ GetSuperFunc
    PROVE  Untouched
<1>1. CASE Arithmetic \/ Add \/ Equal \/ SetProperty \/ GetSuperFunc
  <2>1. /\ status = "running" /\ Operands(Ins) = 2
    BY <1>1, OperandCounts
       DEF Arithmetic, Add, Equal, SetProperty, GetSuperFunc, Fetch
  <2>2. CASE Arithmetic \/ Equal \/ SetProperty
    <3>1. Writes(2)
      BY <2>2 DEF Arithmetic, Equal, SetProperty, Fail, Discard, Writes
    <3> QED  BY <2>1, <3>1, Fetched, WritesOperand
  <2>3. CASE Add \/ GetSuperFunc
    <3>1. (\E v : Replace(2, v)) \/ \E n : Discard(n)
      BY <2>3, Zenon DEF Add, GetSuperFunc, Bind, Fail
    <3>2. Writes(2)
      BY <3>1 DEF Discard, Writes
    <3> QED  BY <2>1, <3>2, Fetched, WritesOperand
  <2> QED  BY <1>1, <2>2, <2>3
<1>2. CASE Not \/ Negate \/ GetProperty
  <2>1. status = "running" /\ Operands(Ins) = 1
    BY <1>2, OperandCounts DEF Not, Negate, GetProperty, Fetch
  <2>2. (\E v : Replace(1, v)) \/ UNCHANGED cells
    BY <1>2 DEF Not, Negate, GetProperty, Bind, Fail, Discard
  <2>3. Writes(1)
    BY <2>2 DEF Writes
  <2> QED  BY <2>1, <2>3, Fetched, WritesOperand
<1> QED  BY <1>1, <1>2

LEMMA PushesWrite ==
    ASSUME IInv, Trusted,
           \/ Literal \/ GetGlobal \/ GetLocal \/ GetUpvalue
           \/ CreateClosure \/ CreateClass \/ CreateSubclass
    PROVE  Untouched
<1>1. status = "running"
  BY DEF Literal, GetGlobal, GetLocal, GetUpvalue, CreateClosure, CreateClass,
         CreateSubclass, Fetch
<1>2. (\E v : Replace(0, v)) \/ UNCHANGED cells
  BY DEF Literal, GetGlobal, GetLocal, GetUpvalue, CreateClosure, CreateClass,
         CreateSubclass, Push, Fail, Discard
<1>3. Writes(0)
  BY <1>2 DEF Writes
<1>4. Ready
  BY <1>1, Fetched
<1>5. 0 <= Operands(Ins)
  BY <1>4 DEF Ready
<1> QED  BY <1>3, <1>4, <1>5, WritesOperand

LEMMA NothingWritten ==
    ASSUME \/ Pop \/ PrintTop \/ ConditionalJump \/ Jump
           \/ DefineGlobal \/ SetGlobal \/ CloseUpvalue \/ CreateMethod
    PROVE  Untouched
<1>1. UNCHANGED cells
  BY DEF Pop, PrintTop, ConditionalJump, Jump, DefineGlobal, SetGlobal,
         CloseUpvalue, CreateMethod, Fail, Discard
<1> QED  BY <1>1 DEF Untouched

LEMMA SetLocalWrites == ASSUME IInv, Trusted, SetLocal PROVE Untouched
<1>1. Ready /\ Ins[1] = "SetLocal"
  BY Fetched DEF SetLocal, Fetch
<1> DEFINE i == Frame.slot + Ins[2]
<1>2. i \in Frame.slot .. top /\ Frame.slot \in Int /\ top \in Int
  BY <1>1, VirtualMachineAssumption DEF Ready, Trusted, OperandsPresent
<1>3. cells' = [cells EXCEPT ![i] = Top(0)]
  BY DEF SetLocal
<1> HIDE DEF i
<1>4. i \in Int /\ i >= Frame.slot
  BY <1>2
<1> QED  BY <1>1, <1>3, <1>4, WrittenAbove

\* A call writes the cell of the callee only, which becomes slot 0.
LEMMA CalleeWritten ==
    ASSUME NEW n, Calling(n), NEW v, UNCHANGED cells \/ SetCallee(n, v)
    PROVE  Untouched
<1>1. CASE UNCHANGED cells
  BY <1>1 DEF Untouched
<1>2. CASE SetCallee(n, v)
  <2>1. top - n \in Int /\ top - n >= Frame.slot
    <3>1. CASE Len(frames) = 1
      <4>1. Frame.slot = 1
        BY <3>1 DEF Calling, Ready, IInv, ControlOK, ChainOK, Frame, Last
      <4> QED  BY <4>1 DEF Calling, Ready
    <3>2. CASE Len(frames) > 1
      BY <3>2, VirtualMachineAssumption DEF Calling, Ready
    <3>3. Ready /\ n \in Nat
      BY DEF Calling
    <3>4. top \in Int /\ Len(frames) \in Nat \ {0}
      BY <3>3 DEF Ready
    <3>5. Len(frames) = 1 \/ Len(frames) > 1
      BY <3>4
    <3> QED  BY <3>1, <3>2, <3>3, <3>4, <3>5
  <2> QED  BY <1>2, <2>1, WrittenAbove DEF Calling, SetCallee
<1> QED  BY <1>1, <1>2

LEMMA CallWrites ==
    ASSUME NEW n, Calling(n), NEW v, Good(heap, v), CallObject(v, n)
    PROVE  Untouched
<1>1. CASE CallClass(v[2], n)
  BY <1>1, CalleeWritten DEF CallClass
<1>2. CASE UNCHANGED cells
  BY <1>2, CalleeWritten
<1>3. CASE SetCallee(n, Obj(heap[v[2]].instance))
  BY <1>3, CalleeWritten
<1>4. CASE IsObj(v, "native") /\ CallNative(v[2], n)
  <2>1. v[2] \in 1 .. Len(heap) /\ heap[v[2]].type = "native"
    BY <1>4 DEF IsObj, Good
  <2>2. ObjectOK(program, heap, v[2], heap[v[2]])
    BY <2>1 DEF Calling, Ready, IInv, HeapOK
  <2>3. heap[v[2]].arity = 0
    BY <2>1, <2>2 DEF ObjectOK, NativeOK
  <2>4. \/ UNCHANGED cells
        \/ n = 0 /\ cells' = [cells EXCEPT ![top - n - n] = Num(0)]
    BY <1>4, <2>3 DEF CallNative, Discard
  <2>5. n = 0 => top - n - n = top - n
    BY DEF Calling, Ready
  <2>6. UNCHANGED cells \/ SetCallee(n, Num(0))
    BY <2>4, <2>5 DEF SetCallee
  <2> QED  BY <2>6, CalleeWritten
<1> QED  BY <1>1, <1>2, <1>3, <1>4, Zenon DEF CallObject, Fail, Discard

LEMMA CallsWrite == ASSUME IInv, Trusted, Call \/ Invoke PROVE Untouched
<1>1. CASE Call
  <2> DEFINE n == Ins[2]
  <2>1. Calling(n) /\ CallObject(Top(n), n)
    BY <1>1, CallingIs DEF Call, Fetch
  <2>2. Good(heap, Top(n))
    BY <2>1, TopGood DEF Calling
  <2> QED  BY <2>1, <2>2, CallWrites
<1>2. CASE Invoke
  <2> DEFINE n == Ins[3]
      o == Top(n)[2]
  <2>1. Calling(n)
    BY <1>2, CallingIs DEF Invoke, Fetch
  <2>2. CASE UNCHANGED cells
    BY <2>2 DEF Untouched
  <2>3. CASE /\ IsObj(Top(n), "instance") /\ Ins[2] \in DOMAIN heap[o].fields
             /\ CallObject(heap[o].fields[Ins[2]], n)
    <3>1. Good(heap, Top(n)) /\ HeapOK(program, heap)
      BY <2>1, TopGood DEF Calling, Ready, IInv
    <3>2. o \in Ref(heap, "instance")
      BY <2>3, <3>1 DEF IsObj, Ref, Good
    <3> HIDE DEF o
    <3>3. InstanceOK(heap, heap[o])
      BY <3>1, <3>2, TypesOf
    <3>4. Good(heap, heap[o].fields[Ins[2]])
      BY <2>3, <3>3 DEF InstanceOK
    <3> QED  BY <2>1, <2>3, <3>4, CallWrites
  <2> QED  BY <1>2, <2>2, <2>3 DEF Invoke, Fail, Discard
<1> QED  BY <1>1, <1>2

LEMMA ReturnWrites == ASSUME IInv, Trusted, Return PROVE Untouched
<1>1. Ready
  BY Fetched DEF Return, Fetch
<1>2. \/ UNCHANGED cells
      \/ \E v : cells' = [cells EXCEPT ![Frame.slot] = v]
  BY DEF Return, Discard, ResultCell
<1>3. Frame.slot \in Int /\ Frame.slot >= Frame.slot
  BY <1>1, VirtualMachineAssumption DEF Ready
<1> QED  BY <1>1, <1>2, <1>3, WrittenAbove DEF Untouched

LEMMA StepWrites ==
    ASSUME IInv, Trusted, status = "running", NEW Programs,
           \/ \E p \in Programs : Execute(p)
           \/ Instruction
           \/ UNCHANGED vars
    PROVE  Ins[1] = "SetUpvalue" \/ Untouched
<1>1. CASE UNCHANGED vars
  BY <1>1 DEF vars, Untouched
<1>2. CASE \E p \in Programs : Execute(p)
  BY <1>2 DEF Execute
<1>3. CASE SetUpvalue
  BY <1>3 DEF SetUpvalue, Fetch
<1>4. CASE Instruction /\ ~ SetUpvalue
  BY <1>4, OperatorsWrite, PushesWrite, NothingWritten, SetLocalWrites,
     CallsWrite, ReturnWrites DEF Instruction
<1> QED  BY <1>1, <1>2, <1>3, <1>4

-----------------------------------------------------------------------------
(* The theorems.                                                           *)

\* The code that runs has the properties of the programs that are executed: their
\* functions keep to their code and to what they may refer to after the numbers
\* of the functions have been changed.
LEMMA ProgramStaysFit ==
    ASSUME NEW Programs, \A p \in Programs : ProgramFits(p)
    PROVE  Machine(Programs) => []CodeFits
<1> DEFINE N == (\E p \in Programs : Execute(p)) \/ Instruction
<1>1. Init => LoadedFits
  BY DEF Init, LoadedFits, CodeFits
<1>2. LoadedFits /\ [N]_vars => LoadedFits'
  <2>1. LoadedFits /\ UNCHANGED vars => LoadedFits'
    BY DEF LoadedFits, CodeFits, vars
  <2> QED  BY <2>1, LoadsFitting, StaysFitting
<1>3. LoadedFits => CodeFits
  BY DEF LoadedFits
<1> QED  BY <1>1, <1>2, <1>3, PTL DEF Machine

\* What is not proved of the code: that each instruction finds its operands on the
\* stack, and that the stack has room.
HeightsFit == OperandsPresent /\ StackFits

\* When programs that fit are executed, and as long as their instructions find
\* their operands and the stack has room, every object has the fields of its type
\* and refers to objects that exist and are of the types the code takes them to
\* have, and the open upvalues and the frames are in order.
THEOREM MachineInvariant ==
    ASSUME NEW Programs, \A p \in Programs : ProgramFits(p)
    PROVE  Machine(Programs) /\ []HeightsFit => []IInv
<1> DEFINE N == (\E p \in Programs : Execute(p)) \/ Instruction
<1>1. Init => IInv
  BY InitKeeps
<1>2. IInv /\ Trusted /\ Trusted' /\ [N]_vars => IInv'
  BY StepKeeps
<1>3. CodeFits /\ HeightsFit => Trusted
  BY DEF Trusted, HeightsFit
<1> QED  BY <1>1, <1>2, <1>3, ProgramStaysFit, PTL DEF Machine

LEMMA MachineTyped == ASSUME IInv, StackFits PROVE TypeOK
<1>1. /\ CellsOK(heap, cells) /\ FramesOK(heap, frames) /\ ControlOK
      /\ OpenOK(heap, open)
  BY DEF IInv
<1>2. top \in -1 .. MaxStack
  BY <1>1, VirtualMachineAssumption DEF StackFits, ControlOK
<1>3. DOMAIN cells = 1 .. MaxStack
  BY <1>1 DEF CellsOK
<1> QED
  BY <1>1, <1>2, <1>3 DEF TypeOK, FramesOK, OpenOK, IsOpen, ControlOK, Ref

\* The slots of the frames are cells of the stack, the closures of the frames are
\* closures, and the list of open upvalues holds upvalues.
THEOREM MachineIsTyped ==
    ASSUME NEW Programs, \A p \in Programs : ProgramFits(p)
    PROVE  Machine(Programs) /\ []HeightsFit => []TypeOK
<1>1. IInv /\ HeightsFit => TypeOK
  BY MachineTyped DEF HeightsFit
<1> QED  BY <1>1, MachineInvariant, PTL

LEMMA MachineOrdered == ASSUME IInv PROVE OpenUpvaluesOrdered
<1>1. OpenOK(heap, open)
  BY DEF IInv
<1>2. {open[i] : i \in 1 .. Len(open)} = {o \in 1 .. Len(heap) : IsOpen(heap, o)}
  BY <1>1 DEF OpenOK
<1> QED  BY <1>1, <1>2 DEF OpenUpvaluesOrdered, OpenOK, IsOpen

\* The list of open upvalues holds exactly the upvalues that still read the
\* stack, from the highest cell to the lowest.
THEOREM OpenUpvaluesInOrder ==
    ASSUME NEW Programs, \A p \in Programs : ProgramFits(p)
    PROVE  Machine(Programs) /\ []HeightsFit => []OpenUpvaluesOrdered
<1>1. IInv => OpenUpvaluesOrdered
  BY MachineOrdered
<1> QED  BY <1>1, MachineInvariant, PTL

LEMMA MachineLinked == ASSUME IInv, Trusted PROVE FramesLinked
<1> SUFFICES ASSUME status = "running" PROVE FramesLinked
  BY DEF FramesLinked
<1> DEFINE m == Len(frames)
<1>1. Ready
  BY Fetched
<1>2. m \in Nat /\ m > 0 /\ ChainOK(program, heap, frames, fn, ip)
  BY <1>1 DEF Ready, IInv, ControlOK, ChainOK
<1>3. Base <= top
  <2> DEFINE n == Operands(Ins)
      b == Base
  <2>1. top \in Int /\ n \in Nat /\ top - n >= b /\ b \in Int
    BY <1>1, BaseNat DEF Ready, Trusted, OperandsPresent
  <2> HIDE DEF n, b
  <2>2. b <= top
    BY <2>1
  <2> QED  BY <2>2 DEF b
<1>4. ASSUME NEW i \in 2 .. m
      PROVE  LET caller == frames[i - 1]
                 code == program[frames[i].fn].code
             IN  /\ frames[i].fn = heap[caller.closure].fn
                 /\ frames[i].ip \in 2 .. Len(code)
                 /\ code[frames[i].ip - 1][1] \in {"Call", "Invoke"}
                 /\ i > 2 => frames[i].slot > caller.slot
  <2>1. i - 1 \in 1 .. m - 1 /\ (i - 1) + 1 = i /\ (i > 2 => i - 1 > 1)
    BY <1>2
  <2>2. LinkOK(program, heap, frames, i - 1)
    BY <1>2, <2>1 DEF ChainOK
  <2> QED  BY <2>1, <2>2 DEF LinkOK
<1> QED  BY <1>1, <1>3, <1>4 DEF FramesLinked, Ready

\* The code that runs is that of the frame on top, and every frame returns behind
\* a call in the code of the frame below it.
THEOREM CallsReturnToCalls ==
    ASSUME NEW Programs, \A p \in Programs : ProgramFits(p)
    PROVE  Machine(Programs) /\ []HeightsFit => []FramesLinked
<1>1. IInv /\ CodeFits /\ HeightsFit => FramesLinked
  BY MachineLinked DEF Trusted, HeightsFit
<1> QED  BY <1>1, MachineInvariant, ProgramStaysFit, PTL

\* No instruction but an assignment to an upvalue changes a cell below the frame
\* that runs: the variables and temporaries of the callers are safe.
THEOREM CallersAreUntouched ==
    ASSUME NEW Programs, \A p \in Programs : ProgramFits(p)
    PROVE  Machine(Programs) /\ []HeightsFit => CallersUntouched
<1> DEFINE N == (\E p \in Programs : Execute(p)) \/ Instruction
    Safe == status = "running" =>
               \/ Ins[1] = "SetUpvalue"
               \/ \A c \in 1 .. Frame.slot - 1 : cells'[c] = cells[c]
<1>1. IInv /\ CodeFits /\ HeightsFit /\ [N]_vars => [Safe]_vars
  BY StepWrites DEF Untouched, Trusted, HeightsFit
<1>2. Machine(Programs) => [][N]_vars
  BY PTL DEF Machine
<1> QED
  BY <1>1, <1>2, MachineInvariant, ProgramStaysFit, PTL DEF CallersUntouched
=============================================================================
