------------------------ MODULE ObjectTrackerProofs ------------------------
(***************************************************************************)
(* What the collector and the intern table guarantee for every number of   *)
(* addresses and texts and every trigger: the inductive invariant IInv of  *)
(* ObjectTracker, the exactness of a collection, and the absence of        *)
(* dangling pointers in a program without held objects and strings.           *)
(***************************************************************************)
EXTENDS ObjectTracker, FiniteSetTheorems, TLAPS

USE ObjectTrackerAssumption

-----------------------------------------------------------------------------
(* Sequences of slots.                                                     *)

\* Appending to a sequence adds one element to its range.
LEMMA RangeAppend ==
    ASSUME NEW T, NEW s \in Seq(T), NEW e \in T
    PROVE  /\ Append(s, e) \in Seq(T)
           /\ Range(Append(s, e)) = Range(s) \cup {e}
<1>1. DOMAIN Append(s, e) = DOMAIN s \cup {Len(s) + 1}
  OBVIOUS
<1>2. /\ \A k \in DOMAIN s : Append(s, e)[k] = s[k]
      /\ Append(s, e)[Len(s) + 1] = e
  OBVIOUS
<1> QED  BY <1>1, <1>2 DEF Range

\* Appending a new element to a sequence without repetitions.
LEMMA AppendInjective ==
    ASSUME NEW T, NEW s \in Seq(T), NEW e \in T, e \notin Range(s),
           \A j, k \in DOMAIN s : j # k => s[j] # s[k]
    PROVE  \A j, k \in DOMAIN Append(s, e) :
                j # k => Append(s, e)[j] # Append(s, e)[k]
<1>1. DOMAIN Append(s, e) = DOMAIN s \cup {Len(s) + 1}
  OBVIOUS
<1>2. /\ \A k \in DOMAIN s : Append(s, e)[k] = s[k]
      /\ Append(s, e)[Len(s) + 1] = e
  OBVIOUS
<1>3. \A k \in DOMAIN s : s[k] # e
  BY DEF Range
<1> QED  BY <1>1, <1>2, <1>3

\* Moving an object out of its slot removes that object and no other.
LEMMA RangeMoveOut ==
    ASSUME NEW s \in Seq(Slots), NEW k \in DOMAIN s, s[k] # Null,
           \A i, j \in DOMAIN s : i # j /\ s[i] # Null => s[i] # s[j],
           NEW t, t = [s EXCEPT ![k] = Null]
    PROVE  /\ Range(t) \ {Null} = (Range(s) \ {Null}) \ {s[k]}
           /\ \A i, j \in DOMAIN t : i # j /\ t[i] # Null => t[i] # t[j]
<1>1. DOMAIN t = DOMAIN s
  OBVIOUS
<1>2. \A i \in DOMAIN s : t[i] = IF i = k THEN Null ELSE s[i]
  OBVIOUS
<1>3. Range(t) \ {Null} = (Range(s) \ {Null}) \ {s[k]}
  BY <1>1, <1>2 DEF Range
<1>4. \A i, j \in DOMAIN t : i # j /\ t[i] # Null => t[i] # t[j]
  BY <1>1, <1>2
<1> QED  BY <1>3, <1>4

-----------------------------------------------------------------------------
(* Reachability.                                                           *)

\* The tracked roots are reachable, and so is what a reachable object refers
\* to; a closed set that holds the roots holds everything reachable.
LEMMA ReachableFacts ==
    /\ Reachable \subseteq Tracked
    /\ roots \cap Tracked \subseteq Reachable
    /\ \A p \in Reachable : refs[p] \cap Tracked \subseteq Reachable
    /\ \A S \in SUBSET Tracked :
            HoldsRoots(S) /\ RefsClosed(S) => Reachable \subseteq S
<1>1. /\ Reachable \subseteq Tracked
      /\ \A S \in SUBSET Tracked :
            HoldsRoots(S) /\ RefsClosed(S) => Reachable \subseteq S
  BY DEF Reachable
<1>2. roots \cap Tracked \subseteq Reachable
  BY DEF Reachable, HoldsRoots
<1>3. ASSUME NEW p \in Reachable, NEW o \in refs[p] \cap Tracked
      PROVE  o \in Reachable
  <2> SUFFICES ASSUME NEW S \in SUBSET Tracked, HoldsRoots(S), RefsClosed(S)
               PROVE  o \in S
    BY <1>3 DEF Reachable
  <2> QED  BY <1>1, <1>3 DEF RefsClosed
<1> QED  BY <1>1, <1>2, <1>3

\* What is reachable depends on the tracked objects, the roots and the
\* references alone.
LEMMA SameReachable ==
    ASSUME Tracked' = Tracked, UNCHANGED <<roots, refs>>
    PROVE  Reachable' = Reachable
BY DEF Reachable, HoldsRoots, RefsClosed

-----------------------------------------------------------------------------
(* add_object, shared by the two actions that allocate.                    *)

\* The objects of the heap after add_object has been called, and the state in
\* which a collection starts.
LEMMA AddObjectHeap ==
    ASSUME TypeOK, MutatorShape, pc = "mutator",
           NEW o \in Obj, NEW dest \in Destinations, AddObject(o, dest)
    PROVE  /\ Heap' = Heap \cup {o}
           /\ kept' = <<>>
           /\ \/ /\ pc' = "count" /\ Tracked' = Tracked
                 /\ objects' = objects
                 /\ pending' = [obj |-> o, dest |-> dest]
                 /\ colour' = WhitenAndGreyRoots(o)
                 /\ UNCHANGED <<roots, held>>
              \/ /\ pc' = "mutator" /\ Tracked' = Tracked \cup {o}
                 /\ objects' = Append(objects, o)
                 /\ colour' = [colour EXCEPT ![o] = "white"]
                 /\ Deliver(o, dest)
                 /\ UNCHANGED pending
<1>1. kept = <<>> /\ kept' = <<>> /\ Kept = {} /\ Kept' = {}
  BY DEF MutatorShape, AddObject, Kept, Range
<1>2. CASE Len(objects) > Trigger
  <2>1. /\ pc' = "count" /\ objects' = objects
        /\ pending' = [obj |-> o, dest |-> dest]
        /\ colour' = WhitenAndGreyRoots(o)
        /\ UNCHANGED <<roots, held>>
    BY <1>2 DEF AddObject
  <2>2. Tracked' = Tracked
    BY <1>1, <2>1 DEF Tracked, Unmoved
  <2>3. Heap = Tracked /\ Heap' = Tracked' \cup {o}
    BY <2>1 DEF Heap
  <2> QED  BY <1>1, <2>1, <2>2, <2>3
<1>3. CASE ~(Len(objects) > Trigger)
  <2>1. /\ pc' = "mutator" /\ objects' = Append(objects, o)
        /\ colour' = [colour EXCEPT ![o] = "white"]
        /\ Deliver(o, dest) /\ UNCHANGED pending
    BY <1>3 DEF AddObject
  <2>2. Range(objects') = Range(objects) \cup {o}
    BY <2>1, RangeAppend, o \in Slots DEF TypeOK, Slots
  <2>3. Tracked' = Tracked \cup {o}
    BY <1>1, <2>2 DEF Tracked, Unmoved
  <2>4. Heap = Tracked /\ Heap' = Tracked'
    BY <2>1 DEF Heap
  <2> QED  BY <1>1, <2>1, <2>3, <2>4
<1> QED  BY <1>2, <1>3

\* add_object keeps the invariants of the object lists and of the marking.
LEMMA AddObjectStep ==
    ASSUME TypeOK, MutatorShape, SingleOwner, pc = "mutator",
           NEW o \in Obj, o \notin Heap, NEW dest \in Destinations,
           AddObject(o, dest),
           \A p \in Obj \ {o} : refs'[p] = refs[p]
    PROVE  SingleOwner' /\ MarkedFromRoots' /\ NoBlackWaits' /\ MutatorShape'
<1>1. Tracked = Unmoved /\ Heap = Tracked /\ Kept = {} /\ kept = <<>>
  BY DEF MutatorShape, Tracked, Heap, Kept, Range
<1>2. /\ kept' = <<>> /\ Kept' = {}
      /\ MutatorShape'
  BY AddObjectHeap DEF Kept, Range, MutatorShape
<1>3. CASE pc' = "count"
  <2>1. /\ objects' = objects /\ pending'.obj = o
        /\ colour' = WhitenAndGreyRoots(o) /\ roots' = roots
        /\ Tracked' = Tracked
    BY <1>3, AddObjectHeap
  <2>2. Unmoved' = Unmoved
    BY <2>1 DEF Unmoved
  <2>3. SingleOwner'
    BY <1>1, <1>2, <2>1, <2>2 DEF SingleOwner, Tracked
  <2>4. \A p \in Unmoved : colour'[p] = IF p \in roots THEN "grey" ELSE "white"
    BY <2>1, <1>1 DEF WhitenAndGreyRoots, Whitened, Unmoved, TypeOK, Slots, Range
  <2>5. MarkedFromRoots' /\ NoBlackWaits'
    <3>1. (roots \cap Tracked \subseteq Reachable)'
      BY ReachableFacts, PTL
    <3> QED  BY <1>1, <1>2, <2>1, <2>2, <2>4, <3>1
             DEF MarkedFromRoots, NoBlackWaits
  <2> QED  BY <1>2, <2>3, <2>5
<1>4. CASE pc' = "mutator"
  <2>1. objects' = Append(objects, o)
    BY <1>4, AddObjectHeap
  <2>2. o \in Slots /\ o # Null /\ o \notin Range(objects)
    BY <1>1 DEF Unmoved, Slots
  <2>3. /\ DOMAIN objects' = DOMAIN objects \cup {Len(objects) + 1}
        /\ \A k \in DOMAIN objects : objects'[k] = objects[k]
        /\ objects'[Len(objects) + 1] = o
    BY <2>1, <2>2 DEF TypeOK
  <2>4. \A k \in DOMAIN objects : objects[k] # o
    BY <2>2 DEF Range
  <2>5. SingleOwner'
    BY <1>2, <1>4, <2>2, <2>3, <2>4 DEF SingleOwner
  <2> QED  BY <1>2, <1>4, <2>5 DEF MarkedFromRoots, NoBlackWaits
<1> QED  BY <1>3, <1>4, AddObjectHeap

-----------------------------------------------------------------------------
(* Types.                                                                  *)

\* add_object keeps the types of the variables it assigns.
LEMMA AddObjectType ==
    ASSUME TypeOK, MutatorShape, pc = "mutator",
           NEW o \in Obj, NEW dest \in Destinations, AddObject(o, dest)
    PROVE  /\ objects' \in Seq(Slots) /\ kept' \in Seq(Obj)
           /\ colour' \in [Obj -> Colours]
           /\ roots' \subseteq Obj /\ held' \subseteq Obj
           /\ pc' \in {"mutator", "count", "scan"}
           /\ pending' \in [obj : Slots, dest : Destinations]
           /\ pc' # "mutator" => pending'.obj \in Obj
           /\ slot' \in Nat
<1>1. slot' \in Nat /\ kept' \in Seq(Obj)
  BY DEF AddObject, TypeOK
<1>2. WhitenAndGreyRoots(o) \in [Obj -> Colours]
  BY DEF WhitenAndGreyRoots, Whitened, TypeOK, Colours
<1>3. [colour EXCEPT ![o] = "white"] \in [Obj -> Colours]
  BY DEF TypeOK, Colours
<1>4. Append(objects, o) \in Seq(Slots)
  BY DEF TypeOK, Slots
<1>5. [obj |-> o, dest |-> dest] \in [obj : Slots, dest : Destinations]
  BY DEF Slots
<1>6. CASE pc' = "count"
  <2>1. /\ objects' = objects /\ colour' = WhitenAndGreyRoots(o)
        /\ pending' = [obj |-> o, dest |-> dest]
        /\ UNCHANGED <<roots, held>>
    BY <1>6, AddObjectHeap
  <2> QED  BY <1>1, <1>2, <1>5, <1>6, <2>1 DEF TypeOK
<1>7. CASE pc' = "mutator"
  <2>1. /\ objects' = Append(objects, o)
        /\ colour' = [colour EXCEPT ![o] = "white"]
        /\ Deliver(o, dest) /\ UNCHANGED pending
    BY <1>7, AddObjectHeap
  <2>2. roots' \subseteq Obj /\ held' \subseteq Obj
    BY <2>1 DEF TypeOK, Deliver
  <2> QED  BY <1>1, <1>3, <1>4, <1>7, <2>1, <2>2 DEF TypeOK
<1> QED  BY AddObjectHeap, <1>6, <1>7

\* Every step keeps the types.
LEMMA TypeStep == TypeOK /\ MutatorShape /\ [Next]_vars => TypeOK'
<1> SUFFICES ASSUME TypeOK, MutatorShape, [Next]_vars PROVE TypeOK'
  OBVIOUS
<1> USE DEF heapVars, collectorVars
<1>1. ASSUME NEW o \in Obj, NEW rs \in SUBSET Obj, NEW d \in Destinations,
             NewObject(o, rs, d)
      PROVE  TypeOK'
  BY <1>1, AddObjectType DEF NewObject, TypeOK
<1>2. ASSUME NEW o \in Obj, NEW c \in Text, NEW d \in Destinations,
             AddStringNew(o, c, d)
      PROVE  TypeOK'
  BY <1>2, AddObjectType DEF AddStringNew, TypeOK
<1>3. ASSUME NEW o \in Obj, NEW p \in Obj, NEW c \in Text,
             NEW d \in Destinations, AddStringFound(o, c, p, d)
      PROVE  TypeOK'
  BY <1>3 DEF AddStringFound, TypeOK, Deliver
<1>4. ASSUME NEW o \in Obj, Load(o) \/ PushHeld(o) \/ Hold(o) \/ Release(o) \/ Drop(o)
      PROVE  TypeOK'
  BY <1>4 DEF Load, PushHeld, Hold, Release, Drop, TypeOK
<1>5. ASSUME NEW o \in Obj, NEW p \in Obj, NEW q \in Slots, Store(o, p, q)
      PROVE  TypeOK'
  BY <1>5 DEF Store, TypeOK
<1>6. CASE BeginPass \/ SkipSlot \/ EndPass
  BY <1>6 DEF BeginPass, SkipSlot, EndPass, TypeOK
<1>7. CASE MoveSlot
  <2>1. /\ slot \in DOMAIN objects /\ objects[slot] \in Obj
    BY <1>7 DEF MoveSlot, Greys, TypeOK, Slots
  <2>2. objects' \in Seq(Slots)
    BY <1>7, <2>1 DEF MoveSlot, TypeOK, Slots
  <2>3. kept' \in Seq(Obj)
    BY <1>7, <2>1 DEF MoveSlot, TypeOK
  <2>4. colour' \in [Obj -> Colours]
    BY <1>7, <2>1 DEF MoveSlot, Blacken, TypeOK, Colours
  <2> QED  BY <1>7, <2>2, <2>3, <2>4 DEF MoveSlot, TypeOK
<1>8. CASE Sweep
  <2>1. pending.obj \in Obj /\ pending.dest \in Destinations
    BY <1>8 DEF Sweep, TypeOK
  <2>2. objects' \in Seq(Slots) /\ kept' \in Seq(Obj)
    <3>1. kept \in Seq(Slots)
      BY DEF TypeOK, Slots
    <3> QED  BY <1>8, <2>1, <3>1 DEF Sweep, Slots
  <2>3. colour' \in [Obj -> Colours]
    BY <1>8 DEF Sweep, TypeOK, Colours
  <2>4. pending' \in [obj : Slots, dest : Destinations]
    BY <1>8 DEF Sweep, Slots, Destinations
  <2> QED  BY <1>8, <2>1, <2>2, <2>3, <2>4 DEF Sweep, TypeOK, Deliver
<1>9. CASE UNCHANGED vars
  BY <1>9 DEF vars, TypeOK
<1> QED  BY <1>1, <1>2, <1>3, <1>4, <1>5, <1>6, <1>7, <1>8, <1>9
         DEF Next, Mutate, Collect

-----------------------------------------------------------------------------
(* The steps of a collection.                                              *)

\* Moving a grey object out blackens it and greys what it refers to.
LEMMA MoveSlotStep ==
    ASSUME IInv, MoveSlot
    PROVE  /\ Tracked' = Tracked /\ Heap' = Heap
           /\ SingleOwner' /\ MarkedFromRoots' /\ NoBlackWaits'
<1> DEFINE o == objects[slot]
<1>1. /\ slot \in DOMAIN objects /\ o \in Obj /\ o # Null
      /\ o \in Unmoved /\ colour[o] = "grey" /\ pc = "scan" /\ pc' = "scan"
  BY DEF IInv, TypeOK, MoveSlot, Greys, Slots, Unmoved, Range
<1>2. /\ objects' = [objects EXCEPT ![slot] = Null]
      /\ kept' = Append(kept, o) /\ colour' = Blacken(o)
      /\ UNCHANGED <<refs, roots, pending>>
  BY DEF MoveSlot, heapVars
<1> HIDE DEF o
<1>3. /\ Unmoved' = Unmoved \ {o}
      /\ \A i, j \in DOMAIN objects' :
            i # j /\ objects'[i] # Null => objects'[i] # objects'[j]
  <2>1. /\ objects \in Seq(Slots)
        /\ \A i, j \in DOMAIN objects :
              i # j /\ objects[i] # Null => objects[i] # objects[j]
    BY DEF IInv, TypeOK, SingleOwner
  <2>2. /\ Range(objects') \ {Null} = (Range(objects) \ {Null}) \ {o}
        /\ \A i, j \in DOMAIN objects' :
              i # j /\ objects'[i] # Null => objects'[i] # objects'[j]
    BY <1>1, <1>2, <2>1, RangeMoveOut DEF o
  <2> QED  BY <2>2 DEF Unmoved
<1>4. o \notin Kept
  BY <1>1 DEF IInv, SingleOwner
<1>5. Kept' = Kept \cup {o}
  BY <1>1, <1>2, RangeAppend DEF IInv, TypeOK, Kept
<1>6. \A j, k \in DOMAIN kept' : j # k => kept'[j] # kept'[k]
  BY <1>1, <1>2, <1>4, AppendInjective DEF IInv, TypeOK, SingleOwner, Kept
<1>7. Tracked' = Tracked
  BY <1>1, <1>3, <1>5 DEF Tracked
<1>8. Heap' = Heap
  BY <1>1, <1>2, <1>7 DEF Heap
<1>9. SingleOwner'
  BY <1>1, <1>2, <1>3, <1>4, <1>5, <1>6, <1>7 DEF IInv, SingleOwner
<1>10. Reachable' = Reachable
  BY <1>2, <1>7, SameReachable
<1>11. o \in Reachable
  BY <1>1 DEF IInv, MarkedFromRoots
<1>12. \A p \in Unmoved' : /\ p \in Obj /\ p # o
                           /\ colour'[p] = IF p \in refs[o] THEN "grey"
                                           ELSE colour[p]
  <2>1. \A p \in Unmoved : p \in Obj
    BY DEF IInv, TypeOK, Unmoved, Range, Slots
  <2> QED  BY <1>2, <1>3, <2>1 DEF Blacken
<1>13. MarkedFromRoots'
  <2>1. ASSUME NEW p \in Unmoved',
               p \in roots' \/ \E q \in Kept' : p \in refs'[q]
        PROVE  colour'[p] # "white"
    BY <2>1, <1>1, <1>2, <1>3, <1>5, <1>12 DEF IInv, MarkedFromRoots
  <2>2. ASSUME NEW p \in Unmoved', colour'[p] # "white"
        PROVE  p \in Reachable'
    <3>1. CASE p \in refs[o]
      BY <3>1, <1>3, <1>10, <1>11, ReachableFacts DEF Tracked
    <3>2. CASE p \notin refs[o]
      BY <2>2, <3>2, <1>1, <1>3, <1>10, <1>12 DEF IInv, MarkedFromRoots
    <3> QED  BY <3>1, <3>2
  <2>3. Kept' \subseteq Reachable'
    BY <1>1, <1>5, <1>10, <1>11 DEF IInv, MarkedFromRoots
  <2> QED  BY <2>1, <2>2, <2>3 DEF MarkedFromRoots
<1>14. NoBlackWaits'
  BY <1>1, <1>3, <1>12 DEF IInv, NoBlackWaits
<1> QED  BY <1>7, <1>8, <1>9, <1>13, <1>14

\* When no grey object is left, what has been moved out is what is reachable.
LEMMA MarkingComplete ==
    ASSUME IInv, pc = "count", Greys = {}
    PROVE  Kept = Reachable
<1>1. \A o \in Unmoved : colour[o] = "white"
  <2> SUFFICES ASSUME NEW o \in Unmoved, colour[o] # "white" PROVE FALSE
    OBVIOUS
  <2>1. o \in Obj /\ colour[o] = "grey"
    BY DEF IInv, TypeOK, NoBlackWaits, Unmoved, Range, Slots, Colours
  <2>2. PICK k \in DOMAIN objects : objects[k] = o
    BY DEF Unmoved, Range
  <2> QED  BY <2>1, <2>2 DEF Greys
<1>2. Kept \subseteq Reachable
  BY DEF IInv, MarkedFromRoots
<1>3. HoldsRoots(Kept) /\ RefsClosed(Kept)
  BY <1>1 DEF IInv, MarkedFromRoots, HoldsRoots, RefsClosed, Tracked
<1>4. Kept \in SUBSET Tracked
  BY DEF Tracked
<1> QED  BY <1>2, <1>3, <1>4, ReachableFacts

\* The end of a collection: objects_ holds what was reachable and the new
\* object.
LEMMA SweepStep ==
    ASSUME IInv, Sweep
    PROVE  /\ Tracked' = Reachable \cup {pending.obj} /\ Heap' = Tracked'
           /\ Heap' \subseteq Heap
           /\ SingleOwner' /\ MarkedFromRoots' /\ NoBlackWaits'
           /\ MutatorShape'
<1> DEFINE o == pending.obj
<1>1. /\ pc = "count" /\ pc' = "mutator" /\ Greys = {}
      /\ objects' = Append(kept, o) /\ kept' = <<>>
  BY DEF Sweep
<1>2. o \in Obj /\ o # Null /\ o \notin Tracked
  BY <1>1 DEF IInv, TypeOK, SingleOwner
<1> HIDE DEF o
<1>3. Kept = Reachable
  BY <1>1, MarkingComplete
<1>4. Range(objects') = Kept \cup {o}
  BY <1>1, <1>2, RangeAppend DEF IInv, TypeOK, Kept
<1>5. Kept \subseteq Obj
  BY DEF IInv, TypeOK, Kept, Range
<1>6. Unmoved' = Kept \cup {o} /\ Kept' = {}
  <2>1. Kept' = {}
    BY <1>1 DEF Kept, Range
  <2> QED  BY <1>2, <1>4, <1>5, <2>1 DEF Unmoved
<1>7. Tracked' = Reachable \cup {o} /\ Heap' = Tracked'
  BY <1>1, <1>3, <1>6 DEF Tracked, Heap
<1>8. Heap' \subseteq Heap
  BY <1>1, <1>3, <1>7, ReachableFacts DEF Heap, o
<1>9. \A j, k \in DOMAIN objects' : j # k => objects'[j] # objects'[k]
  <2>1. o \notin Range(kept)
    BY <1>2 DEF Tracked, Kept
  <2> QED  BY <1>1, <1>2, <2>1, AppendInjective DEF IInv, TypeOK, SingleOwner
<1>10. SingleOwner'
  BY <1>1, <1>6, <1>9 DEF SingleOwner
<1> QED  BY <1>1, <1>7, <1>8, <1>10
         DEF MarkedFromRoots, NoBlackWaits, MutatorShape, o

\* The steps of the loop that move nothing.
LEMMA LoopStep ==
    ASSUME IInv, BeginPass \/ SkipSlot \/ EndPass
    PROVE  IInv'
<1>1. /\ pc # "mutator" /\ pc' # "mutator"
      /\ UNCHANGED <<objects, kept, colour, refs, text, strings, roots,
                     held, pending>>
  BY DEF BeginPass, SkipSlot, EndPass, heapVars
<1>2. Unmoved' = Unmoved /\ Kept' = Kept /\ Tracked' = Tracked /\ Heap' = Heap
  BY <1>1 DEF Unmoved, Kept, Tracked, Heap
<1>3. Reachable' = Reachable
  BY <1>1, <1>2, SameReachable
<1>4. TypeOK'
  BY TypeStep DEF IInv, Next, Collect
<1> QED  BY <1>1, <1>2, <1>3, <1>4
         DEF IInv, SingleOwner, MutatorShape, MarkedFromRoots, NoBlackWaits,
             StringsFound, Interned

-----------------------------------------------------------------------------
(* The steps of the mutator, and the invariant.                            *)

\* A step of the mutator that allocates and frees nothing.
LEMMA MutatorFrame ==
    ASSUME IInv, pc = "mutator", pc' = "mutator", TypeOK',
           UNCHANGED <<objects, kept, strings>>,
           \A o \in Heap : text'[o] = text[o]
    PROVE  IInv' /\ Tracked' = Tracked
<1>1. Unmoved' = Unmoved /\ Kept' = Kept /\ Tracked' = Tracked /\ Heap' = Heap
  BY DEF Unmoved, Kept, Tracked, Heap
<1> QED  BY <1>1 DEF IInv, SingleOwner, MutatorShape, MarkedFromRoots,
                     NoBlackWaits, StringsFound, Interned

\* An allocation of an object that is not a string.
LEMMA NewObjectStep ==
    ASSUME IInv, TypeOK', NEW o \in Obj, NEW rs \in SUBSET Obj,
           NEW d \in Destinations, NewObject(o, rs, d)
    PROVE  IInv' /\ Tracked \subseteq Tracked'
<1>1. /\ pc = "mutator" /\ o \notin Heap /\ AddObject(o, d)
      /\ \A p \in Obj \ {o} : refs'[p] = refs[p]
      /\ text' = [text EXCEPT ![o] = NoText] /\ strings' = strings
  BY DEF NewObject, IInv, TypeOK
<1>2. SingleOwner' /\ MarkedFromRoots' /\ NoBlackWaits' /\ MutatorShape'
  BY <1>1, AddObjectStep DEF IInv
<1>3. Heap' = Heap \cup {o} /\ Tracked \subseteq Tracked'
  BY <1>1, AddObjectHeap DEF IInv
<1>4. /\ text'[o] = NoText
      /\ \A p \in Heap : text'[p] = text[p]
  BY <1>1 DEF IInv, TypeOK
<1>5. StringsFound' /\ Interned'
  BY <1>1, <1>3, <1>4 DEF IInv, StringsFound, Interned
<1> QED  BY <1>2, <1>3, <1>5 DEF IInv

\* An allocation of a string: no string of the heap had its text.
LEMMA AddStringNewStep ==
    ASSUME IInv, TypeOK', NEW o \in Obj, NEW c \in Text,
           NEW d \in Destinations, AddStringNew(o, c, d)
    PROVE  IInv' /\ Tracked \subseteq Tracked'
<1>1. /\ pc = "mutator" /\ o \notin Heap /\ AddObject(o, d)
      /\ \A p \in Obj \ {o} : refs'[p] = refs[p]
      /\ text' = [text EXCEPT ![o] = c] /\ strings' = strings \cup {o}
      /\ ~Cached(o, c)
  BY DEF AddStringNew, IInv, TypeOK
<1>2. SingleOwner' /\ MarkedFromRoots' /\ NoBlackWaits' /\ MutatorShape'
  BY <1>1, AddObjectStep DEF IInv
<1>3. Heap' = Heap \cup {o} /\ Tracked \subseteq Tracked'
  BY <1>1, AddObjectHeap DEF IInv
<1>4. /\ text'[o] = c
      /\ \A p \in Heap : text'[p] = text[p]
  BY <1>1 DEF IInv, TypeOK
<1>5. StringsFound'
  BY <1>1, <1>3, <1>4 DEF IInv, StringsFound
<1>6. \A p \in Heap : text[p] # c
  BY <1>1 DEF IInv, StringsFound, Cached
<1>7. Interned'
  BY <1>3, <1>4, <1>6 DEF IInv, Interned
<1> QED  BY <1>2, <1>3, <1>5, <1>7 DEF IInv

\* IInv holds at the start.
LEMMA InitInv == Init => IInv
<1> SUFFICES ASSUME Init PROVE IInv
  OBVIOUS
<1>1. Unmoved = {} /\ Kept = {} /\ Tracked = {} /\ Heap = {}
  BY DEF Init, Unmoved, Kept, Tracked, Heap, Range
<1>2. TypeOK
  BY DEF Init, TypeOK, Slots, Colours, Destinations
<1> QED  BY <1>1, <1>2 DEF Init, IInv, SingleOwner, MutatorShape,
             MarkedFromRoots, NoBlackWaits, StringsFound, Interned

\* Every step keeps IInv and frees no reachable object.
LEMMA StepInv ==
    ASSUME IInv, [Next]_vars
    PROVE  IInv' /\ \A o \in Reachable : o \in Tracked'
<1> USE DEF heapVars, collectorVars
<1>1. TypeOK'
  BY TypeStep DEF IInv
<1>2. Reachable \subseteq Tracked
  BY ReachableFacts
<1>3. ASSUME NEW o \in Obj, NEW rs \in SUBSET Obj, NEW d \in Destinations,
             NewObject(o, rs, d)
      PROVE  IInv' /\ Tracked \subseteq Tracked'
  BY <1>1, <1>3, NewObjectStep
<1>4. ASSUME NEW o \in Obj, NEW c \in Text, NEW d \in Destinations,
             AddStringNew(o, c, d)
      PROVE  IInv' /\ Tracked \subseteq Tracked'
  BY <1>1, <1>4, AddStringNewStep
<1>5. ASSUME NEW o \in Obj, NEW p \in Obj, NEW c \in Text,
             NEW d \in Destinations, AddStringFound(o, c, p, d)
      PROVE  IInv' /\ Tracked \subseteq Tracked'
  <2>1. \A q \in Heap : text'[q] = text[q]
    BY <1>5 DEF AddStringFound, IInv, TypeOK
  <2> QED  BY <1>1, <1>5, <2>1, MutatorFrame DEF AddStringFound
<1>6. ASSUME NEW o \in Obj, Load(o) \/ PushHeld(o) \/ Hold(o) \/ Release(o) \/ Drop(o)
      PROVE  IInv' /\ Tracked \subseteq Tracked'
  BY <1>1, <1>6, MutatorFrame DEF Load, PushHeld, Hold, Release, Drop
<1>7. ASSUME NEW o \in Obj, NEW p \in Obj, NEW q \in Slots, Store(o, p, q)
      PROVE  IInv' /\ Tracked \subseteq Tracked'
  BY <1>1, <1>7, MutatorFrame DEF Store
<1>8. CASE BeginPass \/ SkipSlot \/ EndPass
  <2>1. Tracked' = Tracked
    BY <1>8 DEF BeginPass, SkipSlot, EndPass, Tracked, Unmoved, Kept
  <2> QED  BY <1>2, <1>8, <2>1, LoopStep
<1>9. CASE MoveSlot
  <2>1. /\ Tracked' = Tracked /\ Heap' = Heap
        /\ SingleOwner' /\ MarkedFromRoots' /\ NoBlackWaits'
    BY <1>9, MoveSlotStep
  <2>2. MutatorShape' /\ StringsFound' /\ Interned'
    BY <1>9, <2>1 DEF MoveSlot, IInv, MutatorShape, StringsFound, Interned
  <2> QED  BY <1>1, <1>2, <2>1, <2>2 DEF IInv
<1>10. CASE Sweep
  <2>1. /\ Tracked' = Reachable \cup {pending.obj} /\ Heap' = Tracked'
        /\ Heap' \subseteq Heap
        /\ SingleOwner' /\ MarkedFromRoots' /\ NoBlackWaits' /\ MutatorShape'
    BY <1>10, SweepStep
  <2>2. Kept = Reachable
    BY <1>10, MarkingComplete DEF Sweep
  <2>3. \A p \in Heap' : p \in Obj /\ p \notin Unmoved
    <3>1. pc # "mutator"
      BY <1>10 DEF Sweep
    <3>2. pending.obj \in Obj /\ pending.obj \notin Unmoved
      BY <3>1 DEF IInv, TypeOK, SingleOwner, Tracked
    <3>3. \A p \in Kept : p \in Obj /\ p \notin Unmoved
      BY DEF IInv, TypeOK, SingleOwner, Kept, Range
    <3> QED  BY <2>1, <2>2, <3>2, <3>3
  <2>4. strings' = strings /\ \A p \in Heap' : text'[p] = text[p]
    BY <1>10, <2>3 DEF Sweep
  <2>5. StringsFound' /\ Interned'
    BY <2>1, <2>4 DEF IInv, StringsFound, Interned
  <2> QED  BY <1>1, <2>1, <2>5 DEF IInv
<1>11. CASE UNCHANGED vars
  <2>1. /\ Unmoved' = Unmoved /\ Kept' = Kept /\ Tracked' = Tracked
        /\ Heap' = Heap
    BY <1>11 DEF vars, Unmoved, Kept, Tracked, Heap
  <2>2. Reachable' = Reachable
    BY <1>11, <2>1, SameReachable DEF vars
  <2> QED  BY <1>1, <1>2, <1>11, <2>1, <2>2
           DEF vars, IInv, SingleOwner, MutatorShape, MarkedFromRoots,
               NoBlackWaits, StringsFound, Interned
<1> QED  BY <1>2, <1>3, <1>4, <1>5, <1>6, <1>7, <1>8, <1>9, <1>10, <1>11
         DEF Next, Mutate, Collect

\* IInv is an invariant of the tracker: among others the variables keep their
\* types, the marking loop keeps the tri-colour invariant and two live strings
\* never have the same text.
THEOREM TrackerInvariant == Spec => []IInv
<1>1. Init => IInv
  BY InitInv
<1>2. IInv /\ [Next]_vars => IInv'
  BY StepInv
<1> QED  BY <1>1, <1>2, PTL DEF Spec

\* The lists of objects, the colours and the locals of the loops have their
\* types, whatever is freed and reused.
THEOREM TrackerTyped == Spec => []TypeOK
<1>1. IInv => TypeOK
  BY DEF IInv
<1> QED  BY <1>1, TrackerInvariant, PTL

\* No object is ever owned by two pointers of objects_ and reachable_objects,
\* nor is the one that waits to be stored: nothing is freed twice.
THEOREM OwnersAreUnique == Spec => []SingleOwner
<1>1. IInv => SingleOwner
  BY DEF IInv
<1> QED  BY <1>1, TrackerInvariant, PTL

\* collect_garbage marks from the roots: what waits in objects_ and is
\* referenced by a root or by a moved object is not white, and only reachable
\* objects are coloured or moved.
THEOREM MarkingCorrect == Spec => []MarkedFromRoots
<1>1. IInv => MarkedFromRoots
  BY DEF IInv
<1> QED  BY <1>1, TrackerInvariant, PTL

\* add_string interns: no two allocated strings have the same text.
THEOREM InterningCorrect == Spec => []Interned
<1>1. IInv => Interned
  BY DEF IInv
<1> QED  BY <1>1, TrackerInvariant, PTL

\* No step of the collector or of the mutator frees an object that can be
\* reached from the stack, the globals or the open upvalues.
THEOREM ReachableObjectsSurvive == Spec => NeverFreesReachable
<1>1. IInv /\ [Next]_vars => [\A o \in Reachable : o \in Tracked']_vars
  BY StepInv
<1> QED  BY <1>1, TrackerInvariant, PTL DEF Spec, NeverFreesReachable

\* A collection leaves exactly the reachable objects and the one whose
\* allocation started it.
THEOREM CollectionIsExact == Spec => SweepExact
<1>1. IInv /\ [Next]_vars
        => [pc = "count" /\ pc' = "mutator"
                => Tracked' = Reachable \cup {pending.obj}]_vars
  <2> SUFFICES ASSUME IInv, Next, pc = "count", pc' = "mutator"
               PROVE  Tracked' = Reachable \cup {pending.obj}
    BY DEF vars
  <2>1. Sweep
    BY DEF Next, Mutate, Collect, NewObject, AddStringNew, AddStringFound,
           Load, PushHeld, Hold, Release, Drop, Store, BeginPass, SkipSlot, MoveSlot,
           EndPass
  <2> QED  BY <2>1, SweepStep
<1> QED  BY <1>1, TrackerInvariant, PTL DEF Spec, SweepExact

-----------------------------------------------------------------------------
(* Dangling pointers.  Constants and the pointers in strings_ are the only *)
(* sources of them: without both, every pointer leads to allocated memory. *)

\* What the object that waits for a collection refers to is reachable, so the
\* collection does not free it.
PendingHeld == pc # "mutator" => refs[pending.obj] \subseteq Reachable

NoUntracedPointers ==
    held = {} /\ strings = {} /\ pending.dest = "root"

DanglingInv == NoUntracedPointers /\ NoDangling /\ PendingHeld

\* An allocation whose arguments are reachable.
LEMMA NewObjectDangling ==
    ASSUME MaxHeld = 0, IInv, DanglingInv, NEW o \in Obj,
           NEW rs \in SUBSET Obj, NEW d \in Destinations, NewObject(o, rs, d)
    PROVE  DanglingInv'
<1>1. /\ pc = "mutator" /\ o \notin Heap /\ AddObject(o, d)
      /\ refs' = [refs EXCEPT ![o] = rs] /\ strings' = {}
      /\ rs \subseteq Reachable
  BY DEF NewObject, DanglingInv, NoUntracedPointers
<1>2. Heap = Tracked /\ Heap \subseteq Obj
  BY <1>1 DEF Heap, Tracked, Unmoved, Kept, Range, IInv, TypeOK, Slots
<1>3. Heap' = Heap \cup {o}
  BY <1>1, AddObjectHeap DEF IInv
<1>4. d = "root"
  <2>1. Cardinality(held) = 0
    BY FS_EmptySet DEF DanglingInv, NoUntracedPointers
  <2> QED  BY <2>1 DEF NewObject, MayDeliver, Destinations
<1>5. roots' \subseteq roots \cup {o} /\ held' = {}
  BY <1>1, <1>4, AddObjectHeap
     DEF IInv, Deliver, DanglingInv, NoUntracedPointers
<1>6. pending'.dest = "root"
  BY <1>1, <1>4, AddObjectHeap DEF IInv, DanglingInv, NoUntracedPointers
<1>7. /\ refs'[o] = rs
      /\ \A p \in Heap : refs'[p] = refs[p]
  BY <1>1, <1>2 DEF IInv, TypeOK
<1>8. NoDangling'
  BY <1>1, <1>2, <1>3, <1>5, <1>7, ReachableFacts DEF DanglingInv, NoDangling
<1>9. PendingHeld'
  <2>1. CASE pc' = "count"
    <3>1. Tracked' = Tracked /\ roots' = roots /\ pending'.obj = o
      BY <1>1, <2>1, AddObjectHeap DEF IInv
    <3>2. Reachable' = Reachable
      BY <1>2, <1>7, <3>1 DEF Reachable, HoldsRoots, RefsClosed
    <3> QED  BY <1>1, <1>7, <3>1, <3>2 DEF PendingHeld
  <2>2. CASE pc' = "mutator"
    BY <2>2 DEF PendingHeld
  <2> QED  BY <1>1, <2>1, <2>2, AddObjectHeap DEF IInv
<1> QED  BY <1>1, <1>5, <1>6, <1>8, <1>9 DEF DanglingInv, NoUntracedPointers

\* The end of a collection: what is kept refers to nothing that is freed.
LEMMA SweepDangling ==
    ASSUME IInv, DanglingInv, Sweep
    PROVE  NoDangling'
<1> DEFINE o == pending.obj
<1>1. /\ pc = "count" /\ pc' = "mutator" /\ Greys = {}
      /\ Deliver(o, pending.dest)
      /\ refs' = [p \in Obj |-> IF p \in Unmoved THEN {} ELSE refs[p]]
  BY DEF Sweep
<1>2. o \in Obj /\ o \notin Tracked /\ Heap = Tracked \cup {o}
  BY <1>1 DEF IInv, TypeOK, SingleOwner, Heap
<1>3. Heap' = Reachable \cup {o} /\ Kept = Reachable
  BY <1>1, SweepStep, MarkingComplete
<1>4. roots' \subseteq roots \cup {o}
  BY <1>1 DEF Deliver
<1>5. roots \subseteq Heap'
  BY <1>2, <1>3, ReachableFacts DEF DanglingInv, NoDangling
<1>6. ASSUME NEW p \in Reachable
      PROVE  refs[p] \subseteq Heap' /\ refs'[p] = refs[p]
  <2>1. p \in Obj /\ p \notin Unmoved
    BY <1>3 DEF IInv, TypeOK, SingleOwner, Kept, Range
  <2>2. refs[p] \subseteq Heap
    BY <1>2, ReachableFacts DEF DanglingInv, NoDangling
  <2> QED  BY <1>1, <1>2, <1>3, <2>1, <2>2, ReachableFacts
<1>7. refs[o] \subseteq Heap' /\ refs'[o] = refs[o]
  BY <1>1, <1>2, <1>3 DEF DanglingInv, PendingHeld, Tracked
<1> QED  BY <1>3, <1>4, <1>5, <1>6, <1>7 DEF NoDangling

\* Every step keeps the pointers of the roots and of the heap valid.
LEMMA DanglingStep ==
    ASSUME MaxHeld = 0, Text = {}, IInv, DanglingInv, [Next]_vars
    PROVE  DanglingInv'
<1> USE DEF heapVars, collectorVars
<1>1. ASSUME NEW o \in Obj, NEW rs \in SUBSET Obj, NEW d \in Destinations,
             NewObject(o, rs, d)
      PROVE  DanglingInv'
  BY <1>1, NewObjectDangling
<1>2. ASSUME NEW o \in Obj, Load(o) \/ PushHeld(o) \/ Hold(o) \/ Release(o) \/ Drop(o)
      PROVE  DanglingInv'
  <2>1. ~Hold(o) /\ ~Release(o) /\ ~PushHeld(o)
    BY FS_EmptySet
       DEF Hold, Release, PushHeld, MayDeliver, DanglingInv, NoUntracedPointers
  <2>2. pc = "mutator" /\ pc' = "mutator" /\ Heap' = Heap
    BY <1>2, <2>1 DEF Load, Drop, Heap, Tracked, Unmoved, Kept
  <2>3. roots' \subseteq Heap
    BY <1>2, <2>1 DEF Load, Drop, DanglingInv, NoDangling
  <2> QED  BY <1>2, <2>1, <2>2, <2>3
           DEF Load, Drop, DanglingInv, NoDangling, PendingHeld,
               NoUntracedPointers
<1>3. ASSUME NEW o \in Obj, NEW p \in Obj, NEW q \in Slots, Store(o, p, q)
      PROVE  DanglingInv'
  <2>1. pc = "mutator" /\ pc' = "mutator" /\ Heap' = Heap
    BY <1>3 DEF Store, Heap, Tracked, Unmoved, Kept
  <2>2. /\ p \in Heap
        /\ \A x \in Obj : refs'[x] \subseteq refs[x] \cup {p}
    BY <1>3 DEF Store, IInv, TypeOK, DanglingInv, NoDangling
  <2>3. Heap \subseteq Obj
    BY <2>1 DEF IInv, TypeOK, Heap, Tracked, Unmoved, Kept, Range, Slots
  <2> QED  BY <1>3, <2>1, <2>2, <2>3
           DEF Store, DanglingInv, NoDangling, PendingHeld, NoUntracedPointers
<1>4. CASE BeginPass \/ SkipSlot \/ EndPass
  <2>1. /\ pc # "mutator" /\ pc' # "mutator"
        /\ UNCHANGED <<objects, kept, refs, roots, held, strings, pending>>
    BY <1>4 DEF BeginPass, SkipSlot, EndPass
  <2>2. Tracked' = Tracked /\ Heap' = Heap
    BY <2>1 DEF Tracked, Unmoved, Kept, Heap
  <2>3. Reachable' = Reachable
    BY <2>1, <2>2, SameReachable
  <2> QED  BY <2>1, <2>2, <2>3
           DEF DanglingInv, NoDangling, PendingHeld, NoUntracedPointers
<1>5. CASE MoveSlot
  <2>1. Tracked' = Tracked /\ Heap' = Heap
    BY <1>5, MoveSlotStep
  <2>2. /\ pc = "scan"
        /\ UNCHANGED <<refs, roots, held, strings, pending>>
    BY <1>5 DEF MoveSlot
  <2>3. Reachable' = Reachable
    BY <2>1, <2>2, SameReachable
  <2> QED  BY <2>1, <2>2, <2>3
           DEF DanglingInv, NoDangling, PendingHeld, NoUntracedPointers
<1>6. CASE Sweep
  <2>1. NoDangling'
    BY <1>6, SweepDangling
  <2> QED  BY <1>6, <2>1 DEF Sweep, DanglingInv, PendingHeld,
                              NoUntracedPointers, Deliver
<1>7. CASE UNCHANGED vars
  <2>1. Tracked' = Tracked /\ Heap' = Heap
    BY <1>7 DEF vars, Tracked, Unmoved, Kept, Heap
  <2>2. Reachable' = Reachable
    BY <1>7, <2>1, SameReachable DEF vars
  <2> QED  BY <1>7, <2>1, <2>2
           DEF vars, DanglingInv, NoDangling, PendingHeld, NoUntracedPointers
<1> QED  BY <1>1, <1>2, <1>3, <1>4, <1>5, <1>6, <1>7
         DEF Next, Mutate, Collect

\* In a program without held objects and strings no root and no object of
\* the heap ever holds a pointer to freed memory, however the collections fall.
THEOREM PointersStayValid ==
    ASSUME MaxHeld = 0, Text = {}
    PROVE  Spec => []NoDangling
<1>1. Init => IInv /\ DanglingInv
  <2>1. Init => Heap = {}
    BY DEF Init, Unmoved, Kept, Tracked, Heap, Range
  <2> QED  BY <2>1, InitInv
           DEF Init, DanglingInv, NoDangling, NoUntracedPointers, PendingHeld
<1>2. IInv /\ DanglingInv /\ [Next]_vars => (IInv /\ DanglingInv)'
  BY StepInv, DanglingStep
<1>3. DanglingInv => NoDangling
  BY DEF DanglingInv
<1> QED  BY <1>1, <1>2, <1>3, PTL DEF Spec
=============================================================================
