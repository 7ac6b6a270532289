--------------------------- MODULE ObjectTracker ---------------------------
(***************************************************************************)
(* The garbage collector and string intern table of loxx                   *)
(* (src/src/ObjectTracker.cpp), together with the use the rest of the      *)
(* program makes of them: the virtual machine allocates objects, stores    *)
(* them in its roots (stack, globals, open upvalues) and in other objects. *)
(* Two kinds of pointers the collector does not know about: the compiler   *)
(* keeps objects in the constant tables of code objects, and the code of   *)
(* an instruction and the frame of a call hold objects in variables of C++ *)
(* (a closure under construction, the callee of a call through a field).   *)
(*                                                                         *)
(* The program has one thread.  The mutator actions are taken at pc =      *)
(* "mutator"; a call of add_object that crosses the trigger runs the       *)
(* collection, whose loop is modelled slot by slot, before it returns.     *)
(*                                                                         *)
(* An element of Obj is an address: the memory of a freed object may be    *)
(* handed out again by a later make_unique.                                *)
(***************************************************************************)
EXTENDS Naturals, Sequences, FiniteSets, Functions

CONSTANTS
    Obj,            \* the addresses an object can have
    Text,           \* the character sequences of string objects
    Null,           \* an empty unique_ptr: a slot whose object was moved out
    NoText,         \* the text of an object that is not a string
    Trigger,        \* gc_size_trigger_
    MaxHeld,        \* bound on the objects constants and variables hold
    MaxRefs         \* bound on the references one object holds

ASSUME ObjectTrackerAssumption ==
    /\ Null \notin Obj
    /\ NoText \notin Text
    /\ Trigger \in Nat
    /\ MaxHeld \in Nat /\ MaxRefs \in Nat

VARIABLES
    objects,    \* objects_
    kept,       \* the local reachable_objects of collect_garbage
    colour,     \* the colour_ of each object
    refs,       \* what grey_references of each object reaches
    text,       \* value_ of a StringObject, NoText for any other object
    strings,    \* strings_
    roots,      \* objects on the stack, in globals_ and in open_upvalues_
    held,       \* objects in the constants of code objects and in C++ variables
    pending,    \* the object add_object has been given and not yet stored
    pc,         \* where the single thread is
    slot        \* loop position in the scan over objects_

heapVars == <<refs, text, strings, roots, held>>
vars == <<objects, kept, colour, heapVars, pending, pc, slot>>

Colours == {"white", "grey", "black"}
Destinations == {"root", "held"}
Slots == Obj \cup {Null}

-----------------------------------------------------------------------------
\* Objects still in objects_, those moved to reachable_objects, and both.
Unmoved == Range(objects) \ {Null}
Kept == Range(kept)
Tracked == Unmoved \cup Kept

\* Every object whose memory is allocated.
Heap == Tracked \cup (IF pc = "mutator" THEN {} ELSE {pending.obj})

\* The sets of tracked objects that hold the roots and are closed under refs;
\* what is reachable is in all of them.
HoldsRoots(S) == roots \cap Tracked \subseteq S
RefsClosed(S) == \A o \in S : refs[o] \cap Tracked \subseteq S
Reachable ==
    {o \in Tracked :
        \A S \in SUBSET Tracked : HoldsRoots(S) /\ RefsClosed(S) => o \in S}

Greys == {k \in DOMAIN objects :
            objects[k] # Null /\ colour[objects[k]] = "grey"}

-----------------------------------------------------------------------------
Init ==
    /\ objects = <<>> /\ kept = <<>>
    /\ colour = [o \in Obj |-> "white"]
    /\ refs = [o \in Obj |-> {}]
    /\ text = [o \in Obj |-> NoText]
    /\ strings = {} /\ roots = {} /\ held = {}
    /\ pending = [obj |-> Null, dest |-> "root"]
    /\ pc = "mutator"
    /\ slot = 1

\* Where the caller of make_object puts the pointer it gets back.
Deliver(o, dest) ==
    /\ roots' = IF dest = "root" THEN roots \cup {o} ELSE roots
    /\ held' = IF dest = "held" THEN held \cup {o} ELSE held

MayDeliver(dest) ==
    dest = "held" => Cardinality(held) < MaxHeld

\* Faulty variants of the operators below are named Bad...: each is what the
\* operator would be with a plausible slip in the code, and stands in for it
\* to show that the properties notice.

\* The collection does not reset the colours the last one left.
BadWhitenAndGreyRoots(new) ==
    [o \in Obj |-> IF o \in Unmoved \cap roots THEN "grey"
                   ELSE IF o = new THEN "white" ELSE colour[o]]

\* collect_garbage sets every element of objects_ to White.
Whitened(new) ==
    [o \in Obj |-> IF o \in Unmoved \cup {new} THEN "white" ELSE colour[o]]

\* Then grey_roots.  A root that points to freed memory is written too; no
\* object sees it.
WhitenAndGreyRoots(new) ==
    [o \in Obj |-> IF o \in Unmoved \cap roots THEN "grey" ELSE Whitened(new)[o]]

\* The new object is not kept while the collection runs.
BadAddObject(o, dest) ==
    /\ UNCHANGED <<kept, slot, pending>>
    /\ \/ /\ Len(objects) > Trigger
          /\ colour' = WhitenAndGreyRoots(o)
          /\ pc' = "count"
          /\ UNCHANGED <<objects, roots, held>>
       \/ /\ ~(Len(objects) > Trigger)
          /\ objects' = Append(objects, o)
          /\ colour' = [colour EXCEPT ![o] = "white"]
          /\ Deliver(o, dest)
          /\ UNCHANGED pc

\* add_object(o): the check of the trigger, then either push_back at once or
\* the beginning of collect_garbage.
AddObject(o, dest) ==
    /\ UNCHANGED <<kept, slot>>
    /\ \/ /\ Len(objects) > Trigger
          /\ colour' = WhitenAndGreyRoots(o)
          /\ pending' = [obj |-> o, dest |-> dest]
          /\ pc' = "count"
          /\ UNCHANGED <<objects, roots, held>>
       \/ /\ ~(Len(objects) > Trigger)
          /\ objects' = Append(objects, o)
          /\ colour' = [colour EXCEPT ![o] = "white"]
          /\ Deliver(o, dest)
          /\ UNCHANGED <<pending, pc>>

\* make_object<T>(rs) for a T other than StringObject.  The virtual machine
\* passes objects it can reach, and functions from a constant table.
NewObject(o, rs, dest) ==
    /\ pc = "mutator"
    /\ o \in Obj \ Heap
    /\ rs \subseteq Reachable \cup held
    /\ Cardinality(rs) <= MaxRefs
    /\ MayDeliver(dest)
    /\ refs' = [refs EXCEPT ![o] = rs]
    /\ text' = [text EXCEPT ![o] = NoText]
    /\ AddObject(o, dest)
    /\ UNCHANGED strings

-----------------------------------------------------------------------------
\* add_string(o): o is the string object just built with text c.  strings_
\* keeps the pointers of freed strings, whose memory still holds the old text
\* unless it was overwritten, and o itself when o reuses such an address.
Candidates(o, c) == {p \in strings \ {o} : text[p] = c}
                        \cup (strings \cap {o})

\* The search compares pointers in place of texts.
BadCached(o, c) == \E p \in strings \cap Heap : p = o /\ text[p] = c

\* A candidate the search is sure to meet and to find equal.
Cached(o, c) == \E p \in strings \cap Heap : p # o /\ text[p] = c

\* The search finds p: o is destroyed and p returned.
AddStringFound(o, c, p, dest) ==
    /\ pc = "mutator"
    /\ o \in Obj \ Heap
    /\ p \in Candidates(o, c)
    /\ MayDeliver(dest)
    /\ Deliver(p, dest)
    /\ text' = IF o \in strings THEN [text EXCEPT ![o] = c] ELSE text
    /\ UNCHANGED <<objects, kept, colour, refs, strings, pending, pc, slot>>

\* The search finds nothing: o is interned and tracked.
AddStringNew(o, c, dest) ==
    /\ pc = "mutator"
    /\ o \in Obj \ Heap
    /\ ~Cached(o, c)
    /\ MayDeliver(dest)
    /\ strings' = strings \cup {o}
    /\ text' = [text EXCEPT ![o] = c]
    /\ refs' = [refs EXCEPT ![o] = {}]
    /\ AddObject(o, dest)

-----------------------------------------------------------------------------
\* What the instructions do with objects between two allocations.
collectorVars == <<objects, kept, colour, text, strings, pending, pc, slot>>

\* A value read from an object in the roots is pushed.
Load(o) ==
    /\ pc = "mutator"
    /\ \E p \in roots \cap Heap : o \in refs[p]
    /\ roots' = roots \cup {o}
    /\ UNCHANGED <<collectorVars, refs, held>>

\* LoadConstant, and the push of an object that a variable holds: it is pushed
\* whatever became of the object.
PushHeld(o) ==
    /\ pc = "mutator"
    /\ o \in held
    /\ roots' = roots \cup {o}
    /\ UNCHANGED <<collectorVars, refs, held>>

\* A value of the roots is copied to a variable, and the variable goes.
Hold(o) ==
    /\ pc = "mutator"
    /\ o \in roots
    /\ MayDeliver("held")
    /\ held' = held \cup {o}
    /\ UNCHANGED <<collectorVars, refs, roots>>

Release(o) ==
    /\ pc = "mutator"
    /\ o \in held
    /\ held' = held \ {o}
    /\ UNCHANGED <<collectorVars, refs, roots>>

\* The last reference from the roots is popped or overwritten.
Drop(o) ==
    /\ pc = "mutator"
    /\ o \in roots
    /\ roots' = roots \ {o}
    /\ UNCHANGED <<collectorVars, refs, held>>

\* set_field, set_method, set_upvalue and set_value: o refers to p, in place
\* of q when the entry held q before.
Store(o, p, q) ==
    /\ pc = "mutator"
    /\ o \in (roots \cup held) \cap Heap
    /\ text[o] = NoText
    /\ p \in roots
    /\ q \in refs[o] \cup {Null}
    /\ Cardinality((refs[o] \ {q}) \cup {p}) <= MaxRefs
    /\ refs' = [refs EXCEPT ![o] = (@ \ {q}) \cup {p}]
    /\ UNCHANGED <<collectorVars, roots, held>>

-----------------------------------------------------------------------------
\* num_greys > 0: another pass over objects_.
BeginPass ==
    /\ pc = "count"
    /\ Greys # {}
    /\ pc' = "scan"
    /\ slot' = 1
    /\ UNCHANGED <<objects, kept, colour, heapVars, pending>>

\* The loop does not advance past a slot that it skips.
BadSkipSlot ==
    /\ pc = "scan"
    /\ slot \in DOMAIN objects
    /\ slot \notin Greys
    /\ UNCHANGED vars

\* One iteration of the for loop that continues.
SkipSlot ==
    /\ pc = "scan"
    /\ slot \in DOMAIN objects
    /\ slot \notin Greys
    /\ slot' = slot + 1
    /\ UNCHANGED <<objects, kept, colour, heapVars, pending, pc>>

\* The references of the object are not greyed.
BadBlacken(o) == [colour EXCEPT ![o] = "black"]

\* set_colour(Black) on o, then its grey_references.
Blacken(o) ==
    [p \in Obj |-> IF p \in refs[o] THEN "grey"
                   ELSE IF p = o THEN "black" ELSE colour[p]]

\* The pointer is copied and its slot not emptied.
BadMoveSlot ==
    /\ pc = "scan"
    /\ slot \in Greys
    /\ colour' = Blacken(objects[slot])
    /\ kept' = Append(kept, objects[slot])
    /\ slot' = slot + 1
    /\ UNCHANGED <<objects, heapVars, pending, pc>>

\* One iteration that finds a grey object.
MoveSlot ==
    /\ pc = "scan"
    /\ slot \in Greys
    /\ colour' = Blacken(objects[slot])
    /\ kept' = Append(kept, objects[slot])
    /\ objects' = [objects EXCEPT ![slot] = Null]
    /\ slot' = slot + 1
    /\ UNCHANGED <<heapVars, pending, pc>>

\* The end of the for loop: num_greys is computed again.
EndPass ==
    /\ pc = "scan"
    /\ slot \notin DOMAIN objects
    /\ pc' = "count"
    /\ UNCHANGED <<objects, kept, colour, heapVars, pending, slot>>

\* A single pass: the collection ends whatever is grey after it.
BadSweep ==
    /\ pc = "count"
    /\ Greys = {} \/ kept # <<>>
    /\ objects' = Append(kept, pending.obj)
    /\ kept' = <<>>
    /\ refs' = [o \in Obj |-> IF o \in Unmoved THEN {} ELSE refs[o]]
    /\ colour' = [o \in Obj |-> IF o \in Unmoved THEN "white" ELSE colour[o]]
    /\ text' = [o \in Obj |-> IF o \in Unmoved \ strings
                              THEN NoText ELSE text[o]]
    /\ Deliver(pending.obj, pending.dest)
    /\ pending' = [obj |-> Null, dest |-> "root"]
    /\ pc' = "mutator"
    /\ slot' = 1
    /\ UNCHANGED strings

\* num_greys = 0: objects_ is replaced, which frees what was not moved, and
\* add_object stores the new object and returns.
Sweep ==
    /\ pc = "count"
    /\ Greys = {}
    /\ objects' = Append(kept, pending.obj)
    /\ kept' = <<>>
    /\ refs' = [o \in Obj |-> IF o \in Unmoved THEN {} ELSE refs[o]]
    /\ colour' = [o \in Obj |-> IF o \in Unmoved THEN "white" ELSE colour[o]]
    /\ text' = [o \in Obj |-> IF o \in Unmoved \ strings
                              THEN NoText ELSE text[o]]
    /\ Deliver(pending.obj, pending.dest)
    /\ pending' = [obj |-> Null, dest |-> "root"]
    /\ pc' = "mutator"
    /\ slot' = 1
    /\ UNCHANGED strings

-----------------------------------------------------------------------------
Mutate ==
    \/ \E o \in Obj, rs \in SUBSET Obj, d \in Destinations : NewObject(o, rs, d)
    \/ \E o \in Obj, c \in Text, d \in Destinations : AddStringNew(o, c, d)
    \/ \E o, p \in Obj, c \in Text, d \in Destinations :
            AddStringFound(o, c, p, d)
    \/ \E o \in Obj : Load(o)
    \/ \E o \in Obj : PushHeld(o)
    \/ \E o \in Obj : Hold(o) \/ Release(o)
    \/ \E o \in Obj : Drop(o)
    \/ \E o, p \in Obj, q \in Slots : Store(o, p, q)

Collect == BeginPass \/ SkipSlot \/ MoveSlot \/ EndPass \/ Sweep

Next == Mutate \/ Collect

\* The collector runs to its end inside the call of add_object.
Spec == Init /\ [][Next]_vars /\ WF_vars(Collect)

-----------------------------------------------------------------------------
TypeOK ==
    /\ objects \in Seq(Slots) /\ kept \in Seq(Obj)
    /\ colour \in [Obj -> Colours]
    /\ refs \in [Obj -> SUBSET Obj]
    /\ text \in [Obj -> Text \cup {NoText}]
    /\ strings \subseteq Obj /\ roots \subseteq Obj /\ held \subseteq Obj
    /\ pc \in {"mutator", "count", "scan"}
    /\ pending \in [obj : Slots, dest : Destinations]
    /\ pc # "mutator" => pending.obj \in Obj
    /\ slot \in Nat

\* No object is owned by two unique_ptrs: it would be freed twice.
SingleOwner ==
    /\ \A j, k \in DOMAIN objects :
            j # k /\ objects[j] # Null => objects[j] # objects[k]
    /\ \A j, k \in DOMAIN kept : j # k => kept[j] # kept[k]
    /\ Unmoved \cap Kept = {}
    /\ pc # "mutator" => pending.obj \notin Tracked

\* The invariant of the marking loop: no object waiting in objects_ is white
\* and referenced by a root or by an object already moved out, and only
\* reachable objects have been given another colour or moved.
MarkedFromRoots ==
    pc # "mutator" =>
        /\ \A o \in Unmoved :
              (o \in roots \/ \E p \in Kept : o \in refs[p])
                 => colour[o] # "white"
        /\ \A o \in Unmoved : colour[o] # "white" => o \in Reachable
        /\ Kept \subseteq Reachable

\* Two string objects with the same text are the same object, which is what
\* operator== on values and the method tables rely on when they compare
\* pointers.
Interned ==
    \A o, p \in Heap : text[o] # NoText /\ text[o] = text[p] => o = p

\* While the mutator runs nothing has been moved out of objects_.
MutatorShape == pc = "mutator" => kept = <<>>

\* During a collection, what is waiting in objects_ has not been blackened.
NoBlackWaits ==
    pc # "mutator" => \A o \in Unmoved : colour[o] # "black"

\* Every string object is in strings_, where the next search finds it.
StringsFound == \A o \in Heap : text[o] # NoText => o \in strings

\* The inductive invariant of the tracker.
IInv ==
    /\ TypeOK /\ SingleOwner /\ MutatorShape
    /\ MarkedFromRoots /\ NoBlackWaits
    /\ StringsFound /\ Interned

\* No step frees an object that the roots reach.
NeverFreesReachable ==
    [][\A o \in Reachable : o \in Tracked']_vars

\* A collection keeps what is reachable, the new object, and nothing else.
SweepExact ==
    [][pc = "count" /\ pc' = "mutator"
          => Tracked' = Reachable \cup {pending.obj}]_vars

\* Every pointer a root or an object holds leads to allocated memory.  This is
\* what the collector promises to a program without held objects and strings.
NoDangling ==
    /\ roots \subseteq Heap
    /\ \A o \in Heap : refs[o] \subseteq Heap

\* The constants of the code objects and the variables of the C++ code lead to
\* allocated memory.
HeldAllocated == held \subseteq Heap

\* What add_string may return leads to allocated memory.
StringsAllocated == strings \subseteq Heap

\* A collection that starts comes to its end.
CollectionEnds == (pc = "count") ~> (pc = "mutator")
=============================================================================
