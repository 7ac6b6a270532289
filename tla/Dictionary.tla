----------------------------- MODULE Dictionary -----------------------------
(***************************************************************************)
(* What a hash table promises to the rest of loxx: a finite map.  An       *)
(* operation changes the map and answers in one step.  HashTable is shown  *)
(* to implement this specification.                                        *)
(***************************************************************************)
CONSTANTS
    Key,
    Val,
    NoVal       \* the value of a key that is not in the map, not in Val

VARIABLES
    map,        \* the value of each key, NoVal where there is none
    answer      \* the key last looked up and what was found

vars == <<map, answer>>

NoAnswer == [found |-> NoVal]

Init ==
    /\ map = [k \in Key |-> NoVal]
    /\ answer = NoAnswer

Assign(k, v) ==
    /\ map' = [map EXCEPT ![k] = v]
    /\ answer' = NoAnswer

Remove(k) ==
    /\ map' = [map EXCEPT ![k] = NoVal]
    /\ answer' = NoAnswer

Lookup(k) ==
    /\ answer' = [key |-> k, found |-> map[k]]
    /\ UNCHANGED map

Next ==
    \/ \E k \in Key, v \in Val : Assign(k, v)
    \/ \E k \in Key : Remove(k) \/ Lookup(k)

Spec == Init /\ [][Next]_vars
=============================================================================
