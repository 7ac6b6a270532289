-------------------------- MODULE MCObjectTracker --------------------------
(***************************************************************************)
(* ObjectTracker on small instances.  The addresses are interchangeable.   *)
(***************************************************************************)
EXTENDS ObjectTracker, TLC

Addresses == Permutations(Obj)
=============================================================================
