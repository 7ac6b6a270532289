----------------------------- MODULE AnySequence -----------------------------
(***************************************************************************)
(* Sequences of anything, where there is no set to take the elements from. *)
(***************************************************************************)
EXTENDS Integers, Sequences

IsSeq(s) == Len(s) \in Nat /\ s = [i \in 1 .. Len(s) |-> s[i]]
=============================================================================
