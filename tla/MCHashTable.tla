---------------------------- MODULE MCHashTable ----------------------------
(***************************************************************************)
(* HashTable with four keys, most of which share a home position, so that  *)
(* probe runs wrap around the end of the table and interleave.             *)
(***************************************************************************)
EXTENDS HashTable, TLC

MCHash == 1 :> 3 @@ 2 :> 7 @@ 3 :> 0 @@ 4 :> 11
=============================================================================
