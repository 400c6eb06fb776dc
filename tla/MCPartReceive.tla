---------------------------- MODULE MCPartReceive ----------------------------
(***************************************************************************)
(* An instance of PartReceive for TLC: two accounts, one upload each.      *)
(***************************************************************************)
EXTENDS PartReceive, TLC

TwoAndOne == [u \in Uploads |-> IF u = "u2" THEN {0} ELSE {0, 1}]
OneEach == [u \in Uploads |-> IF u = "u2" THEN "b" ELSE "a"]
Interchangeable == Permutations(Calls) \cup Permutations(Semaphores)
=============================================================================
