---------------------------- MODULE MCLibrarySync ----------------------------
(***************************************************************************)
(* Instances of LibrarySync for TLC.                                       *)
(***************************************************************************)
EXTENDS LibrarySync, TLC

CONSTANTS taken, corrected

OneContent == {"c1"}
TwoInfos == {taken, corrected}
Symmetry == Permutations(TwoInfos)
=============================================================================
