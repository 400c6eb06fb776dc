-------------------------- MODULE MCLoginAdmission --------------------------
(***************************************************************************)
(* An instance of LoginAdmission for TLC.                                  *)
(***************************************************************************)
EXTENDS LoginAdmission, TLC

KeySymmetry == Permutations(Keys) \cup Permutations(Calls)
=============================================================================
