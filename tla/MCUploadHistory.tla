--------------------------- MODULE MCUploadHistory ---------------------------
(***************************************************************************)
(* An instance of UploadHistory for TLC: one photo in three versions, one  *)
(* of them larger, with the manifests of MCUploadCommit.  Nothing tells    *)
(* the other contents apart but equality.                                  *)
(***************************************************************************)
EXTENDS UploadHistory, MCUploadCommit, TLC

CONSTANTS c1, c2, large

ThreeVersions == {c1, c2, large}
LargeIsTwo == [c \in ThreeVersions |-> IF c = large THEN 2 ELSE 1]
VersionSymmetry == Permutations({c1, c2})
=============================================================================
