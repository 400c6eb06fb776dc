----------------------------- MODULE MCInstances -----------------------------
(***************************************************************************)
(* An instance of Instances for TLC: the default path lies below "blobs",  *)
(* which an administrator may give to an account too.                      *)
(***************************************************************************)
EXTENDS Instances

OneInstance == {"one"}
DefaultPaths == [i \in Instances |-> i]
AllPaths == Instances \cup {"blobs"}
BelowBlobs == {<<i, "blobs">> : i \in Instances}
=============================================================================
