--------------------------- MODULE MCUploadCommit ---------------------------
(***************************************************************************)
(* Instances of UploadCommit for TLC: which manifests the clients may send.*)
(***************************************************************************)
EXTENDS UploadCommit

OneAsset == {"a1"}
TwoAssets == {"a1", "a2"}

OneSource == {"s1"}
OneContent == {"c1"}
TwoContents == {"c1", "c2"}
UnitSize == [c \in Contents |-> 1]

\* Every slot may receive every content.
AllManifests == AllRequests

\* One asset receives both contents, the other shares one of them.
EditedAndShared == {r \in AllRequests : r.asset = "a1" \/ r.content = "c1"}

NoFaults == {}
Interruptions == {"crash", "abandon", "rollback"}
=============================================================================
