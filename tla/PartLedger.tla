----------------------------- MODULE PartLedger -----------------------------
(***************************************************************************)
(* What an upload may rely on about its parts, as UploadCommit's           *)
(* ReceiveParts does: parts are taken in while the upload receives, a      *)
(* commit begins with all of them, and from then on nothing about them     *)
(* changes until the upload is gone.                                       *)
(***************************************************************************)
CONSTANTS
  Uploads,
  PartsOf \* the parts of each upload

VARIABLES
  phase, \* receiving, frozen or gone, of each upload
  have   \* the parts each upload has

Init ==
  /\ phase = [u \in Uploads |-> "receiving"]
  /\ have = [u \in Uploads |-> {}]

Take(u, p) ==
  /\ phase[u] = "receiving"
  /\ have' = [have EXCEPT ![u] = @ \cup {p}]
  /\ UNCHANGED phase

Freeze(u) ==
  /\ phase[u] = "receiving" /\ have[u] = PartsOf[u]
  /\ phase' = [phase EXCEPT ![u] = "frozen"]
  /\ UNCHANGED have

\* The uploads of an asset go together.
Forget(gone) ==
  /\ phase' = [u \in Uploads |-> IF u \in gone THEN "gone" ELSE phase[u]]
  /\ have' = [u \in Uploads |-> IF u \in gone THEN {} ELSE have[u]]

Next ==
  \/ \E u \in Uploads : Freeze(u) \/ \E p \in PartsOf[u] : Take(u, p)
  \/ \E gone \in SUBSET Uploads : Forget(gone)

Spec == Init /\ [][Next]_<<phase, have>>
=============================================================================
