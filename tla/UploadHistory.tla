--------------------------- MODULE UploadHistory ---------------------------
(***************************************************************************)
(* The promises of the upload commit protocol that hold until something    *)
(* particular has happened.  What has is added to UploadCommit as a set of *)
(* incidents; no step of the protocol reads it.                            *)
(***************************************************************************)
EXTENDS UploadCommit

VARIABLE
  incidents \* what has happened that a promise may depend on

hvars == <<vars, incidents>>

\* A reclamation removes an object that an unfinished upload is storing again.
\* remove_blob does not exclude it; a run of its own shows what follows.
ReclaimsUnderUpload ==
  gcUnlinked /\ \E u \in Upload : Active(u) /\ Content(u) = Content(gcBlob)

\* The sweep removes a staged file whose key was not among those it read, but
\* is referred to by now.
SweepsReferenced == \E u \in ReferencedKeys : SweepRemove(u)

\* An object is damaged on disk.
ObjectRots == \E c \in Contents : object[c] # "bad" /\ object'[c] = "bad"

\* A reclamation fails after its unlink: the row is back, the object is not.
RestoresRow == GcRollback /\ gcUnlinked

AllIncidents == {"reclaimed", "swept", "rotted", "restored", "misread"}

\* Whether a step is an incident of the kind i.
Incident(i) ==
  \/ i = "reclaimed" /\ ReclaimsUnderUpload'
  \/ i = "swept" /\ SweepsReferenced
  \/ i = "rotted" /\ ObjectRots
  \/ i = "restored" /\ RestoresRow
  \/ i = "misread" /\ \E u \in Upload : InspectionFails(u)

HInit == Init /\ incidents = {}
HNext == Next /\ incidents' = incidents \cup {i \in AllIncidents : Incident(i)}
HSpec == HInit /\ [][HNext]_hvars

-----------------------------------------------------------------------------
\* No crash, no completion that ends early and no background pass costs a byte
\* that is promised, wherever it strikes (complete_inner takes a commit up where
\* the files stand).
BytesSurviveRestarts == incidents \subseteq {"swept", "misread"} => ReferencedBlobsStored

\* A finalizing upload can always be finished: its staged file or its object is
\* whole, through every restart (doctor.rs validate_active_commits refuses
\* anything else; assemble_commit keeps no staged file it has not read).
RestartsStayRecoverable ==
  incidents \subseteq {"misread"} =>
    \A u \in Upload : commitState[u] = Finalizing =>
      stage[u] = "good" \/ object[Content(u)] = "good"

\* Crashes and completions that end early leave no upload in the state that
\* calls for manual reconciliation (mark_unknown_message): that takes an
\* incident.
UnknownOnlyAfterIncident ==
  incidents = {} => \A u \in Upload : commitState[u] # "unknown"

\* A receipt is final: while files can be read, a committed upload stays
\* committed until its asset is deleted, however often its client asks again
\* (validate_committed).
ReceiptFinal ==
  [][incidents' \subseteq {"swept"} =>
       \A u \in Upload : commitState[u] = Committed =>
         commitState'[u] \in {"committed", "deleted"}]_hvars

-----------------------------------------------------------------------------
(***************************************************************************)
(* What the protocol offers to those who read a resource (Delivery).       *)
(***************************************************************************)
StoredWhole == {c \in Contents : object[c] = "good"}

Sh(s) == INSTANCE Shelf WITH
           None <- "nothing", resource <- ShowsOf(s), objects <- StoredWhole

\* Of every slot a reader sees a resource that shows nothing but whole objects,
\* and an object that stays while it is shown, although versions are published,
\* deduplicated, replaced, deleted and reclaimed in many steps, by several
\* uploads and across restarts (open_blob against commit_metadata,
\* delete_asset_permanently and reconcile_orphan_blobs).
ServesShelf ==
  /\ \A s \in Slots : Sh(s)!Init
  /\ [][incidents' \subseteq {"swept", "misread"} =>
          \A s \in Slots : [Sh(s)!Next]_<<ShowsOf(s), StoredWhole>>]_hvars
=============================================================================
