---------------------------- MODULE UploadCommit ----------------------------
(***************************************************************************)
(* The upload commit protocol of one account: upload_commit.rs, the parts  *)
(* of routes.rs that create and feed uploads, the deletion and reclamation *)
(* of library.rs, and the files storage.rs keeps for them.                 *)
(*                                                                         *)
(* Three things share this state.  The SQLite database holds the rows;     *)
(* SQLite lets one transaction write at a time while readers see the last  *)
(* committed state.  The data directory holds the part files, the staged   *)
(* file of each commit and the content-addressed objects.  The process     *)
(* holds the requests in flight, lost by a crash.                          *)
(*                                                                         *)
(* One account, so one database of blobs keyed by content and one paired   *)
(* device.  The account's storage path is fixed: admin.rs refuses to move  *)
(* an account that has blobs or unsettled uploads.                         *)
(***************************************************************************)
EXTENDS Naturals, FiniteSets, FiniteSetsExt

CONSTANTS
  Assets,            \* source_asset_id values of the device
  Sources,           \* source_resource_id values within an asset
  Contents,          \* full-content hashes
  Requests,          \* the manifests clients may send
  Size,              \* bytes of each content
  Quota,             \* accounts.quota_bytes; 0 means unlimited
  MaxUploads,        \* bound: upload rows over a behavior
  FaultKinds,        \* the kinds of failure that may happen ...
  MaxFaults,         \* ... and bound: how many of them
  PeriodicReconcile, \* the 120 s background pass runs while serving
  NoRequest          \* request column of a row that does not exist

Upload == 1 .. MaxUploads
Slots  == Assets \X Sources
NoBlob == 0

\* A blob id is a UUID the upload draws when it begins its commit.  An upload
\* begins once, so the id is named by the upload that proposed it.
BlobId == Upload \cup {NoBlob}

AllFaults == {"crash",     \* the process dies
              "abandon",   \* a completion ends early, nothing marked
              "inspect",   \* an inspection of a file returns an I/O error
              "rollback",  \* a reclamation's unlink or COMMIT fails
              "damage"}    \* bytes rot

AllRequests == [asset : Assets, source : Sources, content : Contents]

ASSUME BoundsAssumption ==
  /\ MaxUploads \in Nat /\ MaxFaults \in Nat /\ Quota \in Nat
  /\ PeriodicReconcile \in BOOLEAN /\ FaultKinds \subseteq AllFaults
ASSUME RequestsAssumption ==
  /\ Requests \subseteq AllRequests
  /\ NoRequest \notin Requests
  /\ "nothing" \notin Contents
  /\ Size \in [Contents -> Nat]

VARIABLES
  \* --- the database ---
  commitState,  \* uploads.commit_state; "none" and "deleted": no such row
  request,      \* uploads.request with the asset it was resolved to
  received,     \* every upload_parts row of the upload has received_at
  complete,     \* uploads.state = 'complete'
  stagedKey,    \* uploads.commit_staged_key IS NOT NULL
  commitBlob,   \* uploads.commit_blob_id
  blobs,        \* ids of the rows of blobs
  asset,        \* the assets row: absent, live, or trashed (deleted_at)
  resource,     \* resources.blob_id of each slot; NoBlob: no such row
  next,         \* number of the next upload; order of uploads.rowid
  \* --- the data directory ---
  object,       \* objects/<hash> of each content
  stage,        \* staging/commit-<upload>-<uuid>.stage of each upload
  damaged,      \* uploads whose part files no longer match the manifest
  \* --- the process ---
  serving,      \* listening; FALSE during the startup reconciliation
  reconciling,  \* the background reconciliation task is alive
  pc,           \* where complete_inner of each upload stands
  candidate,    \* approved_candidate of commit_metadata_with_race_retry
  gcBlob,       \* row deleted by the uncommitted reclamation transaction
  gcUnlinked,   \* that transaction has removed the object file
  sweepPhase,   \* progress of the orphan staging sweep
  sweepSet,     \* keys it read as referenced, then files it listed to remove
  dedup,        \* create_upload calls that verified an existing blob
  \* --- bookkeeping of the specification ---
  shown,        \* the upload whose version each slot shows; 0: no version,
                \* or one a deduplicating create attached
  faults        \* faults left to inject

dbVars   == <<commitState, request, received, complete, stagedKey, commitBlob,
              blobs, asset, resource, next>>
fileVars == <<object, stage, damaged>>
gcVars   == <<gcBlob, gcUnlinked>>
sweepVars == <<sweepPhase, sweepSet>>
runVars  == <<pc, candidate>>
procVars == <<serving, reconciling, runVars, gcVars, sweepVars, dedup>>
vars     == <<dbVars, fileVars, procVars, shown, faults>>

-----------------------------------------------------------------------------
(***************************************************************************)
(* Reading the state.                                                      *)
(***************************************************************************)

Receiving == "receiving"
CommitStarted == "commit_started"
Finalizing == "finalizing"
Committed == "committed"

RowStates == {"receiving", "commit_started", "finalizing", "committed",
              "unknown", "failed"}

Exists(u)  == commitState[u] \in RowStates
Content(u) == request[u].content
SlotOf(u)  == <<request[u].asset, request[u].source>>

\* The statuses create_upload reuses and both quota checks count.
Active(u) == commitState[u] \in {"receiving", "commit_started", "finalizing"}

\* The row of a content, which blobs_content_unique_idx makes unique.
BlobsOf(c) == {b \in blobs : Content(b) = c}
BlobOf(c)  == IF BlobsOf(c) = {} THEN NoBlob ELSE CHOOSE b \in BlobsOf(c) : TRUE

\* SQLite has one writer: a reclamation keeps the write lock from its DELETE
\* to its COMMIT or ROLLBACK and every other writer waits.
WriteLockFree == gcBlob = NoBlob

\* Mutant: reclamation asks only whether a resource shows the blob.
UnreferencedByResources(b) == \A s \in Slots : resource[s] # b

\* The NOT EXISTS guards of reconcile_orphan_blobs.
Unreferenced(b) ==
  /\ \A s \in Slots : resource[s] # b
  /\ \A u \in Upload : Exists(u) => commitBlob[u] # b

Used == MapThenSumSet(LAMBDA b : Size[Content(b)], blobs)
Reserved(S) == MapThenSumSet(LAMBDA u : Size[Content(u)], S)

\* Mutant: create_upload forgets the uploads whose commit has begun.
ReservedReceiving == Reserved({u \in Upload : commitState[u] = Receiving})

\* What ensure_quota and ensure_commit_quota count as reserved.
ReservedAtCreate == Reserved({u \in Upload :
    Active(u) \/ (commitState[u] = "unknown" /\ ~complete[u])})
ReservedAtCommit == Reserved({u \in Upload : Active(u)})

CreateFits(bytes) == Quota = 0 \/ Used + ReservedAtCreate + bytes <= Quota
CommitFits == Quota = 0 \/ Used + ReservedAtCommit <= Quota

\* Mutant: rowids compared the wrong way round.
OlderCommitted(u) ==
  \E v \in Upload : v < u /\ commitState[v] = Committed /\ SlotOf(v) = SlotOf(u)

\* A newer upload of the same resource is already committed.
Superseded(u) ==
  \E v \in Upload : v > u /\ commitState[v] = Committed /\ SlotOf(v) = SlotOf(u)

Fault(kind) == kind \in FaultKinds /\ faults > 0 /\ faults' = faults - 1

Idle == \A u \in Upload : pc[u] = "idle"

\* Moving the completion of u; its memory goes when it returns.
Goto(u, from, to) ==
  /\ pc[u] = from
  /\ pc' = [pc EXCEPT ![u] = to]
  /\ candidate' = [candidate EXCEPT ![u] = IF to = "idle" THEN NoBlob ELSE @]

-----------------------------------------------------------------------------
(***************************************************************************)
(* A fresh installation that has just started: initialize created an empty *)
(* database and an empty data directory, and run reconciles before it      *)
(* listens.                                                                *)
(***************************************************************************)
Init ==
  /\ commitState = [u \in Upload |-> "none"]
  /\ request = [u \in Upload |-> NoRequest]
  /\ received = [u \in Upload |-> FALSE]
  /\ complete = [u \in Upload |-> FALSE]
  /\ stagedKey = [u \in Upload |-> FALSE]
  /\ commitBlob = [u \in Upload |-> NoBlob]
  /\ blobs = {}
  /\ asset = [a \in Assets |-> "absent"]
  /\ resource = [s \in Slots |-> NoBlob]
  /\ next = 1
  /\ object = [c \in Contents |-> "missing"]
  /\ stage = [u \in Upload |-> "missing"]
  /\ damaged = {}
  /\ serving = FALSE
  /\ reconciling = FALSE
  /\ pc = [u \in Upload |-> "idle"]
  /\ candidate = [u \in Upload |-> NoBlob]
  /\ gcBlob = NoBlob
  /\ gcUnlinked = FALSE
  /\ sweepPhase = "idle"
  /\ sweepSet = {}
  /\ dedup = {}
  /\ shown = [s \in Slots |-> 0]
  /\ faults = MaxFaults

-----------------------------------------------------------------------------
(***************************************************************************)
(* Creating and feeding an upload (routes.rs).                             *)
(***************************************************************************)

\* The asset is inserted if it is not there; a trashed one stays trashed.
UpsertAsset(a) == asset' = [asset EXCEPT ![a] = IF @ = "absent" THEN "live" ELSE @]

\* The lookup that lets a retried create return the upload it already made.
ActiveUpload(r) == \E u \in Upload : Active(u) /\ request[u] = r

\* create_upload when no blob has the content and no active upload can be
\* reused: one transaction.  (Reusing one writes nothing this module keeps.)
CreateUpload(r) ==
  /\ serving /\ WriteLockFree /\ next <= MaxUploads
  /\ BlobOf(r.content) = NoBlob
  /\ ~ActiveUpload(r)
  /\ CreateFits(Size[r.content])
  /\ UpsertAsset(r.asset)
  /\ commitState' = [commitState EXCEPT ![next] = Receiving]
  /\ request' = [request EXCEPT ![next] = r]
  /\ next' = next + 1
  /\ UNCHANGED <<received, complete, stagedKey, commitBlob, blobs, resource,
                 fileVars, procVars, shown, faults>>

\* create_upload finds the content: it gives the transaction back and reads
\* the object.  The request was made after the upload that has its number and
\* before the next one.
\* Bound: one such call is in flight at a time.
DedupInspect(r) ==
  /\ serving /\ WriteLockFree /\ dedup = {}
  /\ BlobOf(r.content) # NoBlob /\ object[r.content] = "good"
  /\ dedup' = {[request |-> r, blob |-> BlobOf(r.content), number |-> next - 1]}
  /\ UNCHANGED <<dbVars, fileVars, serving, reconciling, runVars, gcVars,
                 sweepVars, shown, faults>>

\* Mutant: the second transaction relies on the inspection.
TrustInspection(d) == TRUE
\* blob_still_exists of the second transaction.
BlobStillExists(d) == d.blob \in blobs

\* Its second transaction attaches the resource to the blob, whatever the slot
\* shows by now.
Target(d) == <<d.request.asset, d.request.source>>
DedupCommit(d) ==
  /\ serving /\ WriteLockFree
  /\ d \in dedup /\ BlobStillExists(d)
  /\ UpsertAsset(d.request.asset)
  /\ resource' = [resource EXCEPT ![Target(d)] = d.blob]
  /\ shown' = IF resource[Target(d)] = d.blob THEN shown
              ELSE [shown EXCEPT ![Target(d)] = 0]
  /\ dedup' = dedup \ {d}
  /\ UNCHANGED <<commitState, request, received, complete, stagedKey, commitBlob,
                 blobs, next, fileVars, serving, reconciling, runVars, gcVars,
                 sweepVars, faults>>

\* The row has gone ("deduplicated blob changed during verification"), or the
\* client hung up.
DedupReject(d) ==
  /\ d \in dedup
  /\ dedup' = dedup \ {d}
  /\ UNCHANGED <<dbVars, fileVars, serving, reconciling, runVars, gcVars,
                 sweepVars, shown, faults>>

\* The put_part call that stores the last missing part and sets received_at.
ReceiveParts(u) ==
  /\ serving /\ WriteLockFree
  /\ commitState[u] = Receiving /\ ~received[u]
  /\ received' = [received EXCEPT ![u] = TRUE]
  /\ UNCHANGED <<commitState, request, complete, stagedKey, commitBlob, blobs,
                 asset, resource, next, fileVars, procVars, shown, faults>>

-----------------------------------------------------------------------------
(***************************************************************************)
(* complete_inner of one upload.  The upload's file lock is held from the  *)
(* first step to the last, so one completion of an upload runs at a time,  *)
(* interleaved with everything else.  The columns it loaded as ready do    *)
(* not change under the lock; if the row is deleted meanwhile, stagedKey,  *)
(* commitBlob and request still say what ready holds.                      *)
(***************************************************************************)

\* A completion may start: at any time for a client; during startup, only as
\* the one the sequential reconciliation is at.
MayStart == serving \/ (Idle /\ WriteLockFree /\ sweepPhase = "idle")

\* begin_commit, one transaction: adopt the row of the content or, within the
\* quota, propose a new blob with a staged file.
BeginCommit(u) ==
  /\ serving /\ WriteLockFree
  /\ commitState[u] = Receiving /\ received[u]
  /\ \/ /\ BlobOf(Content(u)) # NoBlob
        /\ commitState' = [commitState EXCEPT ![u] = Finalizing]
        /\ commitBlob' = [commitBlob EXCEPT ![u] = BlobOf(Content(u))]
        /\ Goto(u, "idle", "inspect_final")
        /\ UNCHANGED stagedKey
     \/ /\ BlobOf(Content(u)) = NoBlob
        /\ CommitFits
        /\ commitState' = [commitState EXCEPT ![u] = CommitStarted]
        /\ commitBlob' = [commitBlob EXCEPT ![u] = u]
        /\ stagedKey' = [stagedKey EXCEPT ![u] = TRUE]
        /\ Goto(u, "idle", "inspect_started")
  /\ UNCHANGED <<request, received, complete, blobs, asset, resource, next,
                 fileVars, serving, reconciling, gcVars, sweepVars, dedup,
                 shown, faults>>

\* Steps of a completion that only move it.
Moves == UNCHANGED <<dbVars, fileVars, serving, reconciling, gcVars, sweepVars,
                     dedup, shown, faults>>

\* Mutant: a finalizing upload is taken to be published.
AssumePublished(u) ==
  IF commitState[u] = CommitStarted THEN "inspect_started" ELSE "candidate"
\* Where complete_inner takes up a commit that has begun.
RestartPoint(u) ==
  IF commitState[u] = CommitStarted THEN "inspect_started" ELSE "inspect_final"

\* Picking up a commit an earlier run left unfinished.
Resume(u) ==
  /\ MayStart /\ commitState[u] \in {CommitStarted, Finalizing}
  /\ Goto(u, "idle", RestartPoint(u))
  /\ Moves

\* A client repeats complete on a committed upload.
ReadReceipt(u) ==
  /\ serving /\ commitState[u] = Committed
  /\ Goto(u, "idle", "receipt")
  /\ Moves

\* reconcile_all goes straight to the clean-up of a committed upload.
ResumeCleanup(u) ==
  /\ MayStart /\ (serving => reconciling)
  /\ commitState[u] = Committed /\ stagedKey[u]
  /\ Goto(u, "idle", "cleanup")
  /\ Moves

\* commit_started: is the content already published?
InspectStarted(u) ==
  /\ Goto(u, "inspect_started",
          CASE object[Content(u)] = "good" -> "to_finalizing"
            [] object[Content(u)] = "bad" -> "mark_unknown"
            [] OTHER -> "assemble")
  /\ Moves

\* Mutants: whatever is staged is taken over; a file written to its end is
\* still removed when it goes out of scope.
AnyStageReusable(u) == stage[u] # "missing"
RemovedOnDrop(file) == "missing"

\* assemble_commit takes over a staged file only if its bytes match.
StageReusable(u) == stage[u] = "good"
\* What writing to the end makes of the staged file: nothing, if the sweep
\* unlinked it meanwhile.
Written(file) == IF file = "partial" THEN "good" ELSE file

\* assemble_commit reads what is staged, and creates the file anew unless it
\* is whole.
AssembleCreate(u) ==
  /\ IF StageReusable(u)
       THEN Goto(u, "assemble", "to_finalizing") /\ UNCHANGED stage
       ELSE /\ Goto(u, "assemble", "assembling")
            /\ stage' = [stage EXCEPT ![u] = "partial"]
  /\ UNCHANGED <<dbVars, object, damaged, serving, reconciling, gcVars,
                 sweepVars, dedup, shown, faults>>

\* ... and ends: parts that fail their hashes remove the file.
AssembleFinish(u) ==
  /\ \/ /\ u \in damaged
        /\ Goto(u, "assembling", "mark_failed")
        /\ stage' = [stage EXCEPT ![u] = "missing"]
     \/ /\ u \notin damaged
        /\ Goto(u, "assembling", "to_finalizing")
        /\ stage' = [stage EXCEPT ![u] = Written(@)]
  /\ UNCHANGED <<dbVars, object, damaged, serving, reconciling, gcVars,
                 sweepVars, dedup, shown, faults>>

\* transition_to_finalizing: an error if the row is no longer commit_started.
ToFinalizing(u) ==
  /\ WriteLockFree
  /\ IF commitState[u] = CommitStarted
       THEN /\ Goto(u, "to_finalizing", "inspect_final")
            /\ commitState' = [commitState EXCEPT ![u] = Finalizing]
       ELSE Goto(u, "to_finalizing", "idle") /\ UNCHANGED commitState
  /\ UNCHANGED <<request, received, complete, stagedKey, commitBlob, blobs,
                 asset, resource, next, fileVars, serving, reconciling, gcVars,
                 sweepVars, dedup, shown, faults>>

\* finalizing: the object, else the staged file, must carry the content.
InspectFinal(u) ==
  /\ Goto(u, "inspect_final",
          CASE object[Content(u)] = "good" -> "candidate"
            [] object[Content(u)] = "missing" /\ stagedKey[u]
               /\ stage[u] = "good" -> "publish"
            [] OTHER -> "mark_unknown")
  /\ Moves

\* publish_commit links the staged file at the object's name; a name already
\* taken is not an error here ...
Publish(u) ==
  /\ IF stage[u] = "good"
       THEN /\ Goto(u, "publish", "published")
            /\ object' = [object EXCEPT ![Content(u)] =
                            IF @ = "missing" THEN "good" ELSE @]
       ELSE Goto(u, "publish", "mark_unknown") /\ UNCHANGED object
  /\ UNCHANGED <<dbVars, stage, damaged, serving, reconciling, gcVars,
                 sweepVars, dedup, shown, faults>>

\* ... because it reads the object back.
InspectPublished(u) ==
  /\ Goto(u, "published",
          IF object[Content(u)] = "good" THEN "candidate" ELSE "mark_unknown")
  /\ Moves

\* load_blob_candidate reads outside any transaction, so it also sees a row
\* whose deletion is not committed.
LoadCandidate(u) ==
  /\ pc[u] = "candidate"
  /\ LET b == BlobOf(Content(u)) IN
       /\ pc' = [pc EXCEPT ![u] = IF b = NoBlob THEN "metadata" ELSE "validate"]
       /\ candidate' = [candidate EXCEPT ![u] = IF b = NoBlob THEN @ ELSE b]
  /\ Moves

\* validate_blob_candidate, of the row just loaded or of the one the metadata
\* transaction met; the latter goes round the loop again.
ValidateCandidate(u) ==
  /\ \/ Goto(u, "validate",
             IF object[Content(u)] = "good" THEN "metadata" ELSE "mark_unknown")
     \/ Goto(u, "revalidate",
             IF object[Content(u)] = "good" THEN "candidate" ELSE "mark_unknown")
  /\ Moves

\* Mutant: the INSERT of the blob row is forgotten.
LostInsert(u) == BlobOf(Content(u))
\* The blob row commit_metadata works with: the one of the content, or its own
\* inserted.  Every row of a content has the same storage path.
ActualBlob(u) ==
  IF BlobOf(Content(u)) # NoBlob THEN BlobOf(Content(u)) ELSE commitBlob[u]
Approved(u) == ActualBlob(u) \in {commitBlob[u], candidate[u]}

\* commit_metadata meets a row nobody validated: rolled back and tried again.
\* (The code gives up after three rounds; that is Abandon.)
MetadataRetry(u) ==
  /\ WriteLockFree /\ pc[u] = "metadata" /\ ~Approved(u)
  /\ pc' = [pc EXCEPT ![u] = "revalidate"]
  /\ candidate' = [candidate EXCEPT ![u] = ActualBlob(u)]
  /\ Moves

\* commit_metadata of a row that was deleted: the resource's foreign key or
\* the guarded UPDATE fails and the transaction is rolled back.
MetadataGone(u) ==
  /\ WriteLockFree /\ pc[u] = "metadata" /\ Approved(u)
  /\ commitState[u] # Finalizing
  /\ Goto(u, "metadata", "idle")
  /\ Moves

\* Mutant: a superseded upload goes on naming the blob.
KeepsBlob(u) == commitBlob[u]
\* commit_blob_id of a superseded upload.
BlobOfSuperseded(u) == NoBlob

\* commit_metadata of an upload a newer one has overtaken.  The blob row stays
\* behind, unreferenced, for reclamation to find.
MetadataSuperseded(u) ==
  /\ WriteLockFree /\ pc[u] = "metadata" /\ Approved(u)
  /\ commitState[u] = Finalizing /\ Superseded(u)
  /\ Goto(u, "metadata", "superseded")
  /\ blobs' = blobs \cup {ActualBlob(u)}
  /\ commitState' = [commitState EXCEPT ![u] = "failed"]
  /\ commitBlob' = [commitBlob EXCEPT ![u] = BlobOfSuperseded(u)]
  /\ stagedKey' = [stagedKey EXCEPT ![u] = FALSE]
  /\ UNCHANGED <<request, received, complete, asset, resource, next, fileVars,
                 serving, reconciling, gcVars, sweepVars, dedup, shown, faults>>

\* Mutant: a resource that is there keeps its blob (DO NOTHING on conflict).
MetadataInsert(u) ==
  /\ WriteLockFree /\ pc[u] = "metadata" /\ Approved(u)
  /\ commitState[u] = Finalizing /\ ~Superseded(u)
  /\ Goto(u, "metadata", IF stagedKey[u] THEN "cleanup" ELSE "idle")
  /\ blobs' = blobs \cup {ActualBlob(u)}
  /\ resource' = [resource EXCEPT ![SlotOf(u)] = IF @ = NoBlob THEN ActualBlob(u) ELSE @]
  /\ shown' = [shown EXCEPT ![SlotOf(u)] = u]
  /\ commitState' = [commitState EXCEPT ![u] = Committed]
  /\ commitBlob' = [commitBlob EXCEPT ![u] = ActualBlob(u)]
  /\ complete' = [complete EXCEPT ![u] = TRUE]
  /\ UNCHANGED <<request, received, stagedKey, asset, next, fileVars, serving,
                 reconciling, gcVars, sweepVars, dedup, faults>>

\* commit_metadata: blob row, resource and receipt in one transaction.
MetadataCommit(u) ==
  /\ WriteLockFree /\ pc[u] = "metadata" /\ Approved(u)
  /\ commitState[u] = Finalizing /\ ~Superseded(u)
  /\ Goto(u, "metadata", IF stagedKey[u] THEN "cleanup" ELSE "idle")
  /\ blobs' = blobs \cup {ActualBlob(u)}
  /\ resource' = [resource EXCEPT ![SlotOf(u)] = ActualBlob(u)]
  /\ shown' = [shown EXCEPT ![SlotOf(u)] = u]
  /\ commitState' = [commitState EXCEPT ![u] = Committed]
  /\ commitBlob' = [commitBlob EXCEPT ![u] = ActualBlob(u)]
  /\ complete' = [complete EXCEPT ![u] = TRUE]
  /\ UNCHANGED <<request, received, stagedKey, asset, next, fileVars, serving,
                 reconciling, gcVars, sweepVars, dedup, faults>>

\* remove_commit_stage, after a commit or a supersession.
RemoveStage(u) ==
  /\ \/ Goto(u, "cleanup", "clear")
     \/ Goto(u, "superseded", "idle")
  /\ stage' = [stage EXCEPT ![u] = "missing"]
  /\ UNCHANGED <<dbVars, object, damaged, serving, reconciling, gcVars,
                 sweepVars, dedup, shown, faults>>

\* The second half of cleanup_committed_stage.
ClearStagedKey(u) ==
  /\ WriteLockFree
  /\ Goto(u, "clear", "idle")
  /\ stagedKey' = [stagedKey EXCEPT ![u] = @ /\ commitState[u] # Committed]
  /\ UNCHANGED <<commitState, request, received, complete, commitBlob, blobs,
                 asset, resource, next, fileVars, serving, reconciling, gcVars,
                 sweepVars, dedup, shown, faults>>

\* Mutant: the receipt must be the version the resource shows.
ReceiptIsCurrent(u) ==
  /\ commitState[u] = Committed /\ commitBlob[u] \in blobs
  /\ resource[SlotOf(u)] = commitBlob[u] /\ object[Content(u)] = "good"

\* validate_committed: the receipt is believed only if row and bytes agree.
ReceiptHolds(u) ==
  /\ commitState[u] = Committed /\ commitBlob[u] \in blobs
  /\ resource[SlotOf(u)] # NoBlob /\ object[Content(u)] = "good"

ValidateReceipt(u) ==
  /\ Goto(u, "receipt", IF ~ReceiptHolds(u) THEN "mark_unknown"
                        ELSE IF stagedKey[u] THEN "cleanup" ELSE "idle")
  /\ Moves

\* mark_unknown_message and mark_failed_message; no row, no effect.
Mark(u) ==
  /\ WriteLockFree
  /\ \E m \in {"unknown", "failed"} :
       /\ Goto(u, IF m = "unknown" THEN "mark_unknown" ELSE "mark_failed", "idle")
       /\ commitState' = [commitState EXCEPT ![u] = IF Exists(u) THEN m ELSE @]
  /\ UNCHANGED <<request, received, complete, stagedKey, commitBlob, blobs,
                 asset, resource, next, fileVars, serving, reconciling, gcVars,
                 sweepVars, dedup, shown, faults>>

-----------------------------------------------------------------------------
(***************************************************************************)
(* Deletion and reclamation (library.rs).                                  *)
(***************************************************************************)

\* set_trashed in both directions.
SetTrashed(a) ==
  /\ serving /\ WriteLockFree /\ asset[a] # "absent"
  /\ asset' = [asset EXCEPT ![a] = IF @ = "live" THEN "trashed" ELSE "live"]
  /\ UNCHANGED <<commitState, request, received, complete, stagedKey,
                 commitBlob, blobs, resource, next, fileVars, procVars, shown,
                 faults>>

\* The uploads rows an asset takes with it (ON DELETE CASCADE).
UploadsOf(a) == {u \in Upload : Exists(u) /\ request[u].asset = a}

\* Mutant: reconcile_all does not list finalizing uploads.
ListedWithoutFinalizing(u) ==
  \/ commitState[u] = CommitStarted
  \/ commitState[u] = Committed /\ stagedKey[u]
\* The uploads reconcile_all lists.
Listed(u) == \/ commitState[u] \in {"commit_started", "finalizing"}
             \/ commitState[u] = Committed /\ stagedKey[u]

\* The transaction of delete_asset_permanently.  A pass that had listed one of
\* the uploads finds no row for it, returns the error, and the background
\* task, which propagates it, ends.
DeletePermanently(a) ==
  /\ serving /\ WriteLockFree /\ asset[a] = "trashed"
  /\ \E s \in Sources : resource[<<a, s>>] # NoBlob
  /\ asset' = [asset EXCEPT ![a] = "absent"]
  /\ commitState' = [u \in Upload |->
                       IF u \in UploadsOf(a) THEN "deleted" ELSE commitState[u]]
  /\ resource' = [s \in Slots |-> IF s[1] = a THEN NoBlob ELSE resource[s]]
  /\ shown' = [s \in Slots |-> IF s[1] = a THEN 0 ELSE shown[s]]
  /\ reconciling' \in {reconciling,
                       reconciling /\ \A u \in UploadsOf(a) : ~Listed(u)}
  /\ UNCHANGED <<request, received, complete, stagedKey, commitBlob, blobs,
                 next, fileVars, serving, runVars, gcVars, sweepVars, dedup,
                 faults>>

\* reconcile_orphan_blobs, one row: DELETE ... RETURNING takes the write lock
\* and decides again that nothing refers to the row.
GcDelete(b) ==
  /\ WriteLockFree /\ b \in blobs /\ Unreferenced(b)
  /\ serving \/ (Idle /\ sweepPhase = "idle")
  /\ gcBlob' = b
  /\ UNCHANGED <<dbVars, fileVars, serving, reconciling, runVars, gcUnlinked,
                 sweepVars, dedup, shown, faults>>

\* remove_blob, inside the open transaction.
GcUnlink ==
  /\ gcBlob # NoBlob /\ ~gcUnlinked
  /\ object' = [object EXCEPT ![Content(gcBlob)] = "missing"]
  /\ gcUnlinked' = TRUE
  /\ UNCHANGED <<dbVars, stage, damaged, serving, reconciling, runVars, gcBlob,
                 sweepVars, dedup, shown, faults>>

GcCommit ==
  /\ gcUnlinked
  /\ blobs' = blobs \ {gcBlob}
  /\ gcBlob' = NoBlob /\ gcUnlinked' = FALSE
  /\ UNCHANGED <<commitState, request, received, complete, stagedKey,
                 commitBlob, asset, resource, next, fileVars, serving,
                 reconciling, runVars, sweepVars, dedup, shown, faults>>

\* The unlink or, after it, the COMMIT fails: the row is back.
GcRollback ==
  /\ gcBlob # NoBlob /\ Fault("rollback")
  /\ gcBlob' = NoBlob /\ gcUnlinked' = FALSE
  /\ UNCHANGED <<dbVars, fileVars, serving, reconciling, runVars, sweepVars,
                 dedup, shown>>

-----------------------------------------------------------------------------
(***************************************************************************)
(* The orphan staging sweep at the end of reconcile_all: the keys the      *)
(* database refers to are read once, then the directory is listed, then    *)
(* every listed file whose key was not read is removed.                    *)
(***************************************************************************)
\* Mutant: keys are remembered for rows that are gone.
RememberedKeys == {u \in Upload : stagedKey[u]}
\* The referenced set of the sweep.
ReferencedKeys == {u \in Upload : Exists(u) /\ stagedKey[u]}

SweepRead ==
  /\ sweepPhase = "idle"
  /\ IF serving THEN reconciling ELSE Idle /\ WriteLockFree
  /\ sweepPhase' = "read"
  /\ sweepSet' = ReferencedKeys
  /\ UNCHANGED <<dbVars, fileVars, serving, reconciling, runVars, gcVars, dedup,
                 shown, faults>>

SweepList ==
  /\ sweepPhase = "read"
  /\ sweepPhase' = "removing"
  /\ sweepSet' = {u \in Upload : stage[u] # "missing"} \ sweepSet
  /\ UNCHANGED <<dbVars, fileVars, serving, reconciling, runVars, gcVars, dedup,
                 shown, faults>>

SweepRemove(u) ==
  /\ sweepPhase = "removing" /\ u \in sweepSet
  /\ stage' = [stage EXCEPT ![u] = "missing"]
  /\ sweepSet' = sweepSet \ {u}
  /\ UNCHANGED <<dbVars, object, damaged, serving, reconciling, runVars, gcVars,
                 sweepPhase, dedup, shown, faults>>

SweepEnd ==
  /\ serving /\ sweepPhase = "removing" /\ sweepSet = {}
  /\ sweepPhase' = "idle"
  /\ UNCHANGED <<dbVars, fileVars, serving, reconciling, runVars, gcVars,
                 sweepSet, dedup, shown, faults>>

-----------------------------------------------------------------------------
(***************************************************************************)
(* The process and its failures.                                           *)
(***************************************************************************)

\* The startup reconciliation returns from its sweep: listen and start the
\* background task.  What the pass could not finish stays as it is.
Serve ==
  /\ ~serving /\ sweepPhase = "removing" /\ sweepSet = {}
  /\ serving' = TRUE
  /\ reconciling' = PeriodicReconcile
  /\ sweepPhase' = "idle"
  /\ UNCHANGED <<dbVars, fileVars, runVars, gcVars, sweepSet, dedup, shown,
                 faults>>

\* A completion ends early with nothing marked: the client went away and its
\* future was dropped, or an I/O error or a busy database was returned.
\* Dropping assemble_commit removes the file it was writing.
Abandon(u) ==
  /\ Fault("abandon")
  /\ pc[u] # "idle" /\ Goto(u, pc[u], "idle")
  /\ stage' = [stage EXCEPT ![u] = IF pc[u] = "assembling" THEN "missing" ELSE @]
  /\ UNCHANGED <<dbVars, object, damaged, serving, reconciling, gcVars,
                 sweepVars, dedup, shown>>

\* An inspection fails with an I/O error, which complete_inner does not take
\* for an answer.
InspectionFails(u) ==
  /\ Fault("inspect")
  /\ \E from \in {"inspect_started", "inspect_final", "published", "validate",
                  "revalidate", "receipt"} : Goto(u, from, "mark_unknown")
  /\ UNCHANGED <<dbVars, fileVars, serving, reconciling, gcVars, sweepVars,
                 dedup, shown>>

\* The process dies.  Uncommitted transactions are undone, files stay as they
\* are, a half-written staged file included.
Crash ==
  /\ Fault("crash")
  /\ serving' = FALSE /\ reconciling' = FALSE
  /\ pc' = [u \in Upload |-> "idle"]
  /\ candidate' = [u \in Upload |-> NoBlob]
  /\ gcBlob' = NoBlob /\ gcUnlinked' = FALSE
  /\ sweepPhase' = "idle" /\ sweepSet' = {}
  /\ dedup' = {}
  /\ UNCHANGED <<dbVars, fileVars, shown>>

\* Bytes rot: the parts of an upload, or an object.
Damage ==
  /\ Fault("damage")
  /\ \/ \E u \in Upload \ damaged : received[u] /\ Active(u) /\ damaged' = damaged \cup {u}
        /\ UNCHANGED object
     \/ \E c \in Contents : object[c] = "good"
        /\ object' = [object EXCEPT ![c] = "bad"]
        /\ UNCHANGED damaged
  /\ UNCHANGED <<dbVars, stage, procVars, shown>>

-----------------------------------------------------------------------------
\* The steps of the completion of u after its start.
CompletionStep(u) ==
  \/ InspectStarted(u) \/ AssembleCreate(u) \/ AssembleFinish(u)
  \/ ToFinalizing(u) \/ InspectFinal(u) \/ Publish(u) \/ InspectPublished(u)
  \/ LoadCandidate(u) \/ ValidateCandidate(u)
  \/ MetadataRetry(u) \/ MetadataGone(u) \/ MetadataSuperseded(u)
  \/ MetadataCommit(u) \/ RemoveStage(u) \/ ClearStagedKey(u)
  \/ ValidateReceipt(u) \/ Mark(u)

CreateStep ==
  \/ \E r \in Requests : CreateUpload(r) \/ DedupInspect(r)
  \/ \E d \in dedup : DedupCommit(d) \/ DedupReject(d)

UploadStep(u) ==
  \/ ReceiveParts(u) \/ BeginCommit(u) \/ Resume(u) \/ ReadReceipt(u)
  \/ ResumeCleanup(u) \/ CompletionStep(u)

LibraryStep ==
  \/ \E a \in Assets : SetTrashed(a) \/ DeletePermanently(a)
  \/ \E b \in Upload : GcDelete(b)
  \/ GcUnlink \/ GcCommit

SweepStep == SweepRead \/ SweepList \/ SweepEnd \/ \E u \in Upload : SweepRemove(u)

FaultStep ==
  \/ \E u \in Upload : Abandon(u) \/ InspectionFails(u)
  \/ GcRollback \/ Crash \/ Damage

Next ==
  \/ CreateStep \/ (\E u \in Upload : UploadStep(u)) \/ LibraryStep \/ SweepStep
  \/ Serve \/ FaultStep

Spec == Init /\ [][Next]_vars

\* What the process does of its own accord: a request that runs goes on, the
\* startup pass ends, and a live background task comes round to every commit
\* left unfinished, every reclaimable row and the sweep.  Clients promise
\* nothing, and a dead background task promises nothing.
Background == ~serving \/ reconciling
Fairness ==
  /\ \A u \in Upload : WF_vars(CompletionStep(u))
  /\ \A u \in Upload :
       WF_vars(Background /\ Listed(u) /\ (Resume(u) \/ ResumeCleanup(u)))
  /\ \A b \in Upload : WF_vars(Background /\ GcDelete(b))
  /\ WF_vars(GcUnlink) /\ WF_vars(GcCommit)
  /\ WF_vars(SweepRead) /\ WF_vars(SweepList) /\ WF_vars(SweepEnd)
  /\ \A u \in Upload : WF_vars(SweepRemove(u))
  /\ WF_vars(Serve)

FairSpec == Spec /\ Fairness

-----------------------------------------------------------------------------
(***************************************************************************)
(* Properties.                                                             *)
(***************************************************************************)

PC == {"idle", "inspect_started", "assemble", "assembling", "to_finalizing",
       "inspect_final", "publish", "published", "candidate", "validate",
       "revalidate", "metadata", "cleanup", "clear", "superseded", "receipt",
       "mark_unknown", "mark_failed"}

\* Every variable has its type.
TypeOK ==
  /\ commitState \in [Upload -> RowStates \cup {"none", "deleted"}]
  /\ request \in [Upload -> Requests \cup {NoRequest}]
  /\ received \in [Upload -> BOOLEAN] /\ complete \in [Upload -> BOOLEAN]
  /\ stagedKey \in [Upload -> BOOLEAN] /\ commitBlob \in [Upload -> BlobId]
  /\ blobs \subseteq Upload
  /\ asset \in [Assets -> {"absent", "live", "trashed"}]
  /\ resource \in [Slots -> BlobId]
  /\ next \in 1 .. MaxUploads + 1
  /\ object \in [Contents -> {"missing", "good", "bad"}]
  /\ stage \in [Upload -> {"missing", "partial", "good"}]
  /\ damaged \subseteq Upload
  /\ serving \in BOOLEAN /\ reconciling \in BOOLEAN
  /\ pc \in [Upload -> PC] /\ candidate \in [Upload -> BlobId]
  /\ gcBlob \in BlobId /\ gcUnlinked \in BOOLEAN
  /\ sweepPhase \in {"idle", "read", "removing"} /\ sweepSet \subseteq Upload
  /\ dedup \subseteq [request : Requests, blob : Upload, number : Nat]
  /\ shown \in [Slots -> Nat]
  /\ faults \in Nat

\* No row names a blob row that is not there: not a resource, not a receipt,
\* not a commit that adopted an existing blob, whatever reclamation deletes
\* while they are being written (library.rs reconcile_orphan_blobs).
BlobReferencesHold ==
  /\ \A s \in Slots : resource[s] # NoBlob => resource[s] \in blobs
  /\ \A u \in Upload :
       \/ commitState[u] = Committed
       \/ commitState[u] = Finalizing /\ ~stagedKey[u]
       => commitBlob[u] \in blobs

\* A blob somebody counts on: a slot shows it, or an upload that has not failed
\* names it.
Needed(b) ==
  \/ \E s \in Slots : resource[s] = b
  \/ \E u \in Upload :
       /\ commitState[u] \in {"commit_started", "finalizing", "committed", "unknown"}
       /\ commitBlob[u] = b

\* A blob row somebody counts on has its bytes on disk: what the library shows
\* can be downloaded and what a receipt promised is kept (upload_commit.rs never
\* reports a commit it cannot prove).
ReferencedBlobsStored ==
  \A b \in blobs : Needed(b) => object[Content(b)] = "good"

\* Bytes in the store and bytes promised to unfinished uploads stay within the
\* quota through every commit, supersession and reclamation (ensure_quota,
\* ensure_commit_quota).
QuotaRespected ==
  Quota # 0 => Used + Reserved({u \in Upload : Active(u)}) <= Quota

\* No upload is shown over a newer one committed to its slot: a late completion
\* of the older one is turned down (commit_metadata).  Of a deduplicating create
\* this is not so: VersionNeverRegresses.
ShownIsNewest ==
  \A u \in Upload : commitState[u] = Committed =>
    shown[SlotOf(u)] >= u \/ shown[SlotOf(u)] = 0

\* The slot of a committed upload shows its version.
Showing(u) == commitState[u] = Committed /\ shown[SlotOf(u)] = u

\* The version of a committed upload is not replaced by that of an older request
\* while the asset exists, as the comment in commit_metadata demands of every
\* late completion.
VersionNeverRegresses ==
  [][\A u \in Upload : Showing(u) =>
       \/ shown'[SlotOf(u)] >= u
       \/ \E d \in dedup : DedupCommit(d) /\ d.number >= u
       \/ asset'[request[u].asset] = "absent"]_vars

\* What doctor requires of a committed upload (validate_database_file_rows).
DoctorAccepts(u) ==
  /\ complete[u] /\ commitBlob[u] \in blobs
  /\ Content(commitBlob[u]) = Content(u)
  /\ resource[SlotOf(u)] = commitBlob[u]

\* Two versions of one resource, a deduplicating create, a deletion and a
\* reclamation leave no committed upload doctor would refuse, except one whose
\* slot shows another version (validate_database_file_rows; it refuses those,
\* although docs/runtime-reference.md says old receipts are fine).
DoctorRefusesOnlyReplaced ==
  \A u \in Upload :
    commitState[u] = Committed => DoctorAccepts(u) \/ ~Showing(u)

\* While the background task lives, every commit that has begun settles: the
\* upload is committed, failed, unknown or gone (reconcile_all).
Unsettled(u) == commitState[u] \in {"commit_started", "finalizing"}
CommitsSettle == []Background => \A u \in Upload : Unsettled(u) ~> ~Unsettled(u)

\* While the background task lives, unreferenced rows and staged files do not
\* stay for good (reconcile_orphan_blobs, cleanup_orphan_staging).
Litter ==
  \/ \E b \in blobs : ~Needed(b)
  \/ \E u \in Upload : stage[u] # "missing" /\ ~(Exists(u) /\ stagedKey[u])
LitterIsCollected == []Background => []<>~Litter

-----------------------------------------------------------------------------
(***************************************************************************)
(* The protocol implements the promise: receipts, versions and blob rows   *)
(* are what an owner sees of it.                                           *)
(***************************************************************************)
PhaseOf(u) ==
  CASE commitState[u] \in {"receiving", "commit_started", "finalizing"} -> "open"
    [] commitState[u] \in {"unknown", "failed"} -> "rejected"
    [] OTHER -> commitState[u]
ShowsOf(s) == IF resource[s] = NoBlob THEN "nothing" ELSE Content(resource[s])

A == INSTANCE Archive WITH
       phase <- [u \in Upload |-> PhaseOf(u)],
       wanted <- request,
       shows <- [s \in Slots |-> ShowsOf(s)],
       by <- shown,
       held <- {Content(b) : b \in blobs}

\* Every step of the protocol is a step of the Archive or changes nothing an
\* owner can see (complete_inner, create_upload, delete_asset_permanently and
\* reconcile_orphan_blobs against what they promise together).
ImplementsArchive == A!Spec

-----------------------------------------------------------------------------
(***************************************************************************)
(* What ReceiveParts takes for one step is many calls in PartReceive.  The *)
(* two meet in PartLedger, which says what an upload may rely on; here all *)
(* the parts of an upload count as one.                                    *)
(***************************************************************************)
PartsPhase(u) ==
  CASE commitState[u] \in {"none", "receiving"} -> "receiving"
    [] commitState[u] = "deleted" -> "gone"
    [] OTHER -> "frozen"
PartsHad(u) == IF received[u] /\ commitState[u] # "deleted" THEN {"parts"} ELSE {}

P == INSTANCE PartLedger WITH
       Uploads <- Upload,
       PartsOf <- [u \in Upload |-> {"parts"}],
       phase <- [u \in Upload |-> PartsPhase(u)],
       have <- [u \in Upload |-> PartsHad(u)]

\* A commit begins with every part and none changes from then on, through
\* restarts, failed commits and the deletion of the asset with all its uploads
\* (begin_commit, mark_failed and delete_asset_permanently against put_part).
ImplementsParts == P!Spec
=============================================================================
