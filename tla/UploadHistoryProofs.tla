------------------------ MODULE UploadHistoryProofs ------------------------
(***************************************************************************)
(* Proofs about UploadHistory: which bytes survive crashes, completions    *)
(* that end early and background passes, and what becomes of the uploads   *)
(* and receipts that count on them, for every number of uploads, contents  *)
(* and failures of every kind.                                             *)
(***************************************************************************)
EXTENDS UploadHistory, UploadCommitProofs

-----------------------------------------------------------------------------
(***************************************************************************)
(* The inductive invariant, next to IInv.                                  *)
(***************************************************************************)
Good(c) == object[c] = "good"

ObjectsWhole == \A c \in Contents : object[c] # "bad"

\* A completion at one of the steps S is that of an upload in one of the
\* states T, unless its asset was deleted meanwhile.
StateAt(u, S, T) == pc[u] \in S => commitState[u] \in T \cup {"deleted"}

StartedSteps == {"inspect_started", "assemble", "assembling", "to_finalizing", "mark_failed"}
FinalSteps == {"inspect_final", "publish", "published", "candidate", "validate",
               "revalidate", "metadata"}
ReceiptSteps == {"receipt", "cleanup", "clear"}

\* Where a completion stands tells the state of its upload.
Fits(u) ==
  /\ StateAt(u, StartedSteps, {"commit_started"})
  /\ StateAt(u, FinalSteps, {"finalizing"})
  /\ StateAt(u, ReceiptSteps, {"committed"})
  /\ StateAt(u, {"superseded"}, {"failed"})
  /\ commitState[u] \in {"none", "receiving"} => pc[u] = "idle" /\ commitBlob[u] = NoBlob
PlacesFit == \A u \in Upload : Fits(u)

\* A row without its object is one nobody counts on or can come to count on:
\* a reclamation was interrupted after the unlink.
Unneeded(b) ==
  /\ Unreferenced(b)
  /\ \A u \in Upload : Active(u) => Content(u) # Content(b)
  /\ \A d \in dedup : d.blob = b => gcBlob = b /\ gcUnlinked
LostUnneeded == \A b \in blobs : ~Good(Content(b)) => Unneeded(b)

\* The bytes of a commit are there once the completion has seen them so.
PublishedSteps == {"published", "candidate", "validate", "revalidate", "metadata"}
Published(u) ==
  commitState[u] = "finalizing" /\ pc[u] \in PublishedSteps => Good(Content(u))
AllPublished == \A u \in Upload : Published(u)

\* No completion is about to disown a receipt.
Trusts(u) == commitState[u] = "committed" => pc[u] # "mark_unknown"
ReceiptsTrusted == \A u \in Upload : Trusts(u)

\* The staged file a completion writes, or links, is as it left it.
StageFits(u) ==
  /\ pc[u] = "assembling" /\ Exists(u) => stage[u] = "partial"
  /\ pc[u] = "publish" /\ Exists(u) => stage[u] = "good" /\ stagedKey[u]
StagesFit == \A u \in Upload : StageFits(u)

\* The bytes of a commit that finalizes, or is about to, are in one of two places.
Keeps(u) ==
  \/ commitState[u] = "finalizing"
  \/ commitState[u] = "commit_started" /\ pc[u] = "to_finalizing"
  => Good(Content(u)) \/ (stagedKey[u] /\ stage[u] = "good")
BytesKept == \A u \in Upload : Keeps(u)

\* No upload is unknown, and none that exists is about to be.
Believes(u) == commitState[u] # "unknown" /\ (pc[u] = "mark_unknown" => ~Exists(u))
Believed == \A u \in Upload : Believes(u)

\* Each part holds until an incident that spoils it.
HInv ==
  /\ IInv /\ PlacesFit /\ ReceiptsShown
  /\ ReclaimsUnderUpload => "reclaimed" \in incidents
  /\ incidents \subseteq {"swept", "misread"} => ObjectsWhole /\ LostUnneeded /\ AllPublished
  /\ incidents \subseteq {"swept"} => ReceiptsTrusted
  /\ "swept" \notin incidents => StagesFit
  /\ incidents \subseteq {"misread"} => BytesKept
  /\ incidents = {} => Believed

-----------------------------------------------------------------------------
LEMMA HistoryInit == HInit => HInv
<1> SUFFICES ASSUME HInit PROVE HInv
  OBVIOUS
<1> USE DEF HInit, Init
<1>1. IInv
  BY InitInv
<1>2. ObjectsWhole /\ ReceiptsShown
  BY ReceiptsInit DEF ObjectsWhole
<1>3. PlacesFit
  BY DEF PlacesFit, Fits, StateAt, StartedSteps, FinalSteps, ReceiptSteps, NoBlob
<1>4. ~ReclaimsUnderUpload
  BY DEF ReclaimsUnderUpload
<1>5. LostUnneeded /\ AllPublished
  BY DEF LostUnneeded, AllPublished, Published
<1>6. ReceiptsTrusted /\ Believed
  BY DEF ReceiptsTrusted, Trusts, Believed, Believes
<1>7. StagesFit /\ BytesKept
  BY DEF StagesFit, StageFits, BytesKept, Keeps
<1> QED
  BY <1>1, <1>2, <1>3, <1>4, <1>5, <1>6, <1>7 DEF HInv

-----------------------------------------------------------------------------
(***************************************************************************)
(* Objects.  Only a publication, an unlink and rot write them.             *)
(***************************************************************************)
LEMMA ObjectsChange ==
  ASSUME [Next]_vars
  PROVE  \/ UNCHANGED object
         \/ \E u \in Upload : Publish(u)
         \/ GcUnlink \/ Damage
<1> USE DEF fileVars
<1>1. CASE CreateStep
  BY <1>1 DEF CreateStep, CreateUpload, DedupInspect, DedupCommit, DedupReject
<1>2. ASSUME NEW u \in Upload, UploadStep(u), ~Publish(u) PROVE UNCHANGED object
  <2>1. CASE ReceiveParts(u) \/ BeginCommit(u) \/ Resume(u) \/ ReadReceipt(u) \/ ResumeCleanup(u)
    BY <2>1 DEF ReceiveParts, BeginCommit, Resume, ReadReceipt, ResumeCleanup, Moves
  <2>2. CASE CompletionStep(u)
    BY <1>2, <2>2
       DEF CompletionStep, InspectStarted, AssembleCreate, AssembleFinish, ToFinalizing,
           InspectFinal, InspectPublished, LoadCandidate, ValidateCandidate, MetadataRetry,
           MetadataGone, MetadataSuperseded, MetadataCommit, RemoveStage, ClearStagedKey,
           ValidateReceipt, Mark, Moves
  <2> QED
    BY <1>2, <2>1, <2>2 DEF UploadStep
<1>3. CASE LibraryStep
  BY <1>3 DEF LibraryStep, SetTrashed, DeletePermanently, GcDelete, GcCommit
<1>4. CASE SweepStep \/ Serve
  BY <1>4 DEF SweepStep, SweepRead, SweepList, SweepRemove, SweepEnd, Serve
<1>5. CASE FaultStep
  BY <1>5 DEF FaultStep, Abandon, InspectionFails, GcRollback, Crash
<1>6. CASE UNCHANGED vars
  BY <1>6 DEF vars
<1> QED
  BY <1>1, <1>2, <1>3, <1>4, <1>5, <1>6 DEF Next

LEMMA ObjectsStep == ASSUME ObjectsWhole, ~ObjectRots PROVE ObjectsWhole'
BY DEF ObjectsWhole, ObjectRots

-----------------------------------------------------------------------------
(***************************************************************************)
(* Where completions stand.  An upload moves by its own steps, except that *)
(* the deletion of its asset makes its row go.                             *)
(***************************************************************************)
LEMMA FitsKept ==
  ASSUME NEW u \in Upload, Fits(u), pc'[u] = pc[u] \/ pc'[u] = "idle",
         commitBlob'[u] = commitBlob[u],
         commitState'[u] = commitState[u] \/ commitState'[u] = "deleted"
  PROVE  Fits(u)'
BY DEF Fits, StateAt, StartedSteps, FinalSteps, ReceiptSteps

\* What a step of the upload u leaves alone.
OthersKept(u) ==
  \A v \in Upload \ {u} :
    /\ pc'[v] = pc[v] /\ commitBlob'[v] = commitBlob[v]
    /\ stage'[v] = stage[v] /\ commitState'[v] = commitState[v]
    /\ stagedKey'[v] = stagedKey[v]

LEMMA UploadStepKeepsOthers ==
  ASSUME IInv, NEW u \in Upload, UploadStep(u) \/ Abandon(u) \/ InspectionFails(u)
  PROVE  OthersKept(u)
<1> USE DEF OthersKept, Goto, dbVars, fileVars
<1> TypeOK
  BY DEF IInv
<1>1. CASE ReceiveParts(u) \/ Resume(u) \/ ReadReceipt(u) \/ ResumeCleanup(u)
  BY <1>1 DEF ReceiveParts, procVars, runVars, Resume, ReadReceipt, ResumeCleanup, Moves, TypeOK
<1>2. CASE BeginCommit(u)
  BY <1>2 DEF BeginCommit, TypeOK
<1>3. CASE InspectStarted(u) \/ InspectFinal(u) \/ InspectPublished(u) \/ LoadCandidate(u)
  BY <1>3 DEF InspectStarted, InspectFinal, InspectPublished, LoadCandidate, Moves, TypeOK
<1>4. CASE ValidateCandidate(u) \/ MetadataRetry(u) \/ MetadataGone(u) \/ ValidateReceipt(u)
  BY <1>4 DEF ValidateCandidate, MetadataRetry, MetadataGone, ValidateReceipt, Moves, TypeOK
<1>5. CASE AssembleCreate(u) \/ AssembleFinish(u) \/ Publish(u) \/ RemoveStage(u)
  BY <1>5 DEF AssembleCreate, AssembleFinish, Publish, RemoveStage, TypeOK
<1>6. CASE ToFinalizing(u) \/ ClearStagedKey(u) \/ Mark(u)
  BY <1>6 DEF ToFinalizing, ClearStagedKey, Mark, TypeOK
<1>7. CASE MetadataSuperseded(u) \/ MetadataCommit(u)
  BY <1>7 DEF MetadataSuperseded, MetadataCommit, TypeOK
<1>8. CASE Abandon(u) \/ InspectionFails(u)
  BY <1>8 DEF Abandon, InspectionFails, TypeOK
<1> QED
  BY <1>1, <1>2, <1>3, <1>4, <1>5, <1>6, <1>7, <1>8 DEF UploadStep, CompletionStep

LEMMA OwnStepFits ==
  ASSUME IInv, NEW u \in Upload, UploadStep(u) \/ Abandon(u) \/ InspectionFails(u), Fits(u)
  PROVE  Fits(u)'
<1> USE DEF Fits, StateAt, StartedSteps, FinalSteps, ReceiptSteps, Goto, dbVars, fileVars,
            Receiving, CommitStarted, Finalizing, Committed
<1> /\ TypeOK /\ StartedIsStaged
  BY DEF IInv
<1>1. CASE ReceiveParts(u)
  BY <1>1 DEF ReceiveParts, procVars, runVars, TypeOK
<1>2. CASE Resume(u) \/ ReadReceipt(u) \/ ResumeCleanup(u)
  BY <1>2 DEF Resume, RestartPoint, ReadReceipt, ResumeCleanup, Moves, TypeOK
<1>3. CASE BeginCommit(u)
  BY <1>3 DEF BeginCommit, TypeOK
<1>4. CASE InspectStarted(u) \/ InspectFinal(u) \/ InspectPublished(u)
  BY <1>4 DEF InspectStarted, InspectFinal, InspectPublished, Moves, TypeOK
<1>5. CASE LoadCandidate(u) \/ ValidateCandidate(u) \/ MetadataRetry(u)
  BY <1>5 DEF LoadCandidate, ValidateCandidate, MetadataRetry, Moves, TypeOK
<1>6. CASE MetadataGone(u) \/ ValidateReceipt(u)
  BY <1>6 DEF MetadataGone, ValidateReceipt, Moves, TypeOK
<1>7. CASE AssembleCreate(u) \/ AssembleFinish(u) \/ Publish(u) \/ RemoveStage(u)
  BY <1>7 DEF AssembleCreate, AssembleFinish, Publish, RemoveStage, TypeOK
<1>8. CASE ToFinalizing(u) \/ ClearStagedKey(u)
  BY <1>8 DEF ToFinalizing, ClearStagedKey, TypeOK
<1>9. CASE Mark(u)
  BY <1>9 DEF Mark, TypeOK, Exists, RowStates
<1>10. CASE MetadataSuperseded(u)
  BY <1>10 DEF MetadataSuperseded, TypeOK
<1>11. CASE MetadataCommit(u)
  BY <1>11 DEF MetadataCommit, TypeOK
<1>12. CASE Abandon(u) \/ InspectionFails(u)
  BY <1>12 DEF Abandon, InspectionFails, TypeOK
<1> QED
  BY <1>1, <1>2, <1>3, <1>4, <1>5, <1>6, <1>7, <1>8, <1>9, <1>10, <1>11, <1>12
     DEF UploadStep, CompletionStep

\* Every other step, but the creation of an upload, lets completions stand or
\* ends them, and writes no staged file.
RunsKept ==
  /\ UNCHANGED <<request, commitBlob, stagedKey>>
  /\ \A u \in Upload :
       /\ pc'[u] \in {pc[u], "idle"} /\ commitState'[u] \in {commitState[u], "deleted"}
       /\ stage'[u] = stage[u] \/ SweepRemove(u)

LEMMA RunsChange ==
  ASSUME IInv, [Next]_vars
  PROVE  \/ \E r \in Requests : CreateUpload(r)
         \/ \E u \in Upload : UploadStep(u) \/ Abandon(u) \/ InspectionFails(u)
         \/ RunsKept
<1> USE DEF RunsKept, dbVars, fileVars, procVars, runVars
<1>1. CASE CreateStep
  BY <1>1 DEF CreateStep, DedupInspect, DedupCommit, DedupReject
<1>2. CASE LibraryStep
  BY <1>2 DEF LibraryStep, SetTrashed, DeletePermanently, GcDelete, GcUnlink, GcCommit
<1>3. CASE SweepStep \/ Serve
  <2>1. ASSUME NEW u \in Upload, SweepRemove(u) PROVE RunsKept
    BY <2>1 DEF SweepRemove, IInv, TypeOK
  <2> QED
    BY <1>3, <2>1 DEF SweepStep, SweepRead, SweepList, SweepEnd, Serve
<1>4. CASE FaultStep
  BY <1>4 DEF FaultStep, GcRollback, Crash, Damage
<1>5. CASE UNCHANGED vars
  BY <1>5 DEF vars
<1> QED
  BY <1>1, <1>2, <1>3, <1>4, <1>5 DEF Next

\* The row CreateUpload writes is one nothing has happened to.
CreatedAs(n) ==
  /\ commitState[n] = "none" /\ pc[n] = "idle" /\ commitBlob[n] = NoBlob
  /\ commitState'[n] = "receiving" /\ UNCHANGED <<pc, commitBlob, stage, stagedKey, object>>
  /\ \A u \in Upload \ {n} : commitState'[u] = commitState[u] /\ request'[u] = request[u]

LEMMA CreateUploadCreates ==
  ASSUME IInv, PlacesFit, NEW r \in Requests, CreateUpload(r)
  PROVE  \E n \in Upload : CreatedAs(n)
<1>1. PICK n \in Upload : n = next /\ commitState[n] = "none"
  BY DEF CreateUpload, TypeOK, IInv, RowsKnown, Upload
<1>2. commitState'[n] = "receiving"
  BY <1>1 DEF CreateUpload, TypeOK, IInv, Receiving
<1>3. \A u \in Upload \ {n} : commitState'[u] = commitState[u] /\ request'[u] = request[u]
  BY <1>1 DEF CreateUpload, TypeOK, IInv
<1>4. UNCHANGED <<pc, commitBlob, stage, stagedKey, object>>
  BY DEF CreateUpload, fileVars, procVars, runVars
<1> QED
  BY <1>1, <1>2, <1>3, <1>4 DEF CreatedAs, PlacesFit, Fits

LEMMA PlacesStep ==
  ASSUME IInv, PlacesFit, [Next]_vars
  PROVE  PlacesFit'
<1> USE DEF PlacesFit
<1>1. ASSUME NEW n \in Upload, CreatedAs(n) PROVE PlacesFit'
  <2>1. Fits(n)'
    BY <1>1 DEF CreatedAs, Fits, StateAt, StartedSteps, FinalSteps, ReceiptSteps
  <2> QED
    BY <1>1, <2>1, FitsKept DEF CreatedAs
<1>2. ASSUME NEW u \in Upload, UploadStep(u) \/ Abandon(u) \/ InspectionFails(u)
      PROVE  PlacesFit'
  <2>1. OthersKept(u) /\ Fits(u)'
    BY <1>2, UploadStepKeepsOthers, OwnStepFits
  <2> QED
    BY <2>1, FitsKept DEF OthersKept
<1>3. CASE RunsKept
  BY <1>3, FitsKept DEF RunsKept
<1> QED
  BY <1>1, <1>2, <1>3, RunsChange, CreateUploadCreates

-----------------------------------------------------------------------------
(***************************************************************************)
(* Rows.  Every step but the ones of Rewrites leaves what the remaining    *)
(* conjuncts read of the rows as it is, or ends commits.                   *)
(***************************************************************************)
Rewrites ==
  \/ \E r \in Requests : CreateUpload(r) \/ DedupInspect(r)
  \/ \E d \in dedup : DedupCommit(d)
  \/ \E u \in Upload : BeginCommit(u) \/ Publish(u) \/ MetadataSuperseded(u) \/ MetadataCommit(u)
  \/ \E a \in Assets : DeletePermanently(a)
  \/ \E b \in Upload : GcDelete(b)
  \/ GcUnlink \/ GcCommit \/ GcRollback \/ Crash \/ Damage

RowsKept ==
  /\ UNCHANGED <<request, commitBlob, blobs, resource, shown, object, gcBlob, gcUnlinked>>
  /\ dedup' \subseteq dedup
  /\ \A u \in Upload : (Exists(u)' => Exists(u)) /\ (Active(u)' => Active(u))

LEMMA RowsChange ==
  ASSUME IInv, [Next]_vars
  PROVE  Rewrites \/ RowsKept
<1> USE DEF RowsKept, dbVars, fileVars, procVars, runVars, gcVars, sweepVars
<1> TypeOK
  BY DEF IInv
<1> DEFINE Rows == UNCHANGED <<request, commitBlob, blobs, resource, shown, object, gcBlob,
                               gcUnlinked, dedup>>
<1>0. Rows /\ UNCHANGED commitState => RowsKept
  BY DEF Exists, Active
<1>1. CASE CreateStep
  BY <1>0, <1>1 DEF CreateStep, Rewrites, DedupReject, Exists, Active
<1>2. ASSUME NEW u \in Upload, UploadStep(u) PROVE Rewrites \/ RowsKept
  <2>1. CASE ReceiveParts(u) \/ Resume(u) \/ ReadReceipt(u) \/ ResumeCleanup(u)
    BY <1>0, <2>1 DEF ReceiveParts, Resume, ReadReceipt, ResumeCleanup, Moves
  <2>2. CASE InspectStarted(u) \/ InspectFinal(u) \/ InspectPublished(u) \/ LoadCandidate(u)
    BY <1>0, <2>2 DEF InspectStarted, InspectFinal, InspectPublished, LoadCandidate, Moves
  <2>3. CASE ValidateCandidate(u) \/ MetadataRetry(u) \/ MetadataGone(u) \/ ValidateReceipt(u)
    BY <1>0, <2>3 DEF ValidateCandidate, MetadataRetry, MetadataGone, ValidateReceipt, Moves
  <2>4. CASE AssembleCreate(u) \/ AssembleFinish(u) \/ RemoveStage(u) \/ ClearStagedKey(u)
    BY <1>0, <2>4 DEF AssembleCreate, AssembleFinish, RemoveStage, ClearStagedKey
  <2>5. CASE ToFinalizing(u) \/ Mark(u)
    <3>1. Rows
      BY <2>5 DEF ToFinalizing, Mark
    <3>2. \A v \in Upload : (Exists(v)' => Exists(v)) /\ (Active(v)' => Active(v))
      BY <2>5 DEF ToFinalizing, Mark, Exists, Active, RowStates, TypeOK, CommitStarted, Finalizing
    <3> QED
      BY <3>1, <3>2
  <2>6. CASE BeginCommit(u) \/ Publish(u) \/ MetadataSuperseded(u) \/ MetadataCommit(u)
    BY <2>6 DEF Rewrites
  <2> QED
    BY <1>2, <2>1, <2>2, <2>3, <2>4, <2>5, <2>6 DEF UploadStep, CompletionStep
<1>3. CASE LibraryStep
  BY <1>0, <1>3 DEF LibraryStep, Rewrites, SetTrashed
<1>4. CASE SweepStep \/ Serve
  BY <1>0, <1>4 DEF SweepStep, SweepRead, SweepList, SweepRemove, SweepEnd, Serve
<1>5. CASE FaultStep
  <2>1. ASSUME NEW u \in Upload, Abandon(u) \/ InspectionFails(u) PROVE RowsKept
    BY <1>0, <2>1 DEF Abandon, InspectionFails
  <2> QED
    BY <1>5, <2>1 DEF FaultStep, Rewrites
<1>6. CASE UNCHANGED vars
  BY <1>0, <1>6 DEF vars
<1> QED
  BY <1>1, <1>2, <1>3, <1>4, <1>5, <1>6 DEF Next

-----------------------------------------------------------------------------
(***************************************************************************)
(* Lost objects.                                                           *)
(***************************************************************************)
\* A row whose object is there, or that nobody began to need, is no worse off.
LEMMA UnneededKept ==
  ASSUME NEW b \in Upload, Unneeded(b), request'[b] = request[b],
         \A s \in Slots : resource'[s] = b => resource[s] = b,
         \A u \in Upload : Exists(u)' /\ commitBlob'[u] = b => Exists(u) /\ commitBlob[u] = b,
         \A u \in Upload : Active(u)' => Active(u) /\ request'[u] = request[u],
         dedup' \subseteq dedup,
         (gcBlob' = gcBlob /\ gcUnlinked' = gcUnlinked) \/ \A d \in dedup' : d.blob # b
  PROVE  Unneeded(b)'
BY DEF Unneeded, Unreferenced, Content

LEMMA LostStep ==
  ASSUME IInv, PlacesFit, LostUnneeded, AllPublished, [Next]_vars,
         ~ReclaimsUnderUpload', ~ObjectRots, ~RestoresRow
  PROVE  LostUnneeded'
<1> USE DEF LostUnneeded, dbVars, fileVars, procVars, runVars, gcVars, sweepVars, Good
<1> /\ TypeOK /\ RowsKnown /\ BlobsKnown /\ BlobsDistinct
  BY DEF IInv
<1>0. \A b \in blobs : b \in Upload /\ b # NoBlob
  BY DEF TypeOK, Upload, NoBlob
<1>1. CASE RowsKept
  BY <1>0, <1>1, UnneededKept DEF RowsKept, Content
<1>2. ASSUME NEW r \in Requests, CreateUpload(r) PROVE LostUnneeded'
  <2>1. PICK n \in Upload : n = next /\ commitState[n] = "none"
    BY <1>2 DEF CreateUpload, TypeOK, RowsKnown, Upload
  <2>2. commitBlob[n] = NoBlob
    BY <2>1 DEF PlacesFit, Fits
  <2>3. /\ \A u \in Upload \ {n} : commitState'[u] = commitState[u] /\ request'[u] = request[u]
        /\ request'[n] = r /\ UNCHANGED <<blobs, commitBlob, resource, object, gcBlob, gcUnlinked, dedup>>
    BY <1>2, <2>1 DEF CreateUpload, TypeOK
  <2>4. \A b \in blobs : b # n /\ Content(b) # r.content
    BY <1>2, <2>1, BlobOfFinds DEF CreateUpload, BlobsKnown, TypeOK
  <2>5. ASSUME NEW b \in blobs, Unneeded(b) PROVE Unneeded(b)'
    <3>1. Unreferenced(b)'
      BY <1>0, <2>2, <2>3, <2>5 DEF Unneeded, Unreferenced, Exists
    <3>2. \A u \in Upload : Active(u)' => Content(u)' # Content(b)'
      BY <1>0, <2>3, <2>4, <2>5 DEF Unneeded, Content, Active
    <3> QED
      BY <2>3, <2>5, <3>1, <3>2 DEF Unneeded
  <2> QED
    BY <1>0, <2>3, <2>4, <2>5 DEF Content
<1>3. ASSUME NEW r \in Requests, DedupInspect(r) PROVE LostUnneeded'
  <2>1. /\ UNCHANGED <<request, commitState, blobs, commitBlob, resource, object, gcBlob, gcUnlinked>>
        /\ \A d \in dedup' : d.blob = BlobOf(r.content)
        /\ BlobOf(r.content) # NoBlob /\ object[r.content] = "good"
    BY <1>3 DEF DedupInspect
  <2>2. \A b \in blobs : object[Content(b)] # "good" => \A d \in dedup' : d.blob # b
    BY <2>1, BlobOfFinds
  <2> QED
    BY <2>1, <2>2 DEF Unneeded, Unreferenced, Content, Exists, Active
<1>4. ASSUME NEW d \in dedup, DedupCommit(d) PROVE LostUnneeded'
  <2>1. /\ UNCHANGED <<request, commitState, blobs, commitBlob, object, gcBlob, gcUnlinked>>
        /\ dedup' \subseteq dedup /\ gcBlob = NoBlob
        /\ \A s \in Slots : resource'[s] \in {d.blob, resource[s]}
    BY <1>4 DEF DedupCommit, TypeOK, WriteLockFree
  <2>2. \A b \in blobs : object[Content(b)] # "good" => d.blob # b
    BY <1>0, <2>1 DEF Unneeded
  <2>3. ASSUME NEW b \in blobs, object[Content(b)] # "good" PROVE Unneeded(b)'
    BY <1>0, <2>1, <2>2, <2>3, UnneededKept DEF Exists, Active
  <2> QED
    BY <2>1, <2>3 DEF Content
<1>5. ASSUME NEW u \in Upload, BeginCommit(u) PROVE LostUnneeded'
  <2>1. /\ UNCHANGED <<request, blobs, resource, object, gcBlob, gcUnlinked, dedup>>
        /\ commitState[u] = "receiving" /\ commitState'[u] \in {"finalizing", "commit_started"}
        /\ \A v \in Upload \ {u} : commitState'[v] = commitState[v] /\ commitBlob'[v] = commitBlob[v]
        /\ \/ commitBlob'[u] = BlobOf(Content(u)) /\ BlobOf(Content(u)) # NoBlob
           \/ commitBlob'[u] = u /\ BlobOf(Content(u)) = NoBlob
    BY <1>5 DEF BeginCommit, TypeOK, Receiving, Finalizing, CommitStarted
  <2>2. ASSUME NEW b \in blobs, object[Content(b)] # "good" PROVE commitBlob'[u] # b
    <3>1. Content(b) # Content(u)
      BY <2>1, <2>2 DEF Unneeded, Active
    <3> QED
      BY <2>1, <3>1, BlobOfFinds
  <2>3. ASSUME NEW b \in blobs, object[Content(b)] # "good" PROVE Unneeded(b)'
    BY <1>0, <2>1, <2>2, <2>3, UnneededKept DEF Exists, Active, RowStates
  <2> QED
    BY <2>1, <2>3 DEF Content
<1>6. ASSUME NEW u \in Upload, Publish(u) PROVE LostUnneeded'
  <2>1. /\ UNCHANGED <<request, commitState, blobs, commitBlob, resource, gcBlob, gcUnlinked,
                       dedup>>
        /\ \A c \in Contents : object[c] = "good" => object'[c] = "good"
    BY <1>6 DEF Publish, TypeOK
  <2>2. \A b \in blobs : Content(b) \in Contents
    BY RequestParts DEF BlobsKnown
  <2>3. ASSUME NEW b \in blobs, Unneeded(b) PROVE Unneeded(b)'
    BY <1>0, <2>1, <2>3, UnneededKept DEF Exists, Active
  <2> QED
    BY <2>1, <2>2, <2>3 DEF Content
<1>7. ASSUME NEW u \in Upload, MetadataSuperseded(u) \/ MetadataCommit(u) PROVE LostUnneeded'
  <2>1. object[Content(u)] = "good" /\ Content(ActualBlob(u)) = Content(u)
    BY <1>7, ActualBlobFits
       DEF MetadataSuperseded, MetadataCommit, AllPublished, Published, PublishedSteps,
           Finalizing, IInv
  <2>2. /\ UNCHANGED <<request, object, gcBlob, gcUnlinked, dedup>> /\ blobs' = blobs \cup {ActualBlob(u)}
        /\ \A s \in Slots : resource'[s] \in {ActualBlob(u), resource[s]}
        /\ commitState[u] = "finalizing" /\ commitState'[u] \in {"failed", "committed"}
        /\ commitBlob'[u] \in {NoBlob, ActualBlob(u)}
        /\ \A v \in Upload \ {u} : commitState'[v] = commitState[v] /\ commitBlob'[v] = commitBlob[v]
    BY <1>7 DEF MetadataSuperseded, MetadataCommit, TypeOK, Finalizing, Committed, BlobOfSuperseded
  <2>3. ASSUME NEW b \in blobs, object[Content(b)] # "good" PROVE Unneeded(b)'
    <3>1. b # ActualBlob(u)
      BY <2>1, <2>3
    <3> QED
      BY <1>0, <2>2, <2>3, <3>1, UnneededKept DEF Exists, Active, RowStates
  <2> QED
    BY <2>1, <2>2, <2>3 DEF Content
<1>8. ASSUME NEW a \in Assets, DeletePermanently(a) PROVE LostUnneeded'
  <2>1. /\ UNCHANGED <<request, object, blobs, commitBlob, gcBlob, gcUnlinked, dedup>>
        /\ \A s \in Slots : resource'[s] \in {NoBlob, resource[s]}
        /\ \A v \in Upload : commitState'[v] \in {commitState[v], "deleted"}
    BY <1>8 DEF DeletePermanently
  <2>2. ASSUME NEW b \in blobs, object[Content(b)] # "good" PROVE Unneeded(b)'
    BY <1>0, <2>1, <2>2, UnneededKept DEF Exists, Active, RowStates
  <2> QED
    BY <2>1, <2>2 DEF Content
<1>9. ASSUME NEW b \in Upload, GcDelete(b) PROVE LostUnneeded'
  <2>1. /\ UNCHANGED <<request, commitState, object, blobs, commitBlob, resource, dedup>>
        /\ gcBlob = NoBlob
    BY <1>9 DEF GcDelete, WriteLockFree
  <2> QED
    BY <1>0, <2>1 DEF Unneeded, Unreferenced, Content, Exists, Active
<1>10. CASE GcUnlink
  <2>1. /\ UNCHANGED <<request, commitState, blobs, commitBlob, resource, dedup, gcBlob>>
        /\ gcUnlinked' /\ gcBlob # NoBlob
        /\ object' = [object EXCEPT ![Content(gcBlob)] = "missing"]
    BY <1>10 DEF GcUnlink
  <2>2. gcBlob \in blobs /\ Unreferenced(gcBlob)
    BY <2>1 DEF IInv, ReclaimedIsUnreferenced
  <2>3. \A u \in Upload : Active(u) => Content(u) # Content(gcBlob)
    BY <2>1 DEF ReclaimsUnderUpload, Active, Content
  <2>4. Unneeded(gcBlob)'
    BY <2>1, <2>2, <2>3 DEF Unneeded, Unreferenced, Content, Exists, Active
  <2>5. ASSUME NEW b \in blobs, b # gcBlob, object'[Content(b)] # "good" PROVE Unneeded(b)'
    <3>1. object[Content(b)] # "good"
      BY <2>1, <2>2, <2>5, RequestParts DEF BlobsDistinct, TypeOK, BlobsKnown
    <3>2. \A d \in dedup : d.blob # b
      BY <1>0, <2>5, <3>1 DEF Unneeded
    <3> QED
      BY <1>0, <2>1, <3>1, <3>2, UnneededKept DEF Exists, Active
  <2> QED
    BY <2>1, <2>4, <2>5 DEF Content
<1>11. CASE GcCommit
  <2>1. /\ UNCHANGED <<request, commitState, object, commitBlob, resource, dedup>>
        /\ blobs' = blobs \ {gcBlob}
    BY <1>11 DEF GcCommit
  <2>2. ASSUME NEW b \in blobs', object[Content(b)] # "good" PROVE Unneeded(b)'
    BY <1>0, <2>1, <2>2 DEF Unneeded, Unreferenced, Content, Exists, Active
  <2> QED
    BY <2>1, <2>2 DEF Content
<1>12. CASE Crash
  <2>1. /\ UNCHANGED <<request, commitState, object, blobs, commitBlob, resource>> /\ dedup' = {}
    BY <1>12 DEF Crash
  <2> QED
    BY <2>1 DEF Unneeded, Unreferenced, Content, Exists, Active
<1>13. CASE GcRollback
  <2>1. /\ UNCHANGED <<request, commitState, object, blobs, commitBlob, resource, dedup>>
        /\ ~gcUnlinked
    BY <1>13 DEF GcRollback, RestoresRow
  <2> QED
    BY <2>1 DEF Unneeded, Unreferenced, Content, Exists, Active
<1>14. CASE Damage
  <2>1. /\ UNCHANGED <<request, commitState, blobs, commitBlob, resource, gcBlob, gcUnlinked,
                       dedup>>
        /\ object' = object
    BY <1>14 DEF Damage, ObjectRots, TypeOK
  <2> QED
    BY <2>1 DEF Unneeded, Unreferenced, Content, Exists, Active
<1> QED
  BY <1>1, <1>2, <1>3, <1>4, <1>5, <1>6, <1>7, <1>8, <1>9, <1>10, <1>11, <1>12, <1>13, <1>14,
     RowsChange
     DEF Rewrites

-----------------------------------------------------------------------------
(***************************************************************************)
(* The bytes of commits that are being made.                               *)
(***************************************************************************)
\* A completion writes no request and loses no object.
LEMMA OwnStepData ==
  ASSUME IInv, NEW u \in Upload, UploadStep(u) \/ Abandon(u) \/ InspectionFails(u)
  PROVE  request' = request /\ \A c \in Contents : Good(c) => Good(c)'
<1> USE DEF dbVars, fileVars, Good
<1>1. CASE Publish(u)
  BY <1>1 DEF Publish, IInv, TypeOK
<1>2. CASE ~Publish(u)
  BY <1>2
     DEF UploadStep, CompletionStep, ReceiveParts, Resume, ReadReceipt, ResumeCleanup, Moves,
         BeginCommit, InspectStarted, InspectFinal, InspectPublished, LoadCandidate,
         ValidateCandidate, MetadataRetry, MetadataGone, ValidateReceipt, AssembleCreate,
         AssembleFinish, RemoveStage, ToFinalizing, ClearStagedKey, Mark, MetadataSuperseded,
         MetadataCommit, Abandon, InspectionFails
<1> QED
  BY <1>1, <1>2

\* While no reclamation runs into it, an unfinished upload that has its object
\* keeps it.
Secure(u) == Active(u) /\ Good(Content(u)) => Good(Content(u))'

LEMMA ObjectsSecure ==
  ASSUME IInv, [Next]_vars, ~ReclaimsUnderUpload', ~ObjectRots,
         NEW u \in Upload, request'[u] = request[u], Active(u) => Active(u)'
  PROVE  Secure(u)
<1> USE DEF Secure, Good
<1>1. Active(u) => Content(u) \in Contents /\ Content(u)' = Content(u)
  BY RequestParts DEF IInv, RowsKnown, Active, Content
<1>2. ASSUME NEW v \in Upload, Publish(v) PROVE Secure(u)
  BY <1>1, <1>2, OwnStepData DEF UploadStep, CompletionStep
<1>3. CASE GcUnlink
  <2>1. /\ gcUnlinked' /\ gcBlob' = gcBlob /\ request' = request /\ commitState' = commitState
        /\ object' = [object EXCEPT ![Content(gcBlob)] = "missing"]
    BY <1>3 DEF GcUnlink, dbVars
  <2>2. Active(u) => Content(u) # Content(gcBlob)
    BY <2>1 DEF ReclaimsUnderUpload, Active, Content
  <2> QED
    BY <1>1, <2>1, <2>2 DEF IInv, TypeOK
<1>4. CASE Damage
  BY <1>1, <1>4 DEF Damage, ObjectRots, IInv, TypeOK
<1> QED
  BY <1>1, <1>2, <1>3, <1>4, ObjectsChange

LEMMA PublishedKept ==
  ASSUME NEW u \in Upload, Published(u), pc'[u] \in {pc[u], "idle"},
         commitState'[u] \in {commitState[u], "deleted"}, request'[u] = request[u],
         Active(u) /\ Active(u)' => Secure(u)
  PROVE  Published(u)'
BY DEF Published, PublishedSteps, Secure, Active

LEMMA OwnStepPublished ==
  ASSUME IInv, ObjectsWhole, PlacesFit, AllPublished, NEW u \in Upload,
         UploadStep(u) \/ Abandon(u) \/ InspectionFails(u)
  PROVE  Published(u)'
<1> USE DEF Published, PublishedSteps, Goto, dbVars, fileVars, Finalizing, Good
<1>1. /\ TypeOK /\ Published(u) /\ Content(u)' = Content(u)
      /\ Active(u) => Content(u) \in Contents
  BY OwnStepData, RequestParts DEF IInv, AllPublished, RowsKnown, Active, Content
<1>2. Active(u) /\ Good(Content(u)) => Good(Content(u))'
  BY <1>1, OwnStepData
<1>3. CASE ReceiveParts(u) \/ Resume(u) \/ ReadReceipt(u) \/ ResumeCleanup(u)
  BY <1>1, <1>3
     DEF ReceiveParts, procVars, runVars, Resume, RestartPoint, ReadReceipt, ResumeCleanup,
         Moves, TypeOK
<1>4. CASE BeginCommit(u) \/ InspectStarted(u) \/ AssembleCreate(u) \/ AssembleFinish(u)
           \/ ToFinalizing(u)
  BY <1>1, <1>4
     DEF BeginCommit, InspectStarted, Moves, AssembleCreate, AssembleFinish, ToFinalizing, TypeOK
<1>5. CASE InspectFinal(u) \/ InspectPublished(u) \/ ValidateCandidate(u)
  BY <1>1, <1>5 DEF InspectFinal, InspectPublished, ValidateCandidate, Moves, TypeOK
<1>6. CASE LoadCandidate(u) \/ MetadataRetry(u) \/ MetadataGone(u)
  <2>1. pc[u] \in {"candidate", "metadata"} /\ UNCHANGED <<commitState, object>>
    BY <1>6 DEF LoadCandidate, MetadataRetry, MetadataGone, Moves
  <2> QED
    BY <1>1, <2>1
<1>7. CASE Publish(u)
  <2>1. commitState' = commitState /\ (commitState[u] = "finalizing" => Active(u))
    BY <1>7 DEF Publish, Active
  <2>2. ASSUME Active(u), pc'[u] = "published" PROVE Good(Content(u))'
    BY <1>1, <1>7, <2>2 DEF Publish, TypeOK, ObjectsWhole
  <2>3. pc'[u] \in {"published", "mark_unknown"}
    BY <1>1, <1>7 DEF Publish, TypeOK
  <2> QED
    BY <2>1, <2>2, <2>3
<1>8. CASE MetadataSuperseded(u) \/ MetadataCommit(u) \/ RemoveStage(u) \/ ClearStagedKey(u)
           \/ ValidateReceipt(u) \/ Mark(u)
  BY <1>1, <1>8
     DEF MetadataSuperseded, MetadataCommit, RemoveStage, ClearStagedKey, ValidateReceipt, Mark,
         Moves, TypeOK
<1>9. CASE Abandon(u) \/ InspectionFails(u)
  BY <1>1, <1>9 DEF Abandon, InspectionFails, TypeOK
<1> QED
  BY <1>3, <1>4, <1>5, <1>6, <1>7, <1>8, <1>9 DEF UploadStep, CompletionStep

LEMMA PublishedStep ==
  ASSUME IInv, ObjectsWhole, PlacesFit, AllPublished, [Next]_vars, ~ReclaimsUnderUpload',
         ~ObjectRots
  PROVE  AllPublished'
<1> USE DEF AllPublished
<1>1. ASSUME NEW n \in Upload, CreatedAs(n) PROVE AllPublished'
  BY <1>1, PublishedKept, ObjectsSecure DEF CreatedAs, Published, Active
<1>2. ASSUME NEW u \in Upload, UploadStep(u) \/ Abandon(u) \/ InspectionFails(u)
      PROVE  AllPublished'
  <2>1. Published(u)' /\ OthersKept(u) /\ request' = request
    BY <1>2, OwnStepPublished, UploadStepKeepsOthers, OwnStepData
  <2> QED
    BY <2>1, PublishedKept, ObjectsSecure DEF OthersKept
<1>3. CASE RunsKept
  BY <1>3, PublishedKept, ObjectsSecure DEF RunsKept
<1> QED
  BY <1>1, <1>2, <1>3, RunsChange, CreateUploadCreates

-----------------------------------------------------------------------------
(***************************************************************************)
(* Receipts.                                                               *)
(***************************************************************************)
\* The bytes of every row somebody counts on are there.
LEMMA NeededAreStored == ASSUME LostUnneeded PROVE ReferencedBlobsStored
BY DEF LostUnneeded, Unneeded, Unreferenced, ReferencedBlobsStored, Needed, Good,
       Exists, RowStates

\* A receipt that can be read is believed.
LEMMA ReceiptsHold ==
  ASSUME IInv, ReceiptsShown, LostUnneeded, NEW u \in Upload, commitState[u] = "committed"
  PROVE  ReceiptHolds(u)
<1>1. request[u] \in Requests /\ SlotOf(u) \in Slots
  BY RequestParts DEF IInv, RowsKnown
<1>2. commitBlob[u] \in blobs /\ Content(commitBlob[u]) = Content(u)
  BY DEF IInv, BlobReferencesHold, ProposalsMatch, Committed
<1>3. object[Content(u)] = "good"
  BY <1>2, NeededAreStored DEF ReferencedBlobsStored, Needed
<1>4. resource[SlotOf(u)] # NoBlob
  BY DEF ReceiptsShown
<1> QED
  BY <1>2, <1>3, <1>4 DEF ReceiptHolds, Committed

LEMMA OwnStepTrusts ==
  ASSUME IInv, PlacesFit, ReceiptsShown, LostUnneeded, ReceiptsTrusted, NEW u \in Upload,
         UploadStep(u) \/ Abandon(u)
  PROVE  Trusts(u)'
<1> USE DEF Trusts, Goto, dbVars, Receiving, CommitStarted, Finalizing, Committed
<1>1. TypeOK /\ Fits(u) /\ Trusts(u)
  BY DEF IInv, PlacesFit, ReceiptsTrusted
<1>2. CASE ReceiveParts(u) \/ Resume(u) \/ ReadReceipt(u) \/ ResumeCleanup(u)
  BY <1>1, <1>2
     DEF ReceiveParts, procVars, runVars, Resume, RestartPoint, ReadReceipt, ResumeCleanup,
         Moves, TypeOK
<1>3. CASE BeginCommit(u) \/ ToFinalizing(u)
  BY <1>1, <1>3 DEF BeginCommit, ToFinalizing, TypeOK
<1>4. CASE InspectStarted(u) \/ AssembleCreate(u) \/ AssembleFinish(u)
  BY <1>1, <1>4
     DEF InspectStarted, AssembleCreate, AssembleFinish, Moves, Fits, StateAt, StartedSteps
<1>5. CASE InspectFinal(u) \/ InspectPublished(u) \/ ValidateCandidate(u)
  BY <1>1, <1>5
     DEF InspectFinal, InspectPublished, ValidateCandidate, Moves, Fits, StateAt, FinalSteps
<1>6. CASE LoadCandidate(u) \/ MetadataRetry(u) \/ MetadataGone(u)
  BY <1>1, <1>6
     DEF LoadCandidate, MetadataRetry, MetadataGone, Moves, Fits, StateAt, FinalSteps
<1>7. CASE Publish(u)
  BY <1>1, <1>7 DEF Publish, Fits, StateAt, FinalSteps
<1>8. CASE MetadataSuperseded(u) \/ MetadataCommit(u)
  BY <1>1, <1>8 DEF MetadataSuperseded, MetadataCommit, TypeOK
<1>9. CASE RemoveStage(u) \/ ClearStagedKey(u)
  BY <1>1, <1>9 DEF RemoveStage, ClearStagedKey, TypeOK
<1>10. CASE ValidateReceipt(u)
  <2>1. commitState'[u] = "committed" => ReceiptHolds(u)
    BY <1>10, ReceiptsHold DEF ValidateReceipt, Moves, dbVars
  <2> QED
    BY <1>1, <1>10, <2>1 DEF ValidateReceipt, TypeOK
<1>11. CASE Mark(u)
  BY <1>1, <1>11 DEF Mark, TypeOK
<1>12. CASE Abandon(u)
  BY <1>1, <1>12 DEF Abandon, TypeOK
<1> QED
  BY <1>2, <1>3, <1>4, <1>5, <1>6, <1>7, <1>8, <1>9, <1>10, <1>11, <1>12
     DEF UploadStep, CompletionStep

LEMMA TrustsKept ==
  ASSUME NEW u \in Upload, Trusts(u), pc'[u] \in {pc[u], "idle"},
         commitState'[u] \in {commitState[u], "deleted"}
  PROVE  Trusts(u)'
BY DEF Trusts

LEMMA TrustedStep ==
  ASSUME IInv, PlacesFit, ReceiptsShown, LostUnneeded, ReceiptsTrusted, [Next]_vars,
         \A u \in Upload : ~InspectionFails(u)
  PROVE  ReceiptsTrusted'
<1> USE DEF ReceiptsTrusted
<1>1. ASSUME NEW n \in Upload, CreatedAs(n) PROVE ReceiptsTrusted'
  BY <1>1 DEF CreatedAs, Trusts
<1>2. ASSUME NEW u \in Upload, UploadStep(u) \/ Abandon(u) PROVE ReceiptsTrusted'
  <2>1. Trusts(u)' /\ OthersKept(u)
    BY <1>2, OwnStepTrusts, UploadStepKeepsOthers
  <2> QED
    BY <2>1, TrustsKept DEF OthersKept
<1>3. CASE RunsKept
  BY <1>3, TrustsKept DEF RunsKept
<1> QED
  BY <1>1, <1>2, <1>3, RunsChange, CreateUploadCreates

-----------------------------------------------------------------------------
(***************************************************************************)
(* Staged files.                                                           *)
(***************************************************************************)
\* A sweep that removes nothing referred to leaves the staged files of commits.
LEMMA SweptIsLitter ==
  ASSUME ~SweepsReferenced, NEW u \in Upload, SweepRemove(u)
  PROVE  ~(Exists(u) /\ stagedKey[u])
BY DEF SweepsReferenced, ReferencedKeys

LEMMA StageFitsKept ==
  ASSUME NEW u \in Upload, Fits(u), commitState[u] = "commit_started" => stagedKey[u],
         StageFits(u), pc'[u] \in {pc[u], "idle"}, stagedKey'[u] = stagedKey[u],
         commitState'[u] \in {commitState[u], "deleted"},
         stage'[u] = stage[u] \/ ~(Exists(u) /\ stagedKey[u])
  PROVE  StageFits(u)'
BY DEF StageFits, Fits, StateAt, StartedSteps, Exists, RowStates

LEMMA OwnStepStages ==
  ASSUME IInv, StagesFit, NEW u \in Upload, UploadStep(u) \/ Abandon(u) \/ InspectionFails(u)
  PROVE  StageFits(u)'
<1> USE DEF StageFits, Goto, dbVars, fileVars, Exists
<1>1. TypeOK /\ StageFits(u)
  BY DEF IInv, StagesFit
<1>2. CASE ReceiveParts(u) \/ BeginCommit(u) \/ Resume(u) \/ ReadReceipt(u) \/ ResumeCleanup(u)
  BY <1>1, <1>2
     DEF ReceiveParts, procVars, runVars, BeginCommit, Resume, RestartPoint, ReadReceipt,
         ResumeCleanup, Moves, TypeOK
<1>3. CASE AssembleCreate(u) \/ AssembleFinish(u) \/ InspectFinal(u) \/ Publish(u)
  BY <1>1, <1>3 DEF AssembleCreate, AssembleFinish, InspectFinal, Publish, Moves, TypeOK
<1>4. CASE InspectStarted(u) \/ ToFinalizing(u) \/ InspectPublished(u) \/ LoadCandidate(u)
           \/ ValidateCandidate(u)
  BY <1>1, <1>4
     DEF InspectStarted, ToFinalizing, InspectPublished, LoadCandidate, ValidateCandidate, Moves,
         TypeOK
<1>5. CASE MetadataRetry(u) \/ MetadataGone(u) \/ MetadataSuperseded(u) \/ MetadataCommit(u)
  BY <1>1, <1>5
     DEF MetadataRetry, MetadataGone, MetadataSuperseded, MetadataCommit, Moves, TypeOK
<1>6. CASE RemoveStage(u) \/ ClearStagedKey(u) \/ ValidateReceipt(u) \/ Mark(u)
  BY <1>1, <1>6 DEF RemoveStage, ClearStagedKey, ValidateReceipt, Mark, Moves, TypeOK
<1>7. CASE Abandon(u) \/ InspectionFails(u)
  BY <1>1, <1>7 DEF Abandon, InspectionFails, TypeOK
<1> QED
  BY <1>2, <1>3, <1>4, <1>5, <1>6, <1>7 DEF UploadStep, CompletionStep

LEMMA StagesStep ==
  ASSUME IInv, PlacesFit, StagesFit, [Next]_vars, ~SweepsReferenced
  PROVE  StagesFit'
<1> USE DEF StagesFit
<1>1. ASSUME NEW n \in Upload, CreatedAs(n) PROVE StagesFit'
  <2>1. StageFits(n)'
    BY <1>1 DEF CreatedAs, StageFits
  <2> QED
    BY <1>1, <2>1 DEF CreatedAs, StageFits, Exists
<1>2. ASSUME NEW u \in Upload, UploadStep(u) \/ Abandon(u) \/ InspectionFails(u)
      PROVE  StagesFit'
  <2>1. StageFits(u)' /\ OthersKept(u)
    BY <1>2, OwnStepStages, UploadStepKeepsOthers
  <2> QED
    BY <2>1 DEF OthersKept, StageFits, Exists
<1>3. ASSUME RunsKept, NEW u \in Upload PROVE StageFits(u)'
  BY <1>3, SweptIsLitter, StageFitsKept DEF RunsKept, PlacesFit, IInv, StartedIsStaged
<1> QED
  BY <1>1, <1>2, <1>3, RunsChange, CreateUploadCreates

LEMMA KeepsKept ==
  ASSUME NEW u \in Upload, commitState[u] = "commit_started" => stagedKey[u], Keeps(u),
         request'[u] = request[u], stagedKey'[u] = stagedKey[u],
         pc'[u] \in {pc[u], "idle"}, commitState'[u] \in {commitState[u], "deleted"},
         stage'[u] = stage[u] \/ ~(Exists(u) /\ stagedKey[u]),
         Active(u) /\ Active(u)' => Secure(u)
  PROVE  Keeps(u)'
BY DEF Keeps, Active, Secure, Exists, RowStates

LEMMA OwnStepKeeps ==
  ASSUME IInv, PlacesFit, StagesFit, LostUnneeded, BytesKept, NEW u \in Upload,
         UploadStep(u) \/ Abandon(u) \/ InspectionFails(u)
  PROVE  Keeps(u)'
<1> USE DEF Goto, dbVars, fileVars, Receiving, CommitStarted, Finalizing, Committed, Good
<1>1. /\ TypeOK /\ Fits(u) /\ StageFits(u) /\ Keeps(u) /\ Content(u)' = Content(u)
      /\ commitState[u] = "commit_started" => stagedKey[u]
      /\ Active(u) => Content(u) \in Contents
  BY OwnStepData, RequestParts
     DEF IInv, StartedIsStaged, PlacesFit, StagesFit, BytesKept, RowsKnown, Active, Content
<1>2. Active(u) /\ Good(Content(u)) => Good(Content(u))'
  BY <1>1, OwnStepData
<1> DEFINE Ended == commitState'[u] \notin {"commit_started", "finalizing"}
<1>3. Ended => Keeps(u)'
  BY DEF Keeps
<1>4. CASE ReceiveParts(u)
  BY <1>1, <1>4 DEF ReceiveParts, procVars, runVars, Keeps
<1>5. CASE Resume(u) \/ ReadReceipt(u) \/ ResumeCleanup(u)
  BY <1>1, <1>5 DEF Resume, RestartPoint, ReadReceipt, ResumeCleanup, Moves, TypeOK, Keeps
<1>6. CASE BeginCommit(u)
  <2>1. ASSUME BlobOf(Content(u)) # NoBlob PROVE Good(Content(u))
    <3>1. BlobOf(Content(u)) \in blobs /\ Content(BlobOf(Content(u))) = Content(u)
      BY <1>1, <2>1, BlobOfFinds
    <3>2. Active(u)
      BY <1>6 DEF BeginCommit, Active
    <3> QED
      BY <3>1, <3>2 DEF LostUnneeded, Unneeded
  <2> QED
    BY <1>1, <1>6, <2>1 DEF BeginCommit, TypeOK, Keeps
<1>7. CASE InspectStarted(u) \/ InspectFinal(u) \/ InspectPublished(u)
  BY <1>1, <1>7 DEF InspectStarted, InspectFinal, InspectPublished, Moves, TypeOK, Keeps
<1>8. CASE LoadCandidate(u) \/ ValidateCandidate(u) \/ MetadataRetry(u) \/ MetadataGone(u)
  BY <1>1, <1>8
     DEF LoadCandidate, ValidateCandidate, MetadataRetry, MetadataGone, Moves, TypeOK, Keeps
<1>9. CASE AssembleCreate(u) \/ AssembleFinish(u)
  <2>1. /\ commitState[u] \in {"commit_started", "deleted"}
        /\ UNCHANGED <<commitState, stagedKey, object>>
        /\ commitState[u] = "commit_started" /\ pc'[u] = "to_finalizing" =>
             stage'[u] = "good"
    BY <1>1, <1>9
       DEF AssembleCreate, StageReusable, AssembleFinish, Written, TypeOK, Fits, StageFits,
           StateAt, StartedSteps, Exists, RowStates
  <2> QED
    BY <1>1, <2>1 DEF Keeps
<1>10. CASE Publish(u)
  <2>1. /\ UNCHANGED <<commitState, stagedKey, stage>>
        /\ commitState[u] \in {"finalizing", "deleted"}
    BY <1>1, <1>10 DEF Publish, Fits, StateAt, FinalSteps
  <2>2. Keeps(u) /\ commitState[u] = "finalizing" => Active(u)
    BY DEF Active
  <2> QED
    BY <1>1, <1>2, <2>1, <2>2 DEF Keeps
<1>11. CASE ToFinalizing(u)
  BY <1>1, <1>11 DEF ToFinalizing, TypeOK, Keeps
<1>12. CASE MetadataSuperseded(u) \/ MetadataCommit(u)
  BY <1>1, <1>3, <1>12 DEF MetadataSuperseded, MetadataCommit, TypeOK
<1>13. CASE RemoveStage(u) \/ ClearStagedKey(u) \/ ValidateReceipt(u)
  <2>1. Ended
    BY <1>1, <1>13
       DEF RemoveStage, ClearStagedKey, ValidateReceipt, Moves, Fits, StateAt, ReceiptSteps
  <2> QED
    BY <1>3, <2>1
<1>14. CASE Mark(u)
  <2>1. Ended
    BY <1>1, <1>14 DEF Mark, TypeOK, Exists, RowStates
  <2> QED
    BY <1>3, <2>1
<1>15. CASE Abandon(u)
  <2>1. /\ UNCHANGED <<commitState, stagedKey, object>> /\ pc'[u] = "idle"
        /\ pc[u] = "assembling" \/ stage' = stage
    BY <1>1, <1>15 DEF Abandon, TypeOK
  <2> QED
    BY <1>1, <2>1 DEF Keeps, Fits, StateAt, StartedSteps
<1>16. CASE InspectionFails(u)
  BY <1>1, <1>16 DEF InspectionFails, TypeOK, Keeps
<1> QED
  BY <1>4, <1>5, <1>6, <1>7, <1>8, <1>9, <1>10, <1>11, <1>12, <1>13, <1>14, <1>15, <1>16
     DEF UploadStep, CompletionStep

LEMMA BytesStep ==
  ASSUME IInv, PlacesFit, StagesFit, LostUnneeded, BytesKept, [Next]_vars,
         ~ReclaimsUnderUpload', ~ObjectRots, ~SweepsReferenced
  PROVE  BytesKept'
<1> USE DEF BytesKept
<1>0. \A u \in Upload : commitState[u] = "commit_started" => stagedKey[u]
  BY DEF IInv, StartedIsStaged
<1>1. \A u \in Upload : request'[u] = request[u] => (Active(u) /\ Active(u)' => Secure(u))
  BY ObjectsSecure
<1>2. ASSUME NEW n \in Upload, CreatedAs(n) PROVE BytesKept'
  <2>1. Keeps(n)'
    BY <1>2 DEF CreatedAs, Keeps
  <2>2. ASSUME NEW u \in Upload \ {n} PROVE Keeps(u)'
    <3>1. /\ request'[u] = request[u] /\ stagedKey'[u] = stagedKey[u] /\ pc'[u] = pc[u]
          /\ commitState'[u] = commitState[u] /\ stage'[u] = stage[u]
      BY <1>2 DEF CreatedAs
    <3> QED
      BY <1>0, <1>1, <3>1, KeepsKept
  <2> QED
    BY <2>1, <2>2
<1>3. ASSUME NEW u \in Upload, UploadStep(u) \/ Abandon(u) \/ InspectionFails(u)
      PROVE  BytesKept'
  <2>1. Keeps(u)' /\ OthersKept(u) /\ request' = request
    BY <1>3, OwnStepKeeps, UploadStepKeepsOthers, OwnStepData
  <2>2. ASSUME NEW v \in Upload \ {u} PROVE Keeps(v)'
    <3>1. /\ request'[v] = request[v] /\ stagedKey'[v] = stagedKey[v] /\ pc'[v] = pc[v]
          /\ commitState'[v] = commitState[v] /\ stage'[v] = stage[v]
      BY <2>1 DEF OthersKept
    <3> QED
      BY <1>0, <1>1, <3>1, KeepsKept
  <2> QED
    BY <2>1, <2>2
<1>4. ASSUME RunsKept, NEW u \in Upload PROVE Keeps(u)'
  <2>1. /\ request'[u] = request[u] /\ stagedKey'[u] = stagedKey[u] /\ pc'[u] \in {pc[u], "idle"}
        /\ commitState'[u] \in {commitState[u], "deleted"}
        /\ stage'[u] = stage[u] \/ SweepRemove(u)
    BY <1>4 DEF RunsKept
  <2>2. stage'[u] = stage[u] \/ ~(Exists(u) /\ stagedKey[u])
    BY <2>1, SweptIsLitter
  <2> QED
    BY <1>0, <1>1, <2>1, <2>2, KeepsKept
<1> QED
  BY <1>2, <1>3, <1>4, RunsChange, CreateUploadCreates

-----------------------------------------------------------------------------
(***************************************************************************)
(* Failures.                                                               *)
(***************************************************************************)
\* While files can be read a completion finds what it looks for, unless its row
\* has gone.
LEMMA OwnStepBelieves ==
  ASSUME IInv, ObjectsWhole, PlacesFit, StagesFit, ReceiptsShown, LostUnneeded, AllPublished,
         BytesKept, Believed, NEW u \in Upload, UploadStep(u) \/ Abandon(u)
  PROVE  Believes(u)'
<1> USE DEF Goto, dbVars, fileVars, Receiving, CommitStarted, Finalizing, Committed, Good,
            Believes, Exists, RowStates
<1>1. /\ TypeOK /\ Fits(u) /\ StageFits(u) /\ Keeps(u) /\ Published(u) /\ Believes(u)
      /\ commitState[u] \in {"commit_started", "finalizing"} => Content(u) \in Contents
  BY RequestParts
     DEF IInv, PlacesFit, StagesFit, BytesKept, AllPublished, Believed, RowsKnown
<1>2. CASE ReceiveParts(u) \/ Resume(u) \/ ReadReceipt(u) \/ ResumeCleanup(u)
  BY <1>1, <1>2
     DEF ReceiveParts, procVars, runVars, Resume, RestartPoint, ReadReceipt, ResumeCleanup,
         Moves, TypeOK
<1>3. CASE BeginCommit(u)
  BY <1>1, <1>3 DEF BeginCommit, TypeOK
<1>4. CASE InspectStarted(u)
  <2>1. commitState[u] \in {"commit_started", "deleted"}
    BY <1>1, <1>4 DEF InspectStarted, Fits, StateAt, StartedSteps
  <2>2. commitState[u] = "commit_started" => object[Content(u)] # "bad"
    BY <1>1 DEF ObjectsWhole
  <2> QED
    BY <1>1, <1>4, <2>1, <2>2 DEF InspectStarted, Moves, TypeOK
<1>5. CASE InspectFinal(u) \/ InspectPublished(u) \/ ValidateCandidate(u)
  <2>1. commitState[u] \in {"finalizing", "deleted"} /\ commitState' = commitState
    BY <1>1, <1>5
       DEF InspectFinal, InspectPublished, ValidateCandidate, Moves, Fits, StateAt, FinalSteps
  <2>2. commitState[u] = "finalizing" => object[Content(u)] \in {"missing", "good"}
    BY <1>1 DEF ObjectsWhole, TypeOK
  <2>3. CASE InspectFinal(u)
    BY <1>1, <2>1, <2>2, <2>3 DEF InspectFinal, TypeOK, Keeps
  <2>4. CASE InspectPublished(u) \/ ValidateCandidate(u)
    BY <1>1, <2>1, <2>4
       DEF InspectPublished, ValidateCandidate, TypeOK, Published, PublishedSteps
  <2> QED
    BY <1>5, <2>3, <2>4
<1>6. CASE LoadCandidate(u) \/ MetadataRetry(u) \/ MetadataGone(u)
  BY <1>1, <1>6 DEF LoadCandidate, MetadataRetry, MetadataGone, Moves, TypeOK
<1>7. CASE AssembleCreate(u) \/ AssembleFinish(u) \/ RemoveStage(u) \/ ClearStagedKey(u)
  BY <1>1, <1>7 DEF AssembleCreate, AssembleFinish, RemoveStage, ClearStagedKey, TypeOK
<1>8. CASE Publish(u)
  BY <1>1, <1>8 DEF Publish, TypeOK, StageFits
<1>9. CASE ToFinalizing(u)
  BY <1>1, <1>9 DEF ToFinalizing, TypeOK
<1>10. CASE MetadataSuperseded(u) \/ MetadataCommit(u)
  BY <1>1, <1>10 DEF MetadataSuperseded, MetadataCommit, TypeOK
<1>11. CASE ValidateReceipt(u)
  <2>1. commitState[u] \in {"committed", "deleted"} /\ commitState' = commitState
    BY <1>1, <1>11 DEF ValidateReceipt, Moves, Fits, StateAt, ReceiptSteps
  <2>2. commitState[u] = "committed" => ReceiptHolds(u)
    BY ReceiptsHold
  <2> QED
    BY <1>1, <1>11, <2>1, <2>2 DEF ValidateReceipt, TypeOK
<1>12. CASE Mark(u)
  BY <1>1, <1>12 DEF Mark, TypeOK
<1>13. CASE Abandon(u)
  BY <1>1, <1>13 DEF Abandon, TypeOK
<1> QED
  BY <1>2, <1>3, <1>4, <1>5, <1>6, <1>7, <1>8, <1>9, <1>10, <1>11, <1>12, <1>13
     DEF UploadStep, CompletionStep

LEMMA BelievesKept ==
  ASSUME NEW u \in Upload, Believes(u), pc'[u] \in {pc[u], "idle"},
         commitState'[u] \in {commitState[u], "deleted"}
  PROVE  Believes(u)'
BY DEF Believes, Exists, RowStates

LEMMA BelievedStep ==
  ASSUME IInv, ObjectsWhole, PlacesFit, StagesFit, ReceiptsShown, LostUnneeded, AllPublished,
         BytesKept, Believed, [Next]_vars, \A u \in Upload : ~InspectionFails(u)
  PROVE  Believed'
<1> USE DEF Believed
<1>1. ASSUME NEW n \in Upload, CreatedAs(n) PROVE Believed'
  BY <1>1, BelievesKept DEF CreatedAs, Believes
<1>2. ASSUME NEW u \in Upload, UploadStep(u) \/ Abandon(u) PROVE Believed'
  <2>1. Believes(u)' /\ OthersKept(u)
    BY <1>2, OwnStepBelieves, UploadStepKeepsOthers
  <2> QED
    BY <2>1, BelievesKept DEF OthersKept
<1>3. CASE RunsKept
  BY <1>3, BelievesKept DEF RunsKept
<1> QED
  BY <1>1, <1>2, <1>3, RunsChange, CreateUploadCreates

-----------------------------------------------------------------------------
(***************************************************************************)
(* The invariant, part by part.                                            *)
(***************************************************************************)
\* What a step of HSpec is: one of UploadCommit, and no incident of a kind that
\* has not happened afterwards.
LEMMA HistorySteps ==
  ASSUME HInv, [HNext]_hvars
  PROVE  /\ [Next]_vars /\ incidents \subseteq incidents'
         /\ "reclaimed" \notin incidents' => ~ReclaimsUnderUpload'
         /\ "swept" \notin incidents' => ~SweepsReferenced
         /\ "rotted" \notin incidents' => ~ObjectRots
         /\ "restored" \notin incidents' => ~RestoresRow
         /\ "misread" \notin incidents' => \A u \in Upload : ~InspectionFails(u)
<1>1. CASE HNext
  BY <1>1 DEF HNext, AllIncidents, Incident
<1>2. CASE UNCHANGED hvars
  <2>1. UNCHANGED vars /\ incidents' = incidents
    BY <1>2 DEF hvars
  <2>2. UNCHANGED <<gcBlob, gcUnlinked, commitState, request, sweepSet, object, faults>>
    BY <2>1 DEF vars, dbVars, fileVars, procVars, gcVars, sweepVars
  <2>3. /\ ReclaimsUnderUpload' <=> ReclaimsUnderUpload
        /\ ~ObjectRots
    BY <2>2 DEF ReclaimsUnderUpload, Active, Content, ObjectRots
  <2>4. ~RestoresRow
    BY <2>2 DEF RestoresRow, GcRollback
  <2>5. ~SweepsReferenced
    BY <2>2 DEF SweepsReferenced, SweepRemove
  <2>6. \A u \in Upload : ~InspectionFails(u)
    BY <2>2 DEF InspectionFails, Fault, HInv, IInv, TypeOK
  <2> QED
    BY <2>1, <2>3, <2>4, <2>5, <2>6 DEF HInv
<1> QED
  BY <1>1, <1>2

LEMMA HistoryStep ==
  ASSUME HInv, [HNext]_hvars
  PROVE  HInv'
<1>1. /\ IInv /\ PlacesFit /\ ReceiptsShown /\ [Next]_vars /\ incidents \subseteq incidents'
      /\ incidents' \subseteq {"swept", "misread"} =>
           ObjectsWhole /\ LostUnneeded /\ AllPublished
      /\ incidents' \subseteq {"swept"} => ReceiptsTrusted
      /\ "swept" \notin incidents' => StagesFit
      /\ incidents' \subseteq {"misread"} => BytesKept
      /\ incidents' = {} => Believed
  BY HistorySteps DEF HInv
<1>2. IInv' /\ PlacesFit' /\ ReceiptsShown' /\ (ReclaimsUnderUpload' => "reclaimed" \in incidents')
  BY <1>1, InvStep, PlacesStep, ReceiptsStep, HistorySteps
<1>3. ASSUME incidents' \subseteq {"swept", "misread"}
      PROVE  ObjectsWhole' /\ LostUnneeded' /\ AllPublished'
  BY <1>1, <1>3, ObjectsStep, LostStep, PublishedStep, HistorySteps
<1>4. ASSUME incidents' \subseteq {"swept"} PROVE ReceiptsTrusted'
  BY <1>1, <1>4, TrustedStep, HistorySteps
<1>5. "swept" \notin incidents' => StagesFit'
  BY <1>1, StagesStep, HistorySteps
<1>6. ASSUME incidents' \subseteq {"misread"} PROVE BytesKept'
  BY <1>1, <1>6, BytesStep, HistorySteps
<1>7. ASSUME incidents' = {} PROVE Believed'
  BY <1>1, <1>7, BelievedStep, HistorySteps
<1> QED
  BY <1>2, <1>3, <1>4, <1>5, <1>6, <1>7 DEF HInv

LEMMA HistoryInvariance == HSpec => []HInv
BY HistoryInit, HistoryStep, PTL DEF HSpec

-----------------------------------------------------------------------------
(***************************************************************************)
(* The promises.                                                           *)
(***************************************************************************)
\* However often the process dies, completions end early, inspections fail and
\* the background pass comes round, the bytes of every row somebody counts on
\* stay on disk until an object rots, a reclamation meets an upload of the same
\* content or one fails half-way (complete_inner).
THEOREM BytesSurvive == HSpec => []BytesSurviveRestarts
<1>1. HInv => BytesSurviveRestarts
  BY NeededAreStored DEF HInv, BytesSurviveRestarts
<1> QED
  BY <1>1, HistoryInvariance, PTL

\* Every finalizing upload can be finished from what is on disk, through any
\* number of restarts (validate_active_commits, assemble_commit).
THEOREM CommitsStayRecoverable == HSpec => []RestartsStayRecoverable
<1>1. HInv => RestartsStayRecoverable
  BY DEF HInv, BytesKept, Keeps, Good, RestartsStayRecoverable, Finalizing
<1> QED
  BY <1>1, HistoryInvariance, PTL

\* No crash and no completion that ends early makes an upload call for manual
\* reconciliation (mark_unknown_message): it takes one of the incidents.
THEOREM NoUnknownWithoutIncident == HSpec => []UnknownOnlyAfterIncident
<1>1. HInv => UnknownOnlyAfterIncident
  BY DEF HInv, Believed, Believes, UnknownOnlyAfterIncident
<1> QED
  BY <1>1, HistoryInvariance, PTL

\* A committed upload is taken back by no step but the deletion of its asset.
LEMMA ReceiptStays ==
  ASSUME HInv, [HNext]_hvars, incidents' \subseteq {"swept"}, NEW u \in Upload, commitState[u] = "committed"
  PROVE  commitState'[u] \in {"committed", "deleted"}
<1> USE DEF dbVars, procVars, runVars, Goto, Receiving, CommitStarted, Finalizing
<1>1. /\ IInv /\ TypeOK /\ PlacesFit /\ ReceiptsTrusted /\ [Next]_vars
  BY HistorySteps DEF HInv, IInv
<1>2. ASSUME NEW n \in Upload, CreatedAs(n) PROVE commitState'[u] = commitState[u]
  BY <1>2 DEF CreatedAs
<1>3. ASSUME NEW v \in Upload, UploadStep(v) \/ Abandon(v) \/ InspectionFails(v)
      PROVE  commitState'[u] = commitState[u]
  <2>1. CASE v # u
    BY <1>1, <1>3, <2>1, UploadStepKeepsOthers DEF OthersKept
  <2>2. CASE Mark(u)
    BY <1>1, <2>2
       DEF Mark, ReceiptsTrusted, Trusts, PlacesFit, Fits, StateAt, StartedSteps
  <2>3. CASE v = u /\ ~Mark(u)
    BY <1>1, <1>3, <2>3
       DEF UploadStep, CompletionStep, ReceiveParts, Resume, ReadReceipt, ResumeCleanup,
           Moves, BeginCommit, InspectStarted, InspectFinal, InspectPublished, LoadCandidate,
           ValidateCandidate, MetadataRetry, MetadataGone, ValidateReceipt, AssembleCreate,
           AssembleFinish, Publish, RemoveStage, ToFinalizing, ClearStagedKey,
           MetadataSuperseded, MetadataCommit, Abandon, InspectionFails
  <2> QED
    BY <2>1, <2>2, <2>3
<1>4. CASE RunsKept
  BY <1>4 DEF RunsKept
<1> QED
  BY <1>1, <1>2, <1>3, <1>4, RunsChange, CreateUploadCreates

\* While files can be read and objects stay, a receipt is final until its asset
\* is deleted, however often its client asks again (validate_committed).
THEOREM ReceiptsAreFinal == HSpec => ReceiptFinal
<1>1. HInv /\ [HNext]_hvars =>
        [incidents' \subseteq {"swept"} =>
           \A u \in Upload : commitState[u] = Committed =>
             commitState'[u] \in {"committed", "deleted"}]_hvars
  BY ReceiptStays DEF Committed
<1> QED
  BY <1>1, HistoryInvariance, PTL DEF HSpec, ReceiptFinal

-----------------------------------------------------------------------------
(***************************************************************************)
(* The sweep at startup.  It runs before the server listens, with nothing  *)
(* else under way, and so removes no staged file that a commit needs.      *)
(***************************************************************************)
SweepsAtStartup ==
  /\ ~reconciling /\ (serving => sweepPhase = "idle")
  /\ sweepPhase # "idle" => Idle /\ gcBlob = NoBlob
  /\ sweepPhase = "read" => sweepSet = ReferencedKeys
  /\ sweepPhase = "removing" => sweepSet \cap ReferencedKeys = {}
  /\ gcUnlinked => gcBlob # NoBlob

\* While the server does not listen, what runs is a sweep, or comes to an end
\* before one begins.
LEMMA SweepStepKeeps ==
  ASSUME ~PeriodicReconcile, IInv, SweepsAtStartup, [Next]_vars
  PROVE  SweepsAtStartup'
<1> USE DEF SweepsAtStartup, procVars, runVars, gcVars, sweepVars, dbVars
<1> DEFINE Serves == /\ serving /\ UNCHANGED <<serving, reconciling, sweepPhase, gcUnlinked>>
                     /\ (gcUnlinked => gcBlob' # NoBlob)
<1> DEFINE Runs(u) == /\ sweepPhase = "idle"
                      /\ UNCHANGED <<serving, reconciling, sweepPhase, gcBlob, gcUnlinked>>
<1>0. Serves => SweepsAtStartup'
  OBVIOUS
<1>1. CASE CreateStep
  <2>1. ASSUME NEW r \in Requests, CreateUpload(r) \/ DedupInspect(r) PROVE Serves
    BY <2>1 DEF CreateUpload, DedupInspect
  <2>2. ASSUME NEW d \in dedup, DedupCommit(d) PROVE Serves
    BY <2>2 DEF DedupCommit
  <2>3. ASSUME NEW d \in dedup, DedupReject(d) PROVE SweepsAtStartup'
    BY <2>3 DEF DedupReject, Idle, ReferencedKeys, Exists
  <2> QED
    BY <1>0, <1>1, <2>1, <2>2, <2>3 DEF CreateStep
<1>2. ASSUME NEW u \in Upload, UploadStep(u) PROVE SweepsAtStartup'
  <2>1. CASE ReceiveParts(u) \/ BeginCommit(u) \/ ReadReceipt(u)
    BY <1>0, <2>1 DEF ReceiveParts, BeginCommit, ReadReceipt, Moves
  <2>2. CASE Resume(u) \/ ResumeCleanup(u)
    BY <2>2 DEF Resume, ResumeCleanup, MayStart, Moves
  <2>3. CASE CompletionStep(u)
    <3>1. pc[u] # "idle" /\ UNCHANGED <<serving, reconciling, sweepPhase, gcBlob, gcUnlinked>>
      BY <2>3
         DEF CompletionStep, InspectStarted, AssembleCreate, AssembleFinish, ToFinalizing,
             InspectFinal, Publish, InspectPublished, LoadCandidate, ValidateCandidate,
             MetadataRetry, MetadataGone, MetadataSuperseded, MetadataCommit, RemoveStage,
             ClearStagedKey, ValidateReceipt, Mark, Moves, Goto
    <3>2. sweepPhase = "idle"
      BY <3>1 DEF Idle
    <3> QED
      BY <3>1, <3>2
  <2> QED
    BY <1>2, <2>1, <2>2, <2>3 DEF UploadStep
<1>3. CASE LibraryStep
  <2>1. ASSUME NEW a \in Assets, SetTrashed(a) \/ DeletePermanently(a) PROVE SweepsAtStartup'
    <3>1. /\ serving /\ UNCHANGED <<serving, sweepPhase, gcBlob, gcUnlinked>>
          /\ reconciling' = reconciling \/ ~reconciling'
      BY <2>1 DEF SetTrashed, DeletePermanently
    <3> QED
      BY <3>1
  <2>2. ASSUME NEW b \in Upload, GcDelete(b) PROVE SweepsAtStartup'
    BY <2>2 DEF GcDelete, Upload, NoBlob, WriteLockFree
  <2>3. CASE GcUnlink
    BY <2>3 DEF GcUnlink
  <2>4. CASE GcCommit
    BY <2>4 DEF GcCommit
  <2> QED
    BY <1>3, <2>1, <2>2, <2>3, <2>4 DEF LibraryStep
<1>4. CASE SweepStep
  <2>1. CASE SweepRead
    BY <2>1 DEF SweepRead, Idle, ReferencedKeys, Exists, WriteLockFree
  <2>2. CASE SweepList
    BY <2>2 DEF SweepList, Idle, ReferencedKeys, Exists
  <2>3. ASSUME NEW u \in Upload, SweepRemove(u) PROVE SweepsAtStartup'
    BY <2>3 DEF SweepRemove, Idle, ReferencedKeys, Exists
  <2>4. CASE SweepEnd
    BY <2>4 DEF SweepEnd
  <2> QED
    BY <1>4, <2>1, <2>2, <2>3, <2>4 DEF SweepStep
<1>5. CASE Serve
  BY <1>5 DEF Serve
<1>6. CASE FaultStep
  <2>1. ASSUME NEW u \in Upload, Abandon(u) \/ InspectionFails(u) PROVE SweepsAtStartup'
    <3>1. pc[u] # "idle" /\ UNCHANGED <<serving, reconciling, sweepPhase, gcBlob, gcUnlinked>>
      BY <2>1 DEF Abandon, InspectionFails, Goto
    <3>2. sweepPhase = "idle"
      BY <3>1 DEF Idle
    <3> QED
      BY <3>1, <3>2
  <2>2. CASE Crash
    BY <2>2 DEF Crash
  <2>3. CASE GcRollback
    BY <2>3 DEF GcRollback, Idle, ReferencedKeys, Exists
  <2>4. CASE Damage
    BY <2>4 DEF Damage, Idle, ReferencedKeys, Exists
  <2> QED
    BY <1>6, <2>1, <2>2, <2>3, <2>4 DEF FaultStep
<1>7. CASE UNCHANGED vars
  BY <1>7 DEF vars, Idle, ReferencedKeys, Exists
<1> QED
  BY <1>1, <1>2, <1>3, <1>4, <1>5, <1>6, <1>7 DEF Next

LEMMA StartupSweeps ==
  ASSUME ~PeriodicReconcile
  PROVE  HSpec => [](SweepsAtStartup /\ "swept" \notin incidents)
<1>1. HInit => SweepsAtStartup /\ "swept" \notin incidents
  BY DEF HInit, Init, SweepsAtStartup, NoBlob
<1>2. HInv /\ SweepsAtStartup /\ "swept" \notin incidents /\ [HNext]_hvars =>
        (SweepsAtStartup /\ "swept" \notin incidents)'
  <2> SUFFICES ASSUME HInv, SweepsAtStartup, "swept" \notin incidents, [HNext]_hvars
               PROVE  SweepsAtStartup' /\ "swept" \notin incidents'
    OBVIOUS
  <2>1. SweepsAtStartup'
    BY SweepStepKeeps, HistorySteps DEF HInv
  <2>2. ~SweepsReferenced
    BY DEF SweepsReferenced, SweepRemove, SweepsAtStartup
  <2>3. incidents' = incidents \/ HNext
    BY DEF hvars
  <2>4. "swept" \notin incidents'
    BY <2>2, <2>3 DEF HNext, Incident
  <2> QED
    BY <2>1, <2>4
<1> QED
  BY <1>1, <1>2, HistoryInvariance, PTL DEF HSpec

\* Where reconciliation runs at startup only, the sweep never unlinks the staged
\* file of a commit that has begun (reconcile_all, called before main listens):
\* that incident belongs to the periodic pass alone.
THEOREM StartupSweepSpares ==
  ASSUME ~PeriodicReconcile PROVE HSpec => []("swept" \notin incidents)
BY StartupSweeps, PTL

-----------------------------------------------------------------------------
(***************************************************************************)
(* The parts of uploads, as PartLedger has them.  Only the calls that      *)
(* bring the parts, begin_commit and the deletion of the asset are seen.   *)
(***************************************************************************)
LEMMA ReceivedChange ==
  ASSUME [Next]_vars, \A u \in Upload : ~ReceiveParts(u)
  PROVE  received' = received
<1> USE DEF dbVars
<1>1. CASE CreateStep
  BY <1>1 DEF CreateStep, CreateUpload, DedupInspect, DedupCommit, DedupReject
<1>2. ASSUME NEW u \in Upload, UploadStep(u) PROVE received' = received
  <2>1. CASE BeginCommit(u) \/ Resume(u) \/ ReadReceipt(u) \/ ResumeCleanup(u)
    BY <2>1 DEF BeginCommit, Resume, ReadReceipt, ResumeCleanup, Moves
  <2>2. CASE CompletionStep(u)
    BY <2>2
       DEF CompletionStep, InspectStarted, AssembleCreate, AssembleFinish, ToFinalizing,
           InspectFinal, Publish, InspectPublished, LoadCandidate, ValidateCandidate,
           MetadataRetry, MetadataGone, MetadataSuperseded, MetadataCommit, RemoveStage,
           ClearStagedKey, ValidateReceipt, Mark, Moves
  <2> QED
    BY <1>2, <2>1, <2>2 DEF UploadStep
<1>3. CASE LibraryStep
  BY <1>3 DEF LibraryStep, SetTrashed, DeletePermanently, GcDelete, GcUnlink, GcCommit
<1>4. CASE SweepStep \/ Serve
  BY <1>4 DEF SweepStep, SweepRead, SweepList, SweepRemove, SweepEnd, Serve
<1>5. CASE FaultStep
  BY <1>5 DEF FaultStep, Abandon, InspectionFails, GcRollback, Crash, Damage
<1>6. CASE UNCHANGED vars
  BY <1>6 DEF vars
<1> QED
  BY <1>1, <1>2, <1>3, <1>4, <1>5, <1>6 DEF Next

\* A commit that has begun does not go back to receiving, and an upload that
\* receives is not marked by a completion.
LEMMA OwnStepPhase ==
  ASSUME IInv, PlacesFit, NEW u \in Upload, UploadStep(u) \/ Abandon(u) \/ InspectionFails(u),
         ~BeginCommit(u)
  PROVE  PartsPhase(u)' = PartsPhase(u) /\ (commitState'[u] = "deleted" <=> commitState[u] = "deleted")
<1> USE DEF dbVars, Receiving, CommitStarted, Finalizing, Committed
<1>1. TypeOK /\ Fits(u)
  BY DEF IInv, PlacesFit
<1>2. \/ commitState'[u] = commitState[u]
      \/ /\ commitState[u] \notin {"none", "receiving", "deleted"}
         /\ commitState'[u] \notin {"none", "receiving", "deleted"}
  <2>1. CASE Mark(u)
    BY <1>1, <2>1 DEF Mark, Goto, TypeOK, Fits, Exists, RowStates
  <2>2. CASE ToFinalizing(u) \/ MetadataSuperseded(u) \/ MetadataCommit(u)
    BY <1>1, <2>2 DEF ToFinalizing, MetadataSuperseded, MetadataCommit, TypeOK
  <2>3. CASE ~Mark(u) /\ ~ToFinalizing(u) /\ ~MetadataSuperseded(u) /\ ~MetadataCommit(u)
    BY <2>3
       DEF UploadStep, CompletionStep, ReceiveParts, Resume, ReadReceipt, ResumeCleanup, Moves,
           InspectStarted, AssembleCreate, AssembleFinish, InspectFinal, Publish,
           InspectPublished, LoadCandidate, ValidateCandidate, MetadataRetry, MetadataGone,
           RemoveStage, ClearStagedKey, ValidateReceipt, Abandon, InspectionFails
  <2> QED
    BY <2>1, <2>2, <2>3
<1> QED
  BY <1>2 DEF PartsPhase

LEMMA PartsStep ==
  ASSUME IInv, PlacesFit, [Next]_vars
  PROVE  [P!Next]_<<[u \in Upload |-> PartsPhase(u)], [u \in Upload |-> PartsHad(u)]>>
<1> DEFINE phase == [u \in Upload |-> PartsPhase(u)]
           have == [u \in Upload |-> PartsHad(u)]
<1> SUFFICES P!Next \/ UNCHANGED <<phase, have>>
  OBVIOUS
<1>0. TypeOK
  BY DEF IInv
<1>1. ASSUME NEW n \in Upload, CreatedAs(n) PROVE UNCHANGED <<phase, have>>
  <2>1. \A u \in Upload : ~ReceiveParts(u)
    BY <1>0, <1>1 DEF CreatedAs, ReceiveParts
  <2>2. received' = received
    BY <2>1, ReceivedChange
  <2>3. \A u \in Upload : PartsPhase(u)' = PartsPhase(u) /\ PartsHad(u)' = PartsHad(u)
    BY <1>1, <2>2 DEF CreatedAs, PartsPhase, PartsHad
  <2> QED
    BY <2>3
<1>2. ASSUME NEW u \in Upload, ReceiveParts(u) PROVE P!Next
  <2>1. /\ commitState' = commitState /\ commitState[u] = "receiving"
        /\ received' = [received EXCEPT ![u] = TRUE]
    BY <1>2 DEF ReceiveParts, Receiving
  <2>2. phase' = phase /\ phase[u] = "receiving"
    BY <2>1 DEF PartsPhase
  <2>3. have' = [have EXCEPT ![u] = @ \cup {"parts"}]
    BY <1>0, <2>1 DEF PartsHad, TypeOK
  <2>4. P!Take(u, "parts")
    BY <2>2, <2>3 DEF P!Take
  <2> QED
    BY <2>4 DEF P!Next
<1>3. ASSUME NEW u \in Upload, BeginCommit(u) PROVE P!Next
  <2>1. /\ commitState[u] = "receiving" /\ received[u] /\ received' = received
        /\ commitState'[u] \in {"finalizing", "commit_started"}
        /\ \A v \in Upload \ {u} : commitState'[v] = commitState[v]
    BY <1>0, <1>3 DEF BeginCommit, TypeOK, Receiving, Finalizing, CommitStarted
  <2>2. phase[u] = "receiving" /\ phase' = [phase EXCEPT ![u] = "frozen"]
    BY <2>1 DEF PartsPhase
  <2>3. have[u] = {"parts"} /\ have' = have
    BY <2>1 DEF PartsHad
  <2>4. P!Freeze(u)
    BY <2>2, <2>3 DEF P!Freeze
  <2> QED
    BY <2>4 DEF P!Next
<1>4. ASSUME NEW u \in Upload, UploadStep(u) \/ Abandon(u) \/ InspectionFails(u),
             ~BeginCommit(u), \A v \in Upload : ~ReceiveParts(v)
      PROVE  UNCHANGED <<phase, have>>
  <2>1. OthersKept(u) /\ received' = received
    BY <1>4, UploadStepKeepsOthers, ReceivedChange
  <2>2. \A v \in Upload : PartsPhase(v)' = PartsPhase(v) /\ PartsHad(v)' = PartsHad(v)
    BY <1>4, <2>1, OwnStepPhase DEF OthersKept, PartsPhase, PartsHad
  <2> QED
    BY <2>2
<1>5. CASE RunsKept /\ \A v \in Upload : ~ReceiveParts(v)
  <2> DEFINE gone == {u \in Upload : commitState'[u] = "deleted"}
  <2>1. /\ received' = received
        /\ \A u \in Upload : commitState'[u] = commitState[u] \/ u \in gone
    BY <1>5, ReceivedChange DEF RunsKept
  <2>2. \A u \in Upload : /\ PartsPhase(u)' = IF u \in gone THEN "gone" ELSE PartsPhase(u)
                          /\ PartsHad(u)' = IF u \in gone THEN {} ELSE PartsHad(u)
    BY <2>1 DEF PartsPhase, PartsHad
  <2>3. P!Forget(gone)
    BY <2>2 DEF P!Forget
  <2> QED
    BY <2>3 DEF P!Next
<1> QED
  BY <1>1, <1>2, <1>3, <1>4, <1>5, RunsChange, CreateUploadCreates

\* What ReceiveParts takes for one step is sound: UploadCommit treats the parts of
\* its uploads as PartLedger allows, which PartReceive implements call by call
\* (put_part against begin_commit and delete_asset_permanently).
THEOREM PartsAsInLedger == Spec => ImplementsParts
<1>1. Init => PlacesFit
  BY DEF Init, PlacesFit, Fits, StateAt, StartedSteps, FinalSteps, ReceiptSteps, NoBlob
<1>2. Init => P!Init
  BY DEF Init, P!Init, PartsPhase, PartsHad
<1> QED
  BY <1>1, <1>2, PlacesStep, PartsStep, Invariance, PTL DEF Spec, ImplementsParts, P!Spec

-----------------------------------------------------------------------------
(***************************************************************************)
(* What readers of a resource see.                                         *)
(***************************************************************************)
ShownWhole ==
  incidents \subseteq {"swept", "misread"} =>
    \A s \in Slots : ShowsOf(s) # "nothing" => ShowsOf(s) \in StoredWhole

LEMMA ShownIsWhole ==
  ASSUME IInv, LostUnneeded, NEW s \in Slots, ShowsOf(s) # "nothing"
  PROVE  ShowsOf(s) \in StoredWhole
<1>1. resource[s] # NoBlob /\ ShowsOf(s) = Content(resource[s])
  BY DEF ShowsOf
<1>2. resource[s] \in blobs
  BY <1>1 DEF IInv, BlobReferencesHold
<1>3. Content(resource[s]) \in Contents
  BY <1>2, RequestParts DEF IInv, BlobsKnown, TypeOK
<1>4. object[Content(resource[s])] = "good"
  BY <1>2, NeededAreStored DEF ReferencedBlobsStored, Needed
<1> QED
  BY <1>1, <1>3, <1>4 DEF StoredWhole

\* A step that leaves the objects alone shows at most another whole one.
LEMMA ShowingStep ==
  ASSUME UNCHANGED object, NEW s \in Slots,
         ShowsOf(s)' # "nothing" => ShowsOf(s)' \in StoredWhole'
  PROVE  [Sh(s)!Next]_<<ShowsOf(s), StoredWhole>>
<1>1. StoredWhole' = StoredWhole
  BY DEF StoredWhole
<1>2. CASE ShowsOf(s)' = "nothing"
  BY <1>1, <1>2 DEF Sh!Next, Sh!Withdraw
<1>3. CASE ShowsOf(s)' # "nothing"
  <2>1. ShowsOf(s)' \in Contents /\ ShowsOf(s)' \in StoredWhole
    BY <1>1, <1>3 DEF StoredWhole
  <2> QED
    BY <1>1, <2>1 DEF Sh!Next, Sh!Show
<1> QED
  BY <1>2, <1>3

\* A step that changes an object leaves alone what every slot shows.
LEMMA SameShown ==
  ASSUME UNCHANGED <<resource, request>>
  PROVE  \A s \in Slots : ShowsOf(s)' = ShowsOf(s)
BY DEF ShowsOf, Content

LEMMA ShelfStep ==
  ASSUME HInv, ShownWhole', [HNext]_hvars, incidents' \subseteq {"swept", "misread"},
         NEW s \in Slots
  PROVE  [Sh(s)!Next]_<<ShowsOf(s), StoredWhole>>
<1>1. [Next]_vars /\ ~ObjectRots
  <2>1. "rotted" \notin incidents'
    OBVIOUS
  <2> QED
    BY <2>1, HistorySteps
<1>2. ShowsOf(s)' # "nothing" => ShowsOf(s)' \in StoredWhole'
  BY DEF ShownWhole
<1>3. TypeOK /\ IInv
  BY DEF HInv, IInv
<1>4. CASE UNCHANGED object
  BY <1>2, <1>4, ShowingStep
<1>5. ASSUME NEW u \in Upload, Publish(u), ~UNCHANGED object
      PROVE  Sh(s)!Next
  <2>1. ShowsOf(s)' = ShowsOf(s)
    BY <1>5, SameShown DEF Publish, dbVars
  <2>2. /\ Content(u) \in Contents /\ object[Content(u)] = "missing"
        /\ object' = [object EXCEPT ![Content(u)] = "good"]
    BY <1>3, <1>5 DEF Publish, TypeOK
  <2>3. StoredWhole' = StoredWhole \cup {Content(u)}
    BY <1>3, <2>2 DEF StoredWhole, TypeOK
  <2> QED
    BY <2>1, <2>2, <2>3 DEF Sh!Next, Sh!Store
<1>6. CASE GcUnlink
  <2>1. ShowsOf(s)' = ShowsOf(s)
    BY <1>6, SameShown DEF GcUnlink, dbVars
  <2>2. object' = [object EXCEPT ![Content(gcBlob)] = "missing"]
    BY <1>6 DEF GcUnlink
  <2>3. Content(gcBlob) \in Contents
    BY <1>3, <1>6, RequestParts DEF GcUnlink, IInv, ReclaimedIsUnreferenced, BlobsKnown
  <2>4. StoredWhole' = StoredWhole \ {Content(gcBlob)}
    BY <1>3, <2>2, <2>3 DEF StoredWhole, TypeOK
  <2>5. Content(gcBlob) # ShowsOf(s)
    <3>1. Content(gcBlob) # "nothing"
      BY <2>3, RequestsAssumption
    <3> QED
      BY <1>2, <2>1, <2>4, <3>1
  <2> QED
    BY <2>1, <2>3, <2>4, <2>5 DEF Sh!Next, Sh!Discard
<1>7. CASE Damage
  <2>1. UNCHANGED object
    BY <1>1, <1>3, <1>7 DEF Damage, ObjectRots, TypeOK
  <2> QED
    BY <1>4, <2>1
<1> QED
  BY <1>1, <1>4, <1>5, <1>6, <1>7, ObjectsChange

\* Until an object rots or a reclamation meets an upload of its content or fails
\* half-way, readers see the library change as Delivery assumes, whatever the
\* protocol does between two of its steps (open_blob against commit_metadata,
\* delete_asset_permanently and reconcile_orphan_blobs).
THEOREM ReadersSeeShelf == HSpec => ServesShelf
<1>1. HInit => \A s \in Slots : Sh(s)!Init
  BY DEF HInit, Init, Sh!Init, ShowsOf, StoredWhole
<1>2. HInv => ShownWhole
  BY ShownIsWhole DEF HInv, ShownWhole
<1>3. HInv /\ ShownWhole' /\ [HNext]_hvars =>
        [incidents' \subseteq {"swept", "misread"} =>
           \A s \in Slots : [Sh(s)!Next]_<<ShowsOf(s), StoredWhole>>]_hvars
  BY ShelfStep
<1> QED
  BY <1>1, <1>2, <1>3, HistoryInvariance, PTL DEF HSpec, ServesShelf
=============================================================================
