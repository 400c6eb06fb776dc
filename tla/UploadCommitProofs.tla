------------------------- MODULE UploadCommitProofs -------------------------
(***************************************************************************)
(* Proofs about UploadCommit for every set of assets, contents and         *)
(* requests, every number of uploads and every combination of failures:    *)
(* its types, the references between rows, the order of versions, that it  *)
(* implements Archive, and that it stays within the quota.                 *)
(***************************************************************************)
EXTENDS UploadCommit, FiniteSetTheorems, TLAPS

-----------------------------------------------------------------------------
(***************************************************************************)
(* The inductive invariant.  BlobReferencesHold by itself is not           *)
(* inductive: that a reclamation deletes no row in use needs to know that  *)
(* the row it has chosen stays unreferenced until its COMMIT, and that a   *)
(* commit inserts no second row of a content needs to know what it means   *)
(* to propose.                                                             *)
(***************************************************************************)

\* A row that exists or existed was written by an earlier request.
RowsKnown ==
  \A u \in Upload : commitState[u] # "none" => u < next /\ request[u] \in Requests

BlobsKnown == \A b \in blobs : b < next /\ request[b] \in Requests

\* blobs_content_unique_idx.
BlobsDistinct == \A b, c \in blobs : Content(b) = Content(c) => b = c

\* A commit that has begun names a blob of its own content, written or not.
ProposalsMatch ==
  \A u \in Upload : commitState[u] \in {"commit_started", "finalizing", "committed"} =>
    /\ commitBlob[u] \in Upload /\ commitBlob[u] < next
    /\ request[commitBlob[u]] \in Requests
    /\ Content(commitBlob[u]) = Content(u)

\* A commit that proposes a blob of its own stages it.
StartedIsStaged == \A u \in Upload : commitState[u] = "commit_started" => stagedKey[u]

\* The write lock keeps the row under reclamation unreferenced.
ReclaimedIsUnreferenced == gcBlob # NoBlob => gcBlob \in blobs /\ Unreferenced(gcBlob)

\* A verified blob id stands for the content it was verified for.
DedupMatches ==
  \A d \in dedup : /\ d.blob < next /\ request[d.blob] \in Requests
                   /\ Content(d.blob) = d.request.content

IInv ==
  /\ TypeOK
  /\ RowsKnown /\ BlobsKnown /\ BlobsDistinct /\ ProposalsMatch
  /\ StartedIsStaged /\ ReclaimedIsUnreferenced /\ DedupMatches
  /\ BlobReferencesHold /\ ShownIsNewest

-----------------------------------------------------------------------------
(***************************************************************************)
(* What the operators return.                                              *)
(***************************************************************************)

\* A request names a slot and a content.
LEMMA RequestParts ==
  ASSUME NEW u, request[u] \in Requests
  PROVE  /\ SlotOf(u) \in Slots /\ Content(u) \in Contents
         /\ request[u].asset \in Assets /\ request[u].source \in Sources
         /\ SlotOf(u)[1] = request[u].asset
BY RequestsAssumption DEF AllRequests, SlotOf, Content, Slots

\* BlobOf finds the row of a content exactly if there is one.
LEMMA BlobOfFinds ==
  ASSUME TypeOK, NEW c
  PROVE  /\ BlobOf(c) \in BlobId
         /\ BlobOf(c) # NoBlob => BlobOf(c) \in blobs /\ Content(BlobOf(c)) = c
         /\ BlobOf(c) = NoBlob => \A b \in blobs : Content(b) # c
<1>1. CASE BlobsOf(c) = {}
  <2>1. BlobOf(c) = NoBlob
    BY <1>1 DEF BlobOf
  <2> QED
    BY <1>1, <2>1 DEF BlobsOf, BlobId
<1>2. CASE BlobsOf(c) # {}
  <2>1. BlobOf(c) \in BlobsOf(c)
    BY <1>2 DEF BlobOf
  <2>2. BlobOf(c) \in Upload
    BY <2>1 DEF BlobsOf, TypeOK
  <2> QED
    BY <2>1, <2>2 DEF BlobsOf, BlobId, NoBlob, Upload
<1> QED
  BY <1>1, <1>2

\* The row commit_metadata works with is one of the upload's content, and no
\* other row has that content.
LEMMA ActualBlobFits ==
  ASSUME TypeOK, BlobsKnown, BlobsDistinct, ProposalsMatch,
         NEW u \in Upload, commitState[u] = "finalizing"
  PROVE  /\ ActualBlob(u) \in Upload /\ ActualBlob(u) < next
         /\ request[ActualBlob(u)] \in Requests
         /\ Content(ActualBlob(u)) = Content(u)
         /\ \A b \in blobs : Content(b) = Content(u) => b = ActualBlob(u)
<1>1. CASE BlobOf(Content(u)) # NoBlob
  <2>1. ActualBlob(u) \in blobs /\ Content(ActualBlob(u)) = Content(u)
    BY <1>1, BlobOfFinds DEF ActualBlob
  <2> QED
    BY <2>1 DEF TypeOK, BlobsKnown, BlobsDistinct
<1>2. CASE BlobOf(Content(u)) = NoBlob
  <2>1. ActualBlob(u) = commitBlob[u]
    BY <1>2 DEF ActualBlob
  <2>2. \A b \in blobs : Content(b) # Content(u)
    BY <1>2, BlobOfFinds
  <2> QED
    BY <2>1, <2>2 DEF ProposalsMatch
<1> QED
  BY <1>1, <1>2

-----------------------------------------------------------------------------
(***************************************************************************)
(* The invariant holds of a fresh installation.                            *)
(***************************************************************************)
LEMMA InitInv == Init => IInv
<1> SUFFICES ASSUME Init PROVE IInv
  OBVIOUS
<1>1. TypeOK
  <2>1. next \in 1 .. MaxUploads + 1 /\ faults \in Nat
    BY BoundsAssumption DEF Init
  <2> QED
    BY <2>1 DEF Init, TypeOK, BlobId, NoBlob, RowStates, PC
<1>2. RowsKnown /\ BlobsKnown /\ BlobsDistinct /\ ProposalsMatch
  BY DEF Init, RowsKnown, BlobsKnown, BlobsDistinct, ProposalsMatch
<1>3. StartedIsStaged /\ ReclaimedIsUnreferenced /\ DedupMatches
  BY DEF Init, StartedIsStaged, ReclaimedIsUnreferenced, DedupMatches
<1>4. BlobReferencesHold /\ ShownIsNewest
  BY DEF Init, BlobReferencesHold, ShownIsNewest, Committed, Finalizing
<1> QED
  BY <1>1, <1>2, <1>3, <1>4 DEF IInv

-----------------------------------------------------------------------------
(***************************************************************************)
(* Types are preserved.  Only commit_metadata needs more than TypeOK: that *)
(* what it inserts is the id of an upload.                                 *)
(***************************************************************************)
\* A completion that moves keeps pc and candidate in their types.
LEMMA GotoType ==
  ASSUME TypeOK, NEW u \in Upload, NEW from, NEW to \in PC, Goto(u, from, to)
  PROVE  pc' \in [Upload -> PC] /\ candidate' \in [Upload -> BlobId]
BY DEF TypeOK, Goto, BlobId

\* Injecting a failure leaves a number of failures.
LEMMA FaultType ==
  ASSUME faults \in Nat, NEW kind, Fault(kind)
  PROVE  faults' \in Nat
BY DEF Fault

LEMMA TypeStep ==
  ASSUME IInv, [Next]_vars
  PROVE  TypeOK'
<1> USE BoundsAssumption DEF Upload, BlobId, NoBlob, RowStates
<1> TypeOK
  BY DEF IInv
<1>0. faults \in Nat /\ damaged \subseteq Upload /\ blobs \subseteq Upload
  BY DEF TypeOK
<1>1. ASSUME NEW r \in Requests, CreateUpload(r) PROVE TypeOK'
  <2>1. next \in Upload /\ next' \in 1 .. MaxUploads + 1
    BY <1>1 DEF CreateUpload, TypeOK
  <2>2. /\ commitState' \in [Upload -> RowStates \cup {"none", "deleted"}]
        /\ request' \in [Upload -> Requests \cup {NoRequest}]
    BY <1>1, <2>1 DEF CreateUpload, TypeOK, Receiving
  <2>3. asset' \in [Assets -> {"absent", "live", "trashed"}]
    BY <1>1 DEF CreateUpload, UpsertAsset, TypeOK
  <2> QED
    BY <1>1, <2>1, <2>2, <2>3
       DEF CreateUpload, TypeOK, fileVars, procVars, runVars, gcVars, sweepVars
<1>2. ASSUME NEW r \in Requests, DedupInspect(r) PROVE TypeOK'
  <2>1. next - 1 \in Nat
    BY DEF TypeOK
  <2> QED
    BY <1>2, <2>1, BlobOfFinds
       DEF DedupInspect, TypeOK, dbVars, fileVars, runVars, gcVars, sweepVars
<1>3. ASSUME NEW d \in dedup, DedupCommit(d) PROVE TypeOK'
  <2>2. asset' \in [Assets -> {"absent", "live", "trashed"}]
    BY <1>3 DEF DedupCommit, UpsertAsset, TypeOK
  <2>3. /\ resource' \in [Slots -> BlobId]
        /\ shown' \in [Slots -> Nat]
    BY <1>3 DEF DedupCommit, BlobStillExists, TypeOK
  <2> QED
    BY <1>3, <2>2, <2>3
       DEF DedupCommit, TypeOK, fileVars, runVars, gcVars, sweepVars
<1>4. ASSUME NEW d \in dedup, DedupReject(d) PROVE TypeOK'
  BY <1>4 DEF DedupReject, TypeOK, dbVars, fileVars, runVars, gcVars, sweepVars
<1>5. ASSUME NEW u \in Upload, ReceiveParts(u) PROVE TypeOK'
  BY <1>5 DEF ReceiveParts, TypeOK, fileVars, procVars, runVars, gcVars, sweepVars
<1>6. ASSUME NEW u \in Upload, BeginCommit(u) PROVE TypeOK'
  <2>1. pc' \in [Upload -> PC] /\ candidate' \in [Upload -> BlobId]
    BY <1>6, GotoType DEF BeginCommit, PC
  <2>2. /\ commitState' \in [Upload -> RowStates \cup {"none", "deleted"}]
        /\ commitBlob' \in [Upload -> BlobId] /\ stagedKey' \in [Upload -> BOOLEAN]
    <3>1. BlobOf(Content(u)) \in BlobId
      BY BlobOfFinds
    <3>2. \/ /\ commitState' = [commitState EXCEPT ![u] = "finalizing"]
             /\ commitBlob' = [commitBlob EXCEPT ![u] = BlobOf(Content(u))]
             /\ UNCHANGED stagedKey
          \/ /\ commitState' = [commitState EXCEPT ![u] = "commit_started"]
             /\ commitBlob' = [commitBlob EXCEPT ![u] = u]
             /\ stagedKey' = [stagedKey EXCEPT ![u] = TRUE]
      BY <1>6 DEF BeginCommit, CommitStarted, Finalizing
    <3> commitState \in [Upload -> RowStates \cup {"none", "deleted"}]
      BY DEF TypeOK
    <3>3. commitState' \in [Upload -> RowStates \cup {"none", "deleted"}]
      BY <3>2
    <3>4. commitBlob' \in [Upload -> BlobId]
      <4>1. PICK b \in BlobId : commitBlob' = [commitBlob EXCEPT ![u] = b]
        BY <3>1, <3>2
      <4>2. commitBlob \in [Upload -> BlobId]
        BY DEF TypeOK
      <4> QED
        BY <4>1, <4>2
    <3>5. stagedKey' \in [Upload -> BOOLEAN]
      BY <3>2 DEF TypeOK
    <3> QED
      BY <3>3, <3>4, <3>5
  <2> QED
    BY <1>6, <2>1, <2>2 DEF BeginCommit, TypeOK, fileVars, gcVars, sweepVars
<1>9. ASSUME NEW u \in Upload,
             \/ Resume(u) \/ ReadReceipt(u) \/ ResumeCleanup(u) \/ InspectStarted(u)
             \/ InspectFinal(u) \/ InspectPublished(u)
             \/ ValidateCandidate(u) \/ ValidateReceipt(u) \/ MetadataGone(u)
      PROVE  TypeOK'
  <2>1. \E from, to \in PC : Goto(u, from, to)
    <3>1. CASE Resume(u) \/ ReadReceipt(u) \/ ResumeCleanup(u)
      BY <3>1 DEF Resume, ReadReceipt, ResumeCleanup, RestartPoint, PC
    <3>2. CASE InspectStarted(u)
      BY <3>2 DEF InspectStarted, PC
    <3>3. CASE InspectFinal(u)
      BY <3>3 DEF InspectFinal, PC
    <3>4. CASE InspectPublished(u) \/ ValidateReceipt(u) \/ MetadataGone(u)
      BY <3>4 DEF InspectPublished, ValidateReceipt, MetadataGone, PC
    <3>5. CASE ValidateCandidate(u)
      BY <3>5 DEF ValidateCandidate, PC
    <3> QED
      BY <1>9, <3>1, <3>2, <3>3, <3>4, <3>5
  <2>2. pc' \in [Upload -> PC] /\ candidate' \in [Upload -> BlobId]
    BY <2>1, GotoType
  <2>3. Moves
    BY <1>9
       DEF Resume, ReadReceipt, ResumeCleanup, InspectStarted, InspectFinal,
           InspectPublished, ValidateCandidate, ValidateReceipt, MetadataGone
  <2> QED
    BY <2>2, <2>3 DEF TypeOK, Moves, dbVars, fileVars, gcVars, sweepVars
<1>10. ASSUME NEW u \in Upload,
              AssembleCreate(u) \/ AssembleFinish(u) \/ RemoveStage(u)
       PROVE  TypeOK'
  <2>1. pc' \in [Upload -> PC] /\ candidate' \in [Upload -> BlobId]
    BY <1>10, GotoType DEF AssembleCreate, AssembleFinish, RemoveStage, PC
  <2>2. stage' \in [Upload -> {"missing", "partial", "good"}]
    BY <1>10 DEF AssembleCreate, AssembleFinish, RemoveStage, Written, TypeOK
  <2> QED
    BY <1>10, <2>1, <2>2
       DEF AssembleCreate, AssembleFinish, RemoveStage, TypeOK, dbVars, gcVars, sweepVars
<1>11. ASSUME NEW u \in Upload, ToFinalizing(u) PROVE TypeOK'
  <2>1. pc' \in [Upload -> PC] /\ candidate' \in [Upload -> BlobId]
    BY <1>11, GotoType DEF ToFinalizing, PC
  <2> QED
    BY <1>11, <2>1 DEF ToFinalizing, TypeOK, Finalizing, fileVars, gcVars, sweepVars
<1>12. ASSUME NEW u \in Upload, Publish(u) PROVE TypeOK'
  <2>1. pc' \in [Upload -> PC] /\ candidate' \in [Upload -> BlobId]
    BY <1>12, GotoType DEF Publish, PC
  <2>2. object' \in [Contents -> {"missing", "good", "bad"}]
    BY <1>12 DEF Publish, TypeOK
  <2> QED
    BY <1>12, <2>1, <2>2 DEF Publish, TypeOK, dbVars, gcVars, sweepVars
<1>13. ASSUME NEW u \in Upload, LoadCandidate(u) PROVE TypeOK'
  BY <1>13, BlobOfFinds
     DEF LoadCandidate, TypeOK, PC, Moves, dbVars, fileVars, gcVars, sweepVars
<1>14. ASSUME NEW u \in Upload, MetadataRetry(u) PROVE TypeOK'
  BY <1>14, BlobOfFinds
     DEF MetadataRetry, ActualBlob, TypeOK, PC, Moves, dbVars, fileVars, gcVars, sweepVars
<1>15. ASSUME NEW u \in Upload, MetadataSuperseded(u) PROVE TypeOK'
  <2>1. ActualBlob(u) \in Upload
    BY <1>15, ActualBlobFits DEF MetadataSuperseded, Finalizing, IInv
  <2> QED
    BY <1>15, <2>1
       DEF MetadataSuperseded, BlobOfSuperseded, TypeOK, Goto, PC, fileVars, gcVars, sweepVars
<1>16. ASSUME NEW u \in Upload, MetadataCommit(u) PROVE TypeOK'
  <2>1. ActualBlob(u) \in Upload
    BY <1>16, ActualBlobFits DEF MetadataCommit, Finalizing, IInv
  <2>2. pc' \in [Upload -> PC] /\ candidate' \in [Upload -> BlobId]
    BY <1>16 DEF MetadataCommit, TypeOK, Goto, PC
  <2>3. resource' \in [Slots -> BlobId] /\ shown' \in [Slots -> Nat]
    <3>1. u \in Nat
      OBVIOUS
    <3> QED
      BY <1>16, <2>1, <3>1 DEF MetadataCommit, TypeOK
  <2> QED
    BY <1>16, <2>1, <2>2, <2>3
       DEF MetadataCommit, TypeOK, Committed, fileVars, gcVars, sweepVars
<1>17. ASSUME NEW u \in Upload, ClearStagedKey(u) PROVE TypeOK'
  BY <1>17 DEF ClearStagedKey, TypeOK, Goto, PC, fileVars, gcVars, sweepVars
<1>18. ASSUME NEW u \in Upload, Mark(u) PROVE TypeOK'
  BY <1>18 DEF Mark, TypeOK, Goto, PC, fileVars, gcVars, sweepVars
<1>19. ASSUME NEW a \in Assets, SetTrashed(a) PROVE TypeOK'
  BY <1>19 DEF SetTrashed, TypeOK, fileVars, procVars, runVars, gcVars, sweepVars
<1>20. ASSUME NEW a \in Assets, DeletePermanently(a) PROVE TypeOK'
  <2>1. commitState' \in [Upload -> RowStates \cup {"none", "deleted"}]
    BY <1>20 DEF DeletePermanently, TypeOK
  <2>2. resource' \in [Slots -> BlobId] /\ shown' \in [Slots -> Nat]
    BY <1>20 DEF DeletePermanently, TypeOK
  <2>3. asset' \in [Assets -> {"absent", "live", "trashed"}] /\ reconciling' \in BOOLEAN
    BY <1>20 DEF DeletePermanently, TypeOK
  <2> QED
    BY <1>20, <2>1, <2>2, <2>3
       DEF DeletePermanently, TypeOK, fileVars, runVars, gcVars, sweepVars
<1>21. ASSUME NEW b \in Upload, GcDelete(b) PROVE TypeOK'
  BY <1>21 DEF GcDelete, TypeOK, dbVars, fileVars, runVars, sweepVars
<1>22. ASSUME GcUnlink PROVE TypeOK'
  BY <1>22 DEF GcUnlink, TypeOK, dbVars, runVars, sweepVars
<1>23. ASSUME GcCommit \/ GcRollback PROVE TypeOK'
  <2>1. blobs' \subseteq Upload /\ faults' \in Nat
    BY <1>0, <1>23, FaultType DEF GcCommit, GcRollback, dbVars
  <2> QED
    BY <1>23, <2>1 DEF GcCommit, GcRollback, TypeOK, dbVars, fileVars, runVars, sweepVars
<1>24. ASSUME SweepRead \/ SweepList \/ SweepEnd PROVE TypeOK'
  BY <1>24
     DEF SweepRead, SweepList, SweepEnd, ReferencedKeys, TypeOK, dbVars, fileVars, runVars, gcVars
<1>25. ASSUME NEW u \in Upload, SweepRemove(u) PROVE TypeOK'
  BY <1>25 DEF SweepRemove, TypeOK, dbVars, runVars, gcVars
<1>26. CASE Serve
  BY <1>26 DEF Serve, TypeOK, dbVars, fileVars, runVars, gcVars
<1>27. ASSUME NEW u \in Upload, Abandon(u) PROVE TypeOK'
  <2>1. pc' \in [Upload -> PC] /\ candidate' \in [Upload -> BlobId]
    BY <1>27 DEF Abandon, TypeOK, Goto, PC
  <2>2. stage' \in [Upload -> {"missing", "partial", "good"}] /\ faults' \in Nat
    BY <1>27 DEF Abandon, Fault, TypeOK
  <2> QED
    BY <1>27, <2>1, <2>2 DEF Abandon, TypeOK, dbVars, gcVars, sweepVars
<1>28. ASSUME NEW u \in Upload, InspectionFails(u) PROVE TypeOK'
  BY <1>28 DEF InspectionFails, Fault, TypeOK, Goto, PC, dbVars, fileVars, gcVars, sweepVars
<1>29. CASE Crash
  <2>1. pc' \in [Upload -> PC] /\ candidate' \in [Upload -> BlobId] /\ faults' \in Nat
    BY <1>29 DEF Crash, Fault, TypeOK, PC
  <2> QED
    BY <1>29, <2>1 DEF Crash, TypeOK, dbVars, fileVars
<1>30. CASE Damage
  <2>1. faults' \in Nat
    BY <1>0, <1>30, FaultType DEF Damage
  <2>3. damaged' \subseteq Upload
    BY <1>0, <1>30 DEF Damage
  <2>2. object' \in [Contents -> {"missing", "good", "bad"}]
    BY <1>30 DEF Damage, TypeOK
  <2> QED
    BY <1>30, <2>1, <2>2, <2>3
       DEF Damage, TypeOK, dbVars, procVars, runVars, gcVars, sweepVars
<1>31. CASE UNCHANGED vars
  BY <1>31
     DEF TypeOK, vars, dbVars, fileVars, procVars, runVars, gcVars, sweepVars
<1> QED
  BY <1>1, <1>2, <1>3, <1>4, <1>5, <1>6, <1>9, <1>10, <1>11, <1>12,
     <1>13, <1>14, <1>15, <1>16, <1>17, <1>18, <1>19, <1>20, <1>21, <1>22, <1>23,
     <1>24, <1>25, <1>26, <1>27, <1>28, <1>29, <1>30, <1>31
     DEF Next, CreateStep, UploadStep, CompletionStep, LibraryStep, SweepStep, FaultStep

-----------------------------------------------------------------------------
(***************************************************************************)
(* The rest of the invariant, one lemma for each action that writes the    *)
(* rows it speaks of.  Most steps write none: they only move a completion, *)
(* touch files or let go of memory.                                        *)
(***************************************************************************)
Rest ==
  /\ RowsKnown /\ BlobsKnown /\ BlobsDistinct /\ ProposalsMatch
  /\ StartedIsStaged /\ ReclaimedIsUnreferenced /\ DedupMatches
  /\ BlobReferencesHold /\ ShownIsNewest

LEMMA NewestStays ==
  ASSUME Rest, UNCHANGED <<request, shown>>,
         \A u \in Upload : /\ commitState[u] = "none" => commitState'[u] = "none"
                           /\ commitState'[u] = "committed" => commitState[u] = "committed"
  PROVE  ShownIsNewest'
BY DEF Rest, ShownIsNewest, SlotOf, Committed

LEMMA SilentStep ==
  ASSUME TypeOK, Rest, dedup' \subseteq dedup, gcBlob' \in {gcBlob, NoBlob},
         UNCHANGED <<commitState, request, stagedKey, commitBlob, blobs,
                     resource, next, shown>>
  PROVE  Rest'
<1>1. RowsKnown' /\ BlobsKnown'
  BY DEF Rest, RowsKnown, BlobsKnown
<1>2. BlobsDistinct' /\ ProposalsMatch'
  BY DEF Rest, BlobsDistinct, ProposalsMatch, Content
<1>3. StartedIsStaged' /\ DedupMatches'
  BY DEF Rest, StartedIsStaged, DedupMatches, Content
<1>4. ReclaimedIsUnreferenced'
  BY DEF Rest, ReclaimedIsUnreferenced, Unreferenced, Exists
<1>5. BlobReferencesHold' /\ ShownIsNewest'
  BY NewestStays DEF Rest, BlobReferencesHold
<1> QED
  BY <1>1, <1>2, <1>3, <1>4, <1>5 DEF Rest

LEMMA CreateKeepsRest ==
  ASSUME TypeOK, Rest, NEW r \in Requests, CreateUpload(r)
  PROVE  Rest'
<1> USE DEF Upload, Receiving, Committed, Finalizing
<1>1. /\ next \in Upload /\ next' = next + 1 /\ gcBlob' = NoBlob
      /\ commitState' = [commitState EXCEPT ![next] = "receiving"]
      /\ request' = [request EXCEPT ![next] = r]
      /\ UNCHANGED <<stagedKey, commitBlob, blobs, resource, dedup, shown>>
  BY DEF CreateUpload, TypeOK, WriteLockFree, procVars, gcVars
<1>2. \A u \in Upload : u # next =>
        /\ commitState'[u] = commitState[u] /\ request'[u] = request[u]
  BY <1>1 DEF TypeOK
<1>3. commitState'[next] = "receiving" /\ request'[next] = r
  BY <1>1 DEF TypeOK
<1>4. RowsKnown'
  BY <1>1, <1>2, <1>3, BoundsAssumption DEF Rest, RowsKnown
<1>5. BlobsKnown' /\ BlobsDistinct'
  BY <1>1, <1>2, BoundsAssumption DEF Rest, BlobsKnown, BlobsDistinct, Content, TypeOK
<1>6. ProposalsMatch'
  BY <1>1, <1>2, <1>3, BoundsAssumption DEF Rest, ProposalsMatch, Content
<1>7. StartedIsStaged'
  BY <1>1, <1>2, <1>3 DEF Rest, StartedIsStaged
<1>8. ReclaimedIsUnreferenced'
  BY <1>1 DEF ReclaimedIsUnreferenced
<1>9. DedupMatches'
  BY <1>1, <1>2, BoundsAssumption DEF Rest, DedupMatches, Content, TypeOK
<1>10. BlobReferencesHold'
  BY <1>1, <1>2, <1>3 DEF Rest, BlobReferencesHold
<1>11. ShownIsNewest'
  <2> SUFFICES ASSUME NEW u \in Upload, commitState'[u] = "committed"
               PROVE  shown'[SlotOf(u)'] >= u \/ shown'[SlotOf(u)'] = 0
    BY DEF ShownIsNewest
  <2>1. commitState[u] = "committed" /\ SlotOf(u)' = SlotOf(u)
    BY <1>2, <1>3 DEF SlotOf
  <2> QED
    BY <1>1, <2>1 DEF Rest, ShownIsNewest
<1> QED
  BY <1>4, <1>5, <1>6, <1>7, <1>8, <1>9, <1>10, <1>11 DEF Rest

LEMMA DedupInspectKeepsRest ==
  ASSUME TypeOK, Rest, NEW r \in Requests, DedupInspect(r)
  PROVE  Rest'
<1>1. /\ BlobOf(r.content) \in blobs /\ Content(BlobOf(r.content)) = r.content
      /\ dedup' = {[request |-> r, blob |-> BlobOf(r.content), number |-> next - 1]}
      /\ UNCHANGED <<commitState, request, stagedKey, commitBlob, blobs,
                     resource, next, shown, gcBlob>>
  BY BlobOfFinds DEF DedupInspect, dbVars, gcVars
<1>2. DedupMatches'
  <2>1. PICK b \in blobs : b = BlobOf(r.content)
    BY <1>1
  <2>2. \A d \in dedup' : d.blob = b /\ d.request = r
    BY <1>1, <2>1
  <2> QED
    BY <1>1, <2>1, <2>2 DEF Rest, BlobsKnown, DedupMatches, Content
<1>3. RowsKnown' /\ BlobsKnown' /\ BlobsDistinct' /\ ProposalsMatch'
  BY <1>1 DEF Rest, RowsKnown, BlobsKnown, BlobsDistinct, ProposalsMatch, Content
<1>4. StartedIsStaged' /\ ReclaimedIsUnreferenced'
  BY <1>1 DEF Rest, StartedIsStaged, ReclaimedIsUnreferenced, Unreferenced, Exists
<1>5. BlobReferencesHold' /\ ShownIsNewest'
  BY <1>1, NewestStays DEF Rest, BlobReferencesHold
<1> QED
  BY <1>2, <1>3, <1>4, <1>5 DEF Rest

LEMMA DedupCommitKeepsRest ==
  ASSUME TypeOK, Rest, NEW d \in dedup, DedupCommit(d)
  PROVE  Rest'
<1> USE DEF Committed, Finalizing
<1>1. /\ gcBlob' = NoBlob /\ dedup' \subseteq dedup
      /\ d.blob \in blobs
      /\ resource' = [resource EXCEPT ![Target(d)] = d.blob]
      /\ shown' \in {shown, [shown EXCEPT ![Target(d)] = 0]}
      /\ UNCHANGED <<commitState, request, stagedKey, commitBlob, blobs, next>>
  BY DEF DedupCommit, BlobStillExists, WriteLockFree, gcVars
<1>2. \A s \in Slots : shown'[s] \in {shown[s], 0}
  BY <1>1 DEF TypeOK
<1>3. RowsKnown' /\ BlobsKnown' /\ BlobsDistinct'
  BY <1>1 DEF Rest, RowsKnown, BlobsKnown, BlobsDistinct, Content
<1>4. ProposalsMatch' /\ StartedIsStaged' /\ ReclaimedIsUnreferenced'
  BY <1>1
     DEF Rest, ProposalsMatch, StartedIsStaged, ReclaimedIsUnreferenced, Content
<1>5. DedupMatches'
  BY <1>1 DEF Rest, DedupMatches, Content
<1>6. BlobReferencesHold'
  <2>1. \A s \in Slots : resource'[s] \in {resource[s], d.blob}
    BY <1>1 DEF TypeOK
  <2> QED
    BY <1>1, <2>1 DEF Rest, BlobReferencesHold
<1>7. ShownIsNewest'
  <2> SUFFICES ASSUME NEW u \in Upload, commitState[u] = "committed"
               PROVE  shown'[SlotOf(u)] >= u \/ shown'[SlotOf(u)] = 0
    BY <1>1 DEF ShownIsNewest, SlotOf
  <2>1. SlotOf(u) \in Slots
    BY RequestParts DEF Rest, RowsKnown
  <2> QED
    BY <1>2, <2>1 DEF Rest, ShownIsNewest
<1> QED
  BY <1>3, <1>4, <1>5, <1>6, <1>7 DEF Rest

LEMMA BeginKeepsRest ==
  ASSUME TypeOK, Rest, NEW u \in Upload, BeginCommit(u)
  PROVE  Rest'
<1> USE DEF Receiving, CommitStarted, Committed, Finalizing
<1> DEFINE b == commitBlob'[u]
<1>1. /\ gcBlob' = NoBlob /\ commitState[u] = "receiving"
      /\ UNCHANGED <<request, blobs, resource, next, dedup, shown>>
  BY DEF BeginCommit, WriteLockFree, gcVars
<1>2. /\ u < next /\ request[u] \in Requests /\ u \in Upload
  BY <1>1 DEF Rest, RowsKnown
<1>3. \/ /\ commitState' = [commitState EXCEPT ![u] = "finalizing"]
         /\ b \in blobs /\ Content(b) = Content(u)
         /\ UNCHANGED stagedKey
      \/ /\ commitState' = [commitState EXCEPT ![u] = "commit_started"]
         /\ b = u
         /\ stagedKey' = [stagedKey EXCEPT ![u] = TRUE]
  BY BlobOfFinds DEF BeginCommit, TypeOK
<1>4. \A v \in Upload : v # u =>
        /\ commitState'[v] = commitState[v] /\ commitBlob'[v] = commitBlob[v]
        /\ stagedKey'[v] = stagedKey[v]
  BY DEF BeginCommit, TypeOK
<1>5. /\ commitState'[u] \in {"finalizing", "commit_started"}
      /\ commitState'[u] = "finalizing" => b \in blobs
      /\ commitState'[u] = "commit_started" => stagedKey'[u]
  BY <1>3 DEF TypeOK
<1>6. b \in Upload /\ b < next /\ request[b] \in Requests /\ Content(b) = Content(u)
  BY <1>2, <1>3 DEF Rest, BlobsKnown, TypeOK
<1>7. RowsKnown' /\ BlobsKnown' /\ BlobsDistinct'
  BY <1>1, <1>2, <1>4 DEF Rest, RowsKnown, BlobsKnown, BlobsDistinct, Content
<1>8. ProposalsMatch'
  BY <1>1, <1>4, <1>6 DEF Rest, ProposalsMatch, Content
<1>9. StartedIsStaged' /\ ReclaimedIsUnreferenced' /\ DedupMatches'
  BY <1>1, <1>4, <1>5
     DEF Rest, StartedIsStaged, ReclaimedIsUnreferenced, DedupMatches, Content
<1>10. BlobReferencesHold'
  BY <1>1, <1>4, <1>5 DEF Rest, BlobReferencesHold
<1>11. ShownIsNewest'
  BY <1>1, <1>4, <1>5, NewestStays
<1> QED
  BY <1>7, <1>8, <1>9, <1>10, <1>11 DEF Rest

\* Moving a row to finalizing, failed or unknown, or letting go of its staged
\* file: nothing else changes.
LEMMA RowStepKeepsRest ==
  ASSUME TypeOK, Rest, NEW u \in Upload,
         ToFinalizing(u) \/ Mark(u) \/ ClearStagedKey(u)
  PROVE  Rest'
<1> USE DEF CommitStarted, Committed, Finalizing
<1>1. /\ gcBlob' = NoBlob
      /\ UNCHANGED <<request, commitBlob, blobs, resource, next, dedup, shown>>
  BY DEF ToFinalizing, Mark, ClearStagedKey, WriteLockFree, gcVars
<1>2. \A v \in Upload : v # u =>
        commitState'[v] = commitState[v] /\ stagedKey'[v] = stagedKey[v]
  BY DEF ToFinalizing, Mark, ClearStagedKey, TypeOK
<1>3. \/ commitState'[u] = commitState[u] /\ stagedKey'[u] = stagedKey[u]
      \/ commitState'[u] = commitState[u] /\ commitState[u] = "committed"
      \/ /\ commitState[u] = "commit_started" /\ commitState'[u] = "finalizing"
         /\ stagedKey'[u] = stagedKey[u]
      \/ Exists(u) /\ commitState'[u] \in {"unknown", "failed"}
  <2>1. CASE ToFinalizing(u)
    BY <2>1 DEF ToFinalizing, TypeOK
  <2>2. CASE Mark(u)
    BY <2>2 DEF Mark, TypeOK
  <2>3. CASE ClearStagedKey(u)
    BY <2>3 DEF ClearStagedKey, TypeOK
  <2> QED
    BY <2>1, <2>2, <2>3
<1>4. RowsKnown'
  BY <1>1, <1>2, <1>3 DEF Rest, RowsKnown, Exists, RowStates
<1>5. BlobsKnown' /\ BlobsDistinct' /\ DedupMatches' /\ ReclaimedIsUnreferenced'
  BY <1>1 DEF Rest, BlobsKnown, BlobsDistinct, DedupMatches, ReclaimedIsUnreferenced, Content
<1>6. ProposalsMatch'
  BY <1>1, <1>2, <1>3 DEF Rest, ProposalsMatch, Content
<1>7. StartedIsStaged'
  BY <1>2, <1>3 DEF Rest, StartedIsStaged
<1>8. BlobReferencesHold'
  BY <1>1, <1>2, <1>3 DEF Rest, BlobReferencesHold, StartedIsStaged
<1>9. ShownIsNewest'
  BY <1>1, <1>2, <1>3, NewestStays DEF Exists, RowStates
<1> QED
  BY <1>4, <1>5, <1>6, <1>7, <1>8, <1>9 DEF Rest

LEMMA SupersededKeepsRest ==
  ASSUME TypeOK, Rest, NEW u \in Upload, MetadataSuperseded(u)
  PROVE  Rest'
<1> USE DEF Committed, Finalizing
<1> DEFINE b == ActualBlob(u)
<1>1. /\ gcBlob' = NoBlob /\ commitState[u] = "finalizing"
      /\ blobs' = blobs \cup {b}
      /\ UNCHANGED <<request, resource, next, dedup, shown>>
  BY DEF MetadataSuperseded, WriteLockFree, gcVars
<1>2. /\ b \in Upload /\ b < next /\ request[b] \in Requests
      /\ \A x \in blobs : Content(x) = Content(b) => x = b
  BY <1>1, ActualBlobFits DEF Rest
<1>3. /\ commitState'[u] = "failed"
      /\ \A v \in Upload : v # u =>
           /\ commitState'[v] = commitState[v] /\ commitBlob'[v] = commitBlob[v]
           /\ stagedKey'[v] = stagedKey[v]
  BY DEF MetadataSuperseded, TypeOK
<1>4. RowsKnown'
  BY <1>1, <1>3 DEF Rest, RowsKnown
<1>5. BlobsKnown' /\ BlobsDistinct'
  BY <1>1, <1>2 DEF Rest, BlobsKnown, BlobsDistinct, Content
<1>6. ProposalsMatch' /\ StartedIsStaged'
  BY <1>1, <1>3 DEF Rest, ProposalsMatch, StartedIsStaged, Content
<1>7. DedupMatches' /\ ReclaimedIsUnreferenced'
  BY <1>1 DEF Rest, DedupMatches, ReclaimedIsUnreferenced, Content
<1>8. BlobReferencesHold'
  BY <1>1, <1>3 DEF Rest, BlobReferencesHold
<1>9. ShownIsNewest'
  BY <1>1, <1>3, NewestStays
<1> QED
  BY <1>4, <1>5, <1>6, <1>7, <1>8, <1>9 DEF Rest

LEMMA CommitKeepsRest ==
  ASSUME TypeOK, Rest, NEW u \in Upload, MetadataCommit(u)
  PROVE  Rest'
<1> USE DEF Committed, Finalizing
<1> DEFINE b == ActualBlob(u)
<1>1. /\ gcBlob' = NoBlob /\ commitState[u] = "finalizing" /\ ~Superseded(u)
      /\ blobs' = blobs \cup {b}
      /\ resource' = [resource EXCEPT ![SlotOf(u)] = b]
      /\ shown' = [shown EXCEPT ![SlotOf(u)] = u]
      /\ UNCHANGED <<request, stagedKey, next, dedup>>
  BY DEF MetadataCommit, WriteLockFree, gcVars
<1>2. /\ b \in Upload /\ b < next /\ request[b] \in Requests
      /\ Content(b) = Content(u)
      /\ \A x \in blobs : Content(x) = Content(b) => x = b
  BY <1>1, ActualBlobFits DEF Rest
<1>3. /\ commitState'[u] = "committed" /\ commitBlob'[u] = b
      /\ \A v \in Upload : v # u =>
           commitState'[v] = commitState[v] /\ commitBlob'[v] = commitBlob[v]
  BY DEF MetadataCommit, TypeOK
<1>4. RowsKnown'
  BY <1>1, <1>3 DEF Rest, RowsKnown
<1>5. BlobsKnown' /\ BlobsDistinct'
  BY <1>1, <1>2 DEF Rest, BlobsKnown, BlobsDistinct, Content
<1>6. ProposalsMatch' /\ StartedIsStaged'
  BY <1>1, <1>2, <1>3 DEF Rest, ProposalsMatch, StartedIsStaged, Content
<1>7. DedupMatches' /\ ReclaimedIsUnreferenced'
  BY <1>1 DEF Rest, DedupMatches, ReclaimedIsUnreferenced, Content
<1>8. BlobReferencesHold'
  <2>1. \A s \in Slots : resource'[s] \in {resource[s], b}
    BY <1>1 DEF TypeOK
  <2> QED
    BY <1>1, <1>3, <2>1 DEF Rest, BlobReferencesHold
<1>9. ShownIsNewest'
  <2>1. ASSUME NEW v \in Upload, commitState'[v] = "committed"
        PROVE  shown'[SlotOf(v)] >= v \/ shown'[SlotOf(v)] = 0
    <3>1. request[v] \in Requests
      BY <1>1, <1>3, <2>1 DEF Rest, RowsKnown
    <3>2. SlotOf(v) \in Slots /\ v \in Nat /\ u \in Nat
      BY <3>1, RequestParts, BoundsAssumption DEF Upload
    <3>3. CASE SlotOf(v) = SlotOf(u)
      <4>1. ~(v > u)
        BY <1>1, <1>3, <2>1, <3>2, <3>3 DEF Superseded
      <4>2. shown'[SlotOf(v)] = u
        BY <1>1, <3>2, <3>3 DEF TypeOK
      <4> QED
        BY <3>2, <4>1, <4>2
    <3>4. CASE SlotOf(v) # SlotOf(u)
      <4>1. shown'[SlotOf(v)] = shown[SlotOf(v)]
        BY <1>1, <3>4 DEF TypeOK
      <4>2. commitState[v] = "committed"
        BY <1>3, <2>1, <3>4
      <4>3. SlotOf(v)' = SlotOf(v)
        BY <1>1 DEF SlotOf
      <4> QED
        BY <1>1, <1>3, <4>1, <4>2, <4>3 DEF Rest, ShownIsNewest
    <3> QED
      BY <3>3, <3>4
  <2> QED
    BY <1>1, <2>1 DEF ShownIsNewest, SlotOf
<1> QED
  BY <1>4, <1>5, <1>6, <1>7, <1>8, <1>9 DEF Rest

LEMMA DeleteKeepsRest ==
  ASSUME TypeOK, Rest, NEW a \in Assets, DeletePermanently(a)
  PROVE  Rest'
<1> USE DEF Committed, Finalizing
<1>1. /\ gcBlob' = NoBlob
      /\ resource' = [s \in Slots |-> IF s[1] = a THEN NoBlob ELSE resource[s]]
      /\ shown' = [s \in Slots |-> IF s[1] = a THEN 0 ELSE shown[s]]
      /\ UNCHANGED <<request, stagedKey, commitBlob, blobs, next, dedup>>
  BY DEF DeletePermanently, WriteLockFree, gcVars
<1>2. \A u \in Upload :
        commitState'[u] = IF u \in UploadsOf(a) THEN "deleted" ELSE commitState[u]
  BY DEF DeletePermanently
<1>3. \A u \in Upload : u \in UploadsOf(a) => commitState[u] # "none"
  BY DEF UploadsOf, Exists, RowStates
<1>4. RowsKnown'
  BY <1>1, <1>2, <1>3 DEF Rest, RowsKnown
<1>5. BlobsKnown' /\ BlobsDistinct' /\ DedupMatches' /\ ReclaimedIsUnreferenced'
  BY <1>1 DEF Rest, BlobsKnown, BlobsDistinct, DedupMatches, ReclaimedIsUnreferenced, Content
<1>6. ProposalsMatch' /\ StartedIsStaged'
  BY <1>1, <1>2 DEF Rest, ProposalsMatch, StartedIsStaged, Content
<1>7. BlobReferencesHold'
  BY <1>1, <1>2 DEF Rest, BlobReferencesHold
<1>8. ShownIsNewest'
  <2>1. ASSUME NEW u \in Upload, commitState'[u] = "committed"
        PROVE  shown'[SlotOf(u)] >= u \/ shown'[SlotOf(u)] = 0
    <3>1. commitState[u] = "committed" /\ u \notin UploadsOf(a)
      BY <1>2, <2>1
    <3>2. request[u] \in Requests /\ request[u].asset # a
      BY <3>1 DEF Rest, RowsKnown, UploadsOf, Exists, RowStates
    <3>3. shown'[SlotOf(u)] = shown[SlotOf(u)]
      BY <1>1, <3>2, RequestParts
    <3>4. SlotOf(u)' = SlotOf(u)
      BY <1>1 DEF SlotOf
    <3> QED
      BY <1>2, <1>3, <3>1, <3>3, <3>4 DEF Rest, ShownIsNewest
  <2> QED
    BY <1>1, <2>1 DEF ShownIsNewest, SlotOf
<1> QED
  BY <1>4, <1>5, <1>6, <1>7, <1>8 DEF Rest

LEMMA GcDeleteKeepsRest ==
  ASSUME TypeOK, Rest, NEW b \in Upload, GcDelete(b)
  PROVE  Rest'
<1>1. /\ gcBlob' = b /\ b \in blobs /\ Unreferenced(b)
      /\ UNCHANGED <<commitState, request, stagedKey, commitBlob, blobs,
                     resource, next, shown, dedup>>
  BY DEF GcDelete, dbVars
<1>2. ReclaimedIsUnreferenced'
  BY <1>1 DEF ReclaimedIsUnreferenced, Unreferenced, Exists
<1>3. RowsKnown' /\ BlobsKnown' /\ BlobsDistinct' /\ ProposalsMatch'
  BY <1>1 DEF Rest, RowsKnown, BlobsKnown, BlobsDistinct, ProposalsMatch, Content
<1>4. StartedIsStaged' /\ DedupMatches'
  BY <1>1 DEF Rest, StartedIsStaged, DedupMatches, Content
<1>5. BlobReferencesHold' /\ ShownIsNewest'
  BY <1>1, NewestStays DEF Rest, BlobReferencesHold
<1> QED
  BY <1>2, <1>3, <1>4, <1>5 DEF Rest

\* The deleted row was unreferenced when it was chosen, and the write lock kept
\* it so.  (GcCommit needs a chosen row; gcUnlinked alone does not say there is
\* one, so the case without one is settled first: nothing is removed.)
LEMMA GcCommitKeepsRest ==
  ASSUME TypeOK, Rest, GcCommit
  PROVE  Rest'
<1> USE DEF Committed, Finalizing
<1>1. /\ gcBlob' = NoBlob /\ blobs' = blobs \ {gcBlob}
      /\ UNCHANGED <<commitState, request, stagedKey, commitBlob, resource,
                     next, shown, dedup>>
  BY DEF GcCommit
<1>2. gcBlob = NoBlob => blobs' = blobs
  BY <1>1, BoundsAssumption DEF TypeOK, Upload, NoBlob
<1>3. RowsKnown' /\ BlobsKnown' /\ BlobsDistinct' /\ ProposalsMatch'
  BY <1>1 DEF Rest, RowsKnown, BlobsKnown, BlobsDistinct, ProposalsMatch, Content
<1>4. StartedIsStaged' /\ DedupMatches' /\ ReclaimedIsUnreferenced'
  BY <1>1 DEF Rest, StartedIsStaged, DedupMatches, ReclaimedIsUnreferenced, Content
<1>5. BlobReferencesHold'
  <2>1. CASE gcBlob = NoBlob
    BY <1>1, <1>2, <2>1 DEF Rest, BlobReferencesHold
  <2>2. CASE gcBlob # NoBlob
    <3>1. Unreferenced(gcBlob)
      BY <2>2 DEF Rest, ReclaimedIsUnreferenced
    <3> QED
      BY <1>1, <3>1 DEF Rest, BlobReferencesHold, Unreferenced, Exists, RowStates
  <2> QED
    BY <2>1, <2>2
<1>6. ShownIsNewest'
  BY <1>1, NewestStays
<1> QED
  BY <1>3, <1>4, <1>5, <1>6 DEF Rest

-----------------------------------------------------------------------------
(***************************************************************************)
(* Every step keeps the invariant, and what follows from it.               *)
(***************************************************************************)
LEMMA RestStep ==
  ASSUME TypeOK, Rest, [Next]_vars
  PROVE  Rest'
<1> DEFINE Silent ==
      /\ dedup' \subseteq dedup /\ gcBlob' \in {gcBlob, NoBlob}
      /\ UNCHANGED <<commitState, request, stagedKey, commitBlob, blobs,
                     resource, next, shown>>
<1>0. Silent => Rest'
  BY SilentStep
<1>1. CASE CreateStep
  <2>1. ASSUME NEW d \in dedup, DedupReject(d) PROVE Silent
    BY <2>1 DEF DedupReject, dbVars, gcVars
  <2> QED
    BY <1>0, <1>1, <2>1, CreateKeepsRest, DedupInspectKeepsRest, DedupCommitKeepsRest
       DEF CreateStep
<1>2. ASSUME NEW u \in Upload, UploadStep(u) PROVE Rest'
  <2>1. CASE ReceiveParts(u)
    <3>1. Silent
      BY <2>1 DEF ReceiveParts, procVars, gcVars
    <3> QED
      BY <1>0, <3>1
  <2>2. CASE Moves
    <3>1. Silent
      BY <2>2 DEF Moves, dbVars, gcVars
    <3> QED
      BY <1>0, <3>1
  <2>3. Resume(u) \/ ReadReceipt(u) \/ ResumeCleanup(u) => Moves
    BY DEF Resume, ReadReceipt, ResumeCleanup
  <2>4. /\ InspectStarted(u) \/ InspectFinal(u) \/ InspectPublished(u) => Moves
        /\ LoadCandidate(u) \/ ValidateCandidate(u) \/ ValidateReceipt(u) => Moves
        /\ MetadataRetry(u) \/ MetadataGone(u) => Moves
    BY DEF InspectStarted, InspectFinal, InspectPublished, LoadCandidate,
           ValidateCandidate, ValidateReceipt, MetadataRetry, MetadataGone
  <2>5. CASE AssembleCreate(u) \/ AssembleFinish(u) \/ Publish(u) \/ RemoveStage(u)
    <3>1. Silent
      BY <2>5 DEF AssembleCreate, AssembleFinish, Publish, RemoveStage, dbVars, gcVars
    <3> QED
      BY <1>0, <3>1
  <2> QED
    BY <1>2, <2>1, <2>2, <2>3, <2>4, <2>5, BeginKeepsRest, RowStepKeepsRest,
       SupersededKeepsRest, CommitKeepsRest
       DEF UploadStep, CompletionStep
<1>3. CASE LibraryStep
  <2>1. ASSUME NEW a \in Assets, SetTrashed(a) PROVE Silent
    BY <2>1 DEF SetTrashed, procVars, gcVars
  <2>2. GcUnlink => Silent
    BY DEF GcUnlink, dbVars
  <2> QED
    BY <1>0, <1>3, <2>1, <2>2, DeleteKeepsRest, GcDeleteKeepsRest, GcCommitKeepsRest
       DEF LibraryStep
<1>4. CASE SweepStep \/ Serve \/ FaultStep
  <2>1. SweepStep => Silent
    BY DEF SweepStep, SweepRead, SweepList, SweepEnd, SweepRemove, dbVars, gcVars
  <2>2. Serve \/ GcRollback \/ Crash \/ Damage => Silent
    BY DEF Serve, GcRollback, Crash, Damage, dbVars, procVars, gcVars
  <2>3. ASSUME NEW u \in Upload, Abandon(u) \/ InspectionFails(u) PROVE Silent
    BY <2>3 DEF Abandon, InspectionFails, dbVars, gcVars
  <2> QED
    BY <1>0, <1>4, <2>1, <2>2, <2>3 DEF FaultStep
<1>5. CASE UNCHANGED vars
  <2>1. Silent
    BY <1>5 DEF vars, dbVars, procVars, gcVars
  <2> QED
    BY <1>0, <2>1
<1> QED
  BY <1>1, <1>2, <1>3, <1>4, <1>5 DEF Next

LEMMA InvStep == IInv /\ [Next]_vars => IInv'
<1> SUFFICES ASSUME IInv, [Next]_vars PROVE IInv'
  OBVIOUS
<1>1. TypeOK'
  BY TypeStep
<1>2. Rest'
  BY RestStep DEF IInv, Rest
<1> QED
  BY <1>1, <1>2 DEF IInv, Rest

LEMMA Invariance == Spec => []IInv
  BY InitInv, InvStep, PTL DEF Spec

\* Every variable keeps its type, for any number of uploads and failures.
THEOREM TypeCorrect == Spec => []TypeOK
<1>1. IInv => TypeOK
  BY DEF IInv
<1> QED
  BY <1>1, Invariance, PTL

\* No resource, receipt or adopted commit ever names a blob row that is not
\* there, whatever reclamation deletes meanwhile (reconcile_orphan_blobs).
THEOREM ReferencesHold == Spec => []BlobReferencesHold
<1>1. IInv => BlobReferencesHold
  BY DEF IInv
<1> QED
  BY <1>1, Invariance, PTL

\* A late completion of an older upload never replaces a newer committed one
\* (commit_metadata).
THEOREM NewestShown == Spec => []ShownIsNewest
<1>1. IInv => ShownIsNewest
  BY DEF IInv
<1> QED
  BY <1>1, Invariance, PTL

-----------------------------------------------------------------------------
(***************************************************************************)
(* Versions.  VersionNeverRegresses fails of a deduplicating create; that  *)
(* nothing else replaces the version of a committed upload by an older one *)
(* is what commit_metadata's check gives.                                  *)
(***************************************************************************)
\* Only a deduplicating create, a commit and a deletion change what a slot shows.
LEMMA ShownChange ==
  ASSUME [Next]_vars
  PROVE  \/ shown' = shown
         \/ \E d \in dedup : DedupCommit(d)
         \/ \E u \in Upload : MetadataCommit(u)
         \/ \E a \in Assets : DeletePermanently(a)
<1> USE DEF procVars
<1>1. CASE CreateStep
  BY <1>1 DEF CreateStep, CreateUpload, DedupInspect, DedupReject
<1>2. ASSUME NEW u \in Upload, UploadStep(u), ~MetadataCommit(u) PROVE shown' = shown
  <2>1. CASE ReceiveParts(u) \/ BeginCommit(u) \/ Resume(u) \/ ReadReceipt(u) \/ ResumeCleanup(u)
    BY <2>1 DEF ReceiveParts, BeginCommit, Resume, ReadReceipt, ResumeCleanup, Moves
  <2>2. CASE CompletionStep(u)
    BY <1>2, <2>2
       DEF CompletionStep, InspectStarted, AssembleCreate, AssembleFinish, ToFinalizing,
           InspectFinal, Publish, InspectPublished, LoadCandidate, ValidateCandidate,
           MetadataRetry, MetadataGone, MetadataSuperseded, RemoveStage, ClearStagedKey,
           ValidateReceipt, Mark, Moves
  <2> QED
    BY <1>2, <2>1, <2>2 DEF UploadStep
<1>3. CASE LibraryStep
  BY <1>3 DEF LibraryStep, SetTrashed, GcDelete, GcUnlink, GcCommit
<1>4. CASE SweepStep \/ Serve
  BY <1>4 DEF SweepStep, SweepRead, SweepList, SweepRemove, SweepEnd, Serve
<1>5. CASE FaultStep
  BY <1>5 DEF FaultStep, Abandon, InspectionFails, GcRollback, Crash, Damage
<1>6. CASE UNCHANGED vars
  BY <1>6 DEF vars
<1> QED
  BY <1>1, <1>2, <1>3, <1>4, <1>5, <1>6 DEF Next

\* A create that deduplicates attaches another blob to the slot of u.
Displaces(d, u) ==
  DedupCommit(d) /\ Target(d) = SlotOf(u) /\ resource[SlotOf(u)] # d.blob

LEMMA ReceiptNotReplaced ==
  ASSUME IInv, [Next]_vars, NEW u \in Upload, Showing(u),
         \A d \in dedup : ~Displaces(d, u)
  PROVE  shown'[SlotOf(u)] >= u \/ asset'[request[u].asset] = "absent"
<1>1. /\ request[u] \in Requests /\ SlotOf(u) \in Slots /\ u \in Nat
      /\ commitState[u] = Committed /\ shown[SlotOf(u)] = u
      /\ SlotOf(u)[1] = request[u].asset /\ request[u].asset \in Assets
  BY RequestParts, BoundsAssumption DEF IInv, RowsKnown, Showing, Upload, Committed
<1>2. shown \in [Slots -> Nat] /\ asset \in [Assets -> {"absent", "live", "trashed"}]
  BY DEF IInv, TypeOK
<1>3. ASSUME NEW v \in Upload, MetadataCommit(v) PROVE shown'[SlotOf(u)] >= u
  <2>1. shown' = [shown EXCEPT ![SlotOf(v)] = v] /\ ~Superseded(v)
    BY <1>3 DEF MetadataCommit
  <2>2. SlotOf(u) = SlotOf(v) => ~(u > v)
    BY <1>1, <2>1 DEF Superseded
  <2>3. v \in Nat
    BY BoundsAssumption DEF Upload
  <2> QED
    BY <1>1, <1>2, <2>1, <2>2, <2>3
<1>4. ASSUME NEW a \in Assets, DeletePermanently(a)
      PROVE  shown'[SlotOf(u)] >= u \/ asset'[request[u].asset] = "absent"
  <2>1. asset' = [asset EXCEPT ![a] = "absent"]
        /\ shown' = [s \in Slots |-> IF s[1] = a THEN 0 ELSE shown[s]]
    BY <1>4 DEF DeletePermanently
  <2> QED
    BY <1>1, <1>2, <2>1
<1>5. ASSUME NEW d \in dedup, DedupCommit(d) PROVE shown'[SlotOf(u)] >= u
  <2>1. CASE Target(d) = SlotOf(u)
    <3>1. resource[Target(d)] = d.blob
      BY <1>5, <2>1 DEF Displaces
    <3>2. shown' = shown
      BY <1>5, <3>1 DEF DedupCommit
    <3> QED
      BY <1>1, <3>2
  <2>2. CASE Target(d) # SlotOf(u)
    BY <1>1, <1>2, <1>5, <2>2 DEF DedupCommit
  <2> QED
    BY <2>1, <2>2
<1> QED
  BY <1>1, <1>3, <1>4, <1>5, ShownChange

\* The version of a committed upload gives way only to a newer upload, with its
\* asset, or to a create that attaches another blob to its slot: of all writes
\* the last alone escapes the check of commit_metadata, and dedup_regression
\* shows it attaching what an older request asked for.
THEOREM ReceiptedVersionStays ==
  Spec => [][\A u \in Upload : Showing(u) =>
               \/ shown'[SlotOf(u)] >= u \/ asset'[request[u].asset] = "absent"
               \/ \E d \in dedup : Displaces(d, u)]_vars
<1>1. IInv /\ [Next]_vars =>
        [\A u \in Upload : Showing(u) =>
           \/ shown'[SlotOf(u)] >= u \/ asset'[request[u].asset] = "absent"
           \/ \E d \in dedup : Displaces(d, u)]_vars
  BY ReceiptNotReplaced
<1> QED
  BY <1>1, Invariance, PTL DEF Spec

-----------------------------------------------------------------------------
(***************************************************************************)
(* What doctor thinks of receipts.  IInv says that the row a receipt names *)
(* is there and has its content; what is missing is that the slot shows    *)
(* the row of the upload it shows.  A slot gets another row only from a    *)
(* create, which leaves it showing no upload's version, from a deletion    *)
(* that takes the receipts with it, or from the upload itself.             *)
(***************************************************************************)
ReceiptsShown ==
  \A u \in Upload : commitState[u] = "committed" =>
    /\ complete[u] /\ resource[SlotOf(u)] # NoBlob
    /\ shown[SlotOf(u)] = u => resource[SlotOf(u)] = commitBlob[u]

LEMMA ReceiptsInit == Init => ReceiptsShown
BY DEF Init, ReceiptsShown

\* A step that writes nothing receipts are judged by, and commits nothing.
LEMMA ReceiptsQuiet ==
  ASSUME ReceiptsShown, UNCHANGED <<request, complete, commitBlob, resource, shown>>,
         \A u \in Upload : commitState'[u] = "committed" => commitState[u] = "committed"
  PROVE  ReceiptsShown'
BY DEF ReceiptsShown, SlotOf

\* A number that is drawn is not yet that of an upload.
LEMMA ReceiptsCreate ==
  ASSUME IInv, ReceiptsShown, NEW r \in Requests, CreateUpload(r)
  PROVE  ReceiptsShown'
<1>1. /\ next \in Upload
      /\ commitState' = [commitState EXCEPT ![next] = "receiving"]
      /\ request' = [request EXCEPT ![next] = r]
      /\ UNCHANGED <<complete, commitBlob, resource, shown>>
  BY DEF CreateUpload, Receiving, IInv, TypeOK, Upload
<1>2. \A u \in Upload : commitState'[u] = "committed" =>
        commitState[u] = "committed" /\ request'[u] = request[u]
  BY <1>1 DEF IInv, TypeOK
<1> QED
  BY <1>1, <1>2 DEF ReceiptsShown, SlotOf

LEMMA ReceiptsDedup ==
  ASSUME IInv, ReceiptsShown, NEW d \in dedup, DedupCommit(d)
  PROVE  ReceiptsShown'
<1>1. /\ resource' = [resource EXCEPT ![Target(d)] = d.blob]
      /\ shown' = IF resource[Target(d)] = d.blob THEN shown
                  ELSE [shown EXCEPT ![Target(d)] = 0]
      /\ UNCHANGED <<commitState, request, complete, commitBlob>>
  BY DEF DedupCommit
<1>2. ASSUME NEW u \in Upload, commitState[u] = "committed"
      PROVE  resource'[SlotOf(u)] # NoBlob
  <2>1. SlotOf(u) \in Slots
    BY <1>2, RequestParts DEF IInv, RowsKnown
  <2>2. resource'[SlotOf(u)] \in {resource[SlotOf(u)], d.blob}
    BY <1>1, <2>1 DEF IInv, TypeOK
  <2>3. d.blob # NoBlob
    BY DEF IInv, TypeOK, Upload, NoBlob
  <2> QED
    BY <1>2, <2>2, <2>3 DEF ReceiptsShown
<1>3. ASSUME NEW u \in Upload, commitState[u] = "committed", shown'[SlotOf(u)] = u
      PROVE  resource'[SlotOf(u)] = commitBlob[u]
  <2>1. SlotOf(u) \in Slots /\ u # 0
    BY <1>3, RequestParts, BoundsAssumption DEF IInv, RowsKnown, Upload
  <2>2. resource'[SlotOf(u)] = resource[SlotOf(u)] /\ shown'[SlotOf(u)] = shown[SlotOf(u)]
    <3>1. CASE Target(d) # SlotOf(u)
      BY <1>1, <2>1, <3>1 DEF IInv, TypeOK
    <3>2. CASE Target(d) = SlotOf(u)
      BY <1>1, <1>3, <2>1, <3>2 DEF IInv, TypeOK
    <3> QED
      BY <3>1, <3>2
  <2> QED
    BY <1>3, <2>2 DEF ReceiptsShown
<1> QED
  BY <1>1, <1>2, <1>3 DEF ReceiptsShown, SlotOf

LEMMA ReceiptsCommit ==
  ASSUME IInv, ReceiptsShown, NEW u \in Upload, MetadataCommit(u)
  PROVE  ReceiptsShown'
<1>1. /\ resource' = [resource EXCEPT ![SlotOf(u)] = ActualBlob(u)]
      /\ shown' = [shown EXCEPT ![SlotOf(u)] = u]
      /\ commitState' = [commitState EXCEPT ![u] = "committed"]
      /\ commitBlob' = [commitBlob EXCEPT ![u] = ActualBlob(u)]
      /\ complete' = [complete EXCEPT ![u] = TRUE] /\ request' = request
      /\ commitState[u] = "finalizing"
  BY DEF MetadataCommit, Committed, Finalizing
<1>2. SlotOf(u) \in Slots /\ ActualBlob(u) # NoBlob
  BY <1>1, RequestParts, ActualBlobFits DEF IInv, RowsKnown, Upload, NoBlob
<1>3. \A v : SlotOf(v)' = SlotOf(v)
  BY <1>1 DEF SlotOf
<1>4. ASSUME NEW v \in Upload, commitState'[v] = "committed"
      PROVE  /\ complete'[v] /\ resource'[SlotOf(v)] # NoBlob
             /\ shown'[SlotOf(v)] = v => resource'[SlotOf(v)] = commitBlob'[v]
  <2>1. CASE v = u
    BY <1>1, <1>2, <2>1 DEF IInv, TypeOK
  <2>2. CASE v # u
    <3>1. commitState[v] = "committed" /\ complete'[v] = complete[v] /\ commitBlob'[v] = commitBlob[v]
      BY <1>1, <1>4, <2>2 DEF IInv, TypeOK
    <3>2. SlotOf(v) \in Slots
      BY <3>1, RequestParts DEF IInv, RowsKnown
    <3>3. shown'[SlotOf(v)] = v => SlotOf(v) # SlotOf(u)
      BY <1>1, <1>2, <2>2 DEF IInv, TypeOK
    <3>4. SlotOf(v) # SlotOf(u) => /\ shown'[SlotOf(v)] = shown[SlotOf(v)]
                                   /\ resource'[SlotOf(v)] = resource[SlotOf(v)]
      BY <1>1, <3>2 DEF IInv, TypeOK
    <3>5. resource'[SlotOf(v)] \in {resource[SlotOf(v)], ActualBlob(u)}
      BY <1>1, <3>2 DEF IInv, TypeOK
    <3> QED
      BY <1>2, <3>1, <3>3, <3>4, <3>5 DEF ReceiptsShown
  <2> QED
    BY <2>1, <2>2
<1> QED
  BY <1>3, <1>4 DEF ReceiptsShown

LEMMA ReceiptsSuperseded ==
  ASSUME IInv, ReceiptsShown, NEW u \in Upload, MetadataSuperseded(u)
  PROVE  ReceiptsShown'
<1>1. /\ commitState' = [commitState EXCEPT ![u] = "failed"]
      /\ commitBlob' = [commitBlob EXCEPT ![u] = BlobOfSuperseded(u)]
      /\ UNCHANGED <<request, complete, resource, shown>>
  BY DEF MetadataSuperseded
<1>2. \A v \in Upload : commitState'[v] = "committed" =>
        commitState[v] = "committed" /\ commitBlob'[v] = commitBlob[v]
  BY <1>1 DEF IInv, TypeOK
<1> QED
  BY <1>1, <1>2 DEF ReceiptsShown, SlotOf

\* The commit that begins is not that of a committed upload.
LEMMA ReceiptsBegin ==
  ASSUME IInv, ReceiptsShown, NEW u \in Upload, BeginCommit(u)
  PROVE  ReceiptsShown'
<1>1. /\ \E m \in {"finalizing", "commit_started"} : commitState' = [commitState EXCEPT ![u] = m]
      /\ \E b : commitBlob' = [commitBlob EXCEPT ![u] = b]
      /\ UNCHANGED <<request, complete, resource, shown>>
  BY DEF BeginCommit, Finalizing, CommitStarted
<1>2. \A v \in Upload : commitState'[v] = "committed" =>
        commitState[v] = "committed" /\ commitBlob'[v] = commitBlob[v]
  BY <1>1 DEF IInv, TypeOK
<1> QED
  BY <1>1, <1>2 DEF ReceiptsShown, SlotOf

LEMMA ReceiptsDelete ==
  ASSUME IInv, ReceiptsShown, NEW a \in Assets, DeletePermanently(a)
  PROVE  ReceiptsShown'
<1>1. /\ resource' = [s \in Slots |-> IF s[1] = a THEN NoBlob ELSE resource[s]]
      /\ shown' = [s \in Slots |-> IF s[1] = a THEN 0 ELSE shown[s]]
      /\ commitState' = [u \in Upload |-> IF u \in UploadsOf(a) THEN "deleted" ELSE commitState[u]]
      /\ UNCHANGED <<request, complete, commitBlob>>
  BY DEF DeletePermanently
<1>2. ASSUME NEW u \in Upload, commitState'[u] = "committed"
      PROVE  /\ complete'[u] /\ resource'[SlotOf(u)] # NoBlob
             /\ shown'[SlotOf(u)] = u => resource'[SlotOf(u)] = commitBlob'[u]
  <2>1. commitState[u] = "committed" /\ u \notin UploadsOf(a)
    BY <1>1, <1>2
  <2>2. request[u] \in Requests /\ request[u].asset # a
    BY <2>1 DEF IInv, RowsKnown, UploadsOf, Exists, RowStates
  <2>3. /\ shown'[SlotOf(u)] = shown[SlotOf(u)]
        /\ resource'[SlotOf(u)] = resource[SlotOf(u)]
    BY <1>1, <2>2, RequestParts
  <2> QED
    BY <1>1, <2>1, <2>3 DEF ReceiptsShown
<1> QED
  BY <1>1, <1>2 DEF ReceiptsShown, SlotOf

LEMMA ReceiptsStep == IInv /\ ReceiptsShown /\ [Next]_vars => ReceiptsShown'
<1> SUFFICES ASSUME IInv, ReceiptsShown, [Next]_vars PROVE ReceiptsShown'
  OBVIOUS
<1> DEFINE Quiet ==
      /\ UNCHANGED <<request, complete, commitBlob, resource, shown>>
      /\ \A u \in Upload : commitState'[u] = "committed" => commitState[u] = "committed"
<1>0. Quiet => ReceiptsShown'
  BY ReceiptsQuiet
<1>1. CASE CreateStep
  <2>1. ASSUME NEW r \in Requests, DedupInspect(r) PROVE Quiet
    BY <2>1 DEF DedupInspect, dbVars
  <2>2. ASSUME NEW d \in dedup, DedupReject(d) PROVE Quiet
    BY <2>2 DEF DedupReject, dbVars
  <2> QED
    BY <1>0, <1>1, <2>1, <2>2, ReceiptsCreate, ReceiptsDedup DEF CreateStep
<1>2. ASSUME NEW u \in Upload, UploadStep(u) PROVE ReceiptsShown'
  <2>1. CASE ReceiveParts(u) \/ ClearStagedKey(u)
    <3>1. Quiet
      BY <2>1 DEF ReceiveParts, ClearStagedKey
    <3> QED
      BY <1>0, <3>1
  <2>2. CASE Moves
    <3>1. Quiet
      BY <2>2 DEF Moves, dbVars
    <3> QED
      BY <1>0, <3>1
  <2>3. Resume(u) \/ ReadReceipt(u) \/ ResumeCleanup(u) => Moves
    BY DEF Resume, ReadReceipt, ResumeCleanup
  <2>4. /\ InspectStarted(u) \/ InspectFinal(u) \/ InspectPublished(u) => Moves
        /\ LoadCandidate(u) \/ ValidateCandidate(u) \/ ValidateReceipt(u) => Moves
        /\ MetadataRetry(u) \/ MetadataGone(u) => Moves
    BY DEF InspectStarted, InspectFinal, InspectPublished, LoadCandidate,
           ValidateCandidate, ValidateReceipt, MetadataRetry, MetadataGone
  <2>5. CASE AssembleCreate(u) \/ AssembleFinish(u) \/ Publish(u) \/ RemoveStage(u)
    <3>1. Quiet
      BY <2>5 DEF AssembleCreate, AssembleFinish, Publish, RemoveStage, dbVars
    <3> QED
      BY <1>0, <3>1
  <2>6. CASE ToFinalizing(u) \/ Mark(u)
    <3>1. /\ UNCHANGED <<request, complete, commitBlob, resource, shown>>
          /\ \/ UNCHANGED commitState
             \/ \E m \in {"finalizing", "unknown", "failed", commitState[u]} :
                  commitState' = [commitState EXCEPT ![u] = m]
      BY <2>6 DEF ToFinalizing, Mark, Finalizing
    <3>2. Quiet
      BY <3>1 DEF IInv, TypeOK
    <3> QED
      BY <1>0, <3>2
  <2> QED
    BY <1>2, <2>1, <2>2, <2>3, <2>4, <2>5, <2>6, ReceiptsBegin, ReceiptsSuperseded,
       ReceiptsCommit
       DEF UploadStep, CompletionStep
<1>3. CASE LibraryStep
  <2>1. ASSUME NEW a \in Assets, SetTrashed(a) PROVE Quiet
    BY <2>1 DEF SetTrashed
  <2>2. ASSUME NEW b \in Upload, GcDelete(b) PROVE Quiet
    BY <2>2 DEF GcDelete, dbVars
  <2>3. GcUnlink \/ GcCommit => Quiet
    BY DEF GcUnlink, GcCommit, dbVars
  <2> QED
    BY <1>0, <1>3, <2>1, <2>2, <2>3, ReceiptsDelete DEF LibraryStep
<1>4. CASE SweepStep \/ Serve \/ FaultStep
  <2>1. SweepStep \/ Serve => Quiet
    BY DEF SweepStep, SweepRead, SweepList, SweepEnd, SweepRemove, Serve, dbVars
  <2>2. FaultStep => Quiet
    BY DEF FaultStep, Abandon, InspectionFails, GcRollback, Crash, Damage, dbVars
  <2> QED
    BY <1>0, <1>4, <2>1, <2>2
<1>5. CASE UNCHANGED vars
  <2>1. Quiet
    BY <1>5 DEF vars, dbVars
  <2> QED
    BY <1>0, <2>1
<1> QED
  BY <1>1, <1>2, <1>3, <1>4, <1>5 DEF Next

\* Doctor refuses no committed upload whose slot still shows it, for any number
\* of versions, deletions, reclamations and failures
\* (validate_database_file_rows).
THEOREM DoctorRefusesOnlyOld == Spec => []DoctorRefusesOnlyReplaced
<1>1. IInv /\ ReceiptsShown => DoctorRefusesOnlyReplaced
  BY DEF IInv, ReceiptsShown, DoctorRefusesOnlyReplaced, DoctorAccepts, Showing,
         BlobReferencesHold, ProposalsMatch, Committed
<1> QED
  BY <1>1, Invariance, ReceiptsInit, ReceiptsStep, PTL DEF Spec

-----------------------------------------------------------------------------
(***************************************************************************)
(* UploadCommit implements Archive, for all values of the constants: what  *)
(* the TLC run shared_content shows of a small instance.                   *)
(*                                                                         *)
(* The mapping hides the files, the commit states between "receiving" and  *)
(* the receipt, the blob ids and every lock.  A step of the protocol that  *)
(* only concerns those is a stutter of the Archive; each of the others is  *)
(* one of its actions.                                                     *)
(***************************************************************************)

(***************************************************************************)
(* What an owner sees, before and after a step.                            *)
(***************************************************************************)
\* A step that writes neither phases, requests, versions nor blob rows is
\* invisible.
LEMMA Invisible ==
  ASSUME \A u \in Upload : PhaseOf(u)' = PhaseOf(u),
         UNCHANGED <<request, resource, blobs, shown>>
  PROVE  UNCHANGED A!avars
BY DEF A!avars, ShowsOf, Content

\* ... and so is every step that leaves the commit states alone as well.
LEMMA InvisibleRows ==
  ASSUME UNCHANGED <<commitState, request, resource, blobs, shown>>
  PROVE  UNCHANGED A!avars
<1>1. \A u \in Upload : PhaseOf(u)' = PhaseOf(u)
  BY DEF PhaseOf
<1> QED
  BY <1>1, Invisible

\* The phases in terms of the commit states.
LEMMA Phases ==
  ASSUME TypeOK, NEW u \in Upload
  PROVE  /\ commitState[u] = "none" <=> PhaseOf(u) = "none"
         /\ commitState[u] = "committed" <=> PhaseOf(u) = "committed"
         /\ commitState[u] \in {"receiving", "commit_started", "finalizing"}
              <=> PhaseOf(u) = "open"
         /\ commitState[u] \in {"unknown", "failed"} <=> PhaseOf(u) = "rejected"
         /\ commitState[u] = "deleted" <=> PhaseOf(u) = "deleted"
<1>1. commitState[u] \in RowStates \cup {"none", "deleted"}
  BY DEF TypeOK
<1> QED
  BY <1>1 DEF PhaseOf, RowStates

\* A slot shows nothing exactly if it has no resource.
LEMMA ShowsNothing ==
  ASSUME IInv, NEW s \in Slots
  PROVE  ShowsOf(s) = "nothing" <=> resource[s] = NoBlob
<1>1. CASE resource[s] = NoBlob
  BY <1>1 DEF ShowsOf
<1>2. CASE resource[s] # NoBlob
  <2>1. resource[s] \in blobs
    BY <1>2 DEF IInv, BlobReferencesHold
  <2>2. Content(resource[s]) \in Contents
    BY <2>1, RequestParts DEF IInv, BlobsKnown
  <2> QED
    BY <1>2, <2>2, RequestsAssumption DEF ShowsOf
<1> QED
  BY <1>1, <1>2

-----------------------------------------------------------------------------
(***************************************************************************)
(* The visible steps.                                                      *)
(***************************************************************************)
LEMMA InitRefines == Init => A!Init
BY DEF Init, A!Init, A!Upload, A!Slots, Upload, Slots, PhaseOf, ShowsOf, NoBlob, A!Nothing

LEMMA CreateIsOpen ==
  ASSUME IInv, NEW r \in Requests, CreateUpload(r)
  PROVE  A!Next
<1>1. /\ next \in Upload
      /\ commitState' = [commitState EXCEPT ![next] = "receiving"]
      /\ request' = [request EXCEPT ![next] = r]
      /\ UNCHANGED <<blobs, resource, shown>>
  BY DEF CreateUpload, IInv, TypeOK, Upload, Receiving
<1>2. commitState[next] = "none"
  BY <1>1, BoundsAssumption DEF IInv, RowsKnown, Upload
<1>3. \A u \in Upload : PhaseOf(u)' = IF u = next THEN "open" ELSE PhaseOf(u)
  BY <1>1 DEF PhaseOf, IInv, TypeOK
<1>4. \A b \in blobs : b # next /\ b \in Upload
  BY <1>1, BoundsAssumption DEF IInv, BlobsKnown, TypeOK, Upload
<1>5. \A b \in blobs : Content(b)' = Content(b)
  BY <1>1, <1>4 DEF Content, IInv, TypeOK
<1>6. \A s \in Slots : ShowsOf(s)' = ShowsOf(s)
  BY <1>1, <1>5 DEF ShowsOf, IInv, BlobReferencesHold
<1>7. {Content(b) : b \in blobs}' = {Content(b) : b \in blobs}
  BY <1>1, <1>5
<1>8. PhaseOf(next) = "none"
  BY <1>1, <1>2, Phases DEF IInv
<1>9. A!Open(next, r)
  BY <1>1, <1>3, <1>6, <1>7, <1>8 DEF A!Open
<1> QED
  BY <1>1, <1>9 DEF A!Next, A!Upload, Upload

LEMMA DedupIsAttach ==
  ASSUME IInv, NEW d \in dedup, DedupCommit(d)
  PROVE  A!Next
<1> DEFINE r == d.request
           slot == <<r.asset, r.source>>
<1>1. /\ d.blob \in blobs
      /\ resource' = [resource EXCEPT ![slot] = d.blob]
      /\ shown' = IF resource[slot] = d.blob THEN shown ELSE [shown EXCEPT ![slot] = 0]
      /\ UNCHANGED <<commitState, request, blobs>>
  BY DEF DedupCommit, BlobStillExists, Target
<1>2. r \in Requests /\ slot \in Slots /\ Content(d.blob) = r.content /\ d.blob # NoBlob
  BY <1>1, RequestsAssumption, BoundsAssumption
     DEF IInv, TypeOK, DedupMatches, AllRequests, Slots, Upload, NoBlob
<1>3. \A u \in Upload : PhaseOf(u)' = PhaseOf(u)
  BY <1>1 DEF PhaseOf
<1>4. {Content(b) : b \in blobs}' = {Content(b) : b \in blobs}
  BY <1>1 DEF Content
<1>5. \A s \in Slots : ShowsOf(s)' = IF s = slot THEN r.content ELSE ShowsOf(s)
  BY <1>1, <1>2 DEF ShowsOf, Content, IInv, TypeOK
<1>6. A!Slot(r) = slot
  BY DEF A!Slot
<1>7. [s \in Slots |-> ShowsOf(s)]' = [[s \in Slots |-> ShowsOf(s)] EXCEPT ![slot] = r.content]
  BY <1>5
<1>8. r.content \in {Content(b) : b \in blobs}
  BY <1>1, <1>2
<1>9. shown' = [shown EXCEPT ![slot] = IF ShowsOf(slot) = r.content THEN @ ELSE 0]
  <2>1. ShowsOf(slot) = r.content <=> resource[slot] = d.blob
    BY <1>1, <1>2, RequestsAssumption
       DEF ShowsOf, IInv, BlobReferencesHold, BlobsDistinct, AllRequests
  <2> QED
    BY <1>1, <1>2, <2>1 DEF IInv, TypeOK
<1>10. A!Attach(r)
  BY <1>1, <1>2, <1>3, <1>4, <1>6, <1>7, <1>8, <1>9 DEF A!Attach
<1> QED
  BY <1>1, <1>2, <1>10 DEF A!Next, A!Upload, Upload

LEMMA SupersededIsTurnDown ==
  ASSUME IInv, NEW u \in Upload, MetadataSuperseded(u)
  PROVE  A!Next
<1>1. /\ commitState[u] = "finalizing"
      /\ commitState' = [commitState EXCEPT ![u] = "failed"]
      /\ blobs' = blobs \cup {ActualBlob(u)}
      /\ UNCHANGED <<request, resource, shown>>
  BY DEF MetadataSuperseded, Finalizing
<1>2. Content(ActualBlob(u)) = Content(u)
  BY <1>1, ActualBlobFits DEF IInv
<1>3. \A v \in Upload : PhaseOf(v)' = IF v = u THEN "rejected" ELSE PhaseOf(v)
  BY <1>1 DEF PhaseOf, IInv, TypeOK
<1>4. PhaseOf(u) = "open"
  BY <1>1 DEF PhaseOf
<1>5. {Content(b) : b \in blobs}' = {Content(b) : b \in blobs} \cup {Content(u)}
  BY <1>1, <1>2 DEF Content
<1>6. \A s \in Slots : ShowsOf(s)' = ShowsOf(s)
  BY <1>1 DEF ShowsOf, Content
<1>7. A!TurnDown(u)
  BY <1>1, <1>3, <1>4, <1>5, <1>6 DEF A!TurnDown, Content
<1> QED
  BY <1>7 DEF A!Next, A!Upload, Upload

LEMMA CommitIsAccept ==
  ASSUME IInv, NEW u \in Upload, MetadataCommit(u)
  PROVE  A!Next
<1> DEFINE b == ActualBlob(u)
<1>1. /\ commitState[u] = "finalizing" /\ ~Superseded(u)
      /\ commitState' = [commitState EXCEPT ![u] = "committed"]
      /\ blobs' = blobs \cup {b}
      /\ resource' = [resource EXCEPT ![SlotOf(u)] = b]
      /\ shown' = [shown EXCEPT ![SlotOf(u)] = u]
      /\ UNCHANGED request
  BY DEF MetadataCommit, Finalizing, Committed
<1>2. b \in Upload /\ b # NoBlob /\ Content(b) = Content(u)
  BY <1>1, ActualBlobFits, BoundsAssumption DEF IInv, Upload, NoBlob
<1>3. request[u] \in Requests /\ SlotOf(u) \in Slots
  BY <1>1, RequestParts DEF IInv, RowsKnown
<1>4. \A v \in Upload : PhaseOf(v)' = IF v = u THEN "committed" ELSE PhaseOf(v)
  BY <1>1 DEF PhaseOf, IInv, TypeOK
<1>5. PhaseOf(u) = "open"
  BY <1>1 DEF PhaseOf
<1>6. A!Newer(u) = {}
  <2>1. \A v \in Upload : PhaseOf(v) = "committed" => commitState[v] = "committed"
    BY Phases DEF IInv
  <2> QED
    BY <1>1, <2>1 DEF A!Newer, A!Upload, A!Slot, Upload, Superseded, SlotOf, Committed
<1>7. {Content(x) : x \in blobs}' = {Content(x) : x \in blobs} \cup {Content(u)}
  BY <1>1, <1>2 DEF Content
<1>8. [s \in Slots |-> ShowsOf(s)]' =
        [[s \in Slots |-> ShowsOf(s)] EXCEPT ![SlotOf(u)] = Content(u)]
  BY <1>1, <1>2, <1>3 DEF ShowsOf, Content, IInv, TypeOK
<1>9. A!Slot(request[u]) = SlotOf(u)
  BY DEF A!Slot, SlotOf
<1>10. A!Accept(u)
  BY <1>1, <1>4, <1>5, <1>6, <1>7, <1>8, <1>9 DEF A!Accept, Content
<1> QED
  BY <1>10 DEF A!Next, A!Upload, Upload

\* Marking turns down an upload that was open or committed; of one already
\* turned down, or gone, it shows nothing.
LEMMA MarkIsTurnDown ==
  ASSUME IInv, NEW u \in Upload, Mark(u)
  PROVE  A!Next \/ UNCHANGED A!avars
<1>1. /\ UNCHANGED <<request, resource, blobs, shown>>
      /\ \A v \in Upload : v # u => commitState'[v] = commitState[v]
      /\ \/ Exists(u) /\ commitState'[u] \in {"unknown", "failed"}
         \/ ~Exists(u) /\ commitState'[u] = commitState[u]
  BY DEF Mark, IInv, TypeOK
<1>2. CASE ~Exists(u)
  <2>1. \A v \in Upload : PhaseOf(v)' = PhaseOf(v)
    BY <1>1, <1>2 DEF PhaseOf
  <2> QED
    BY <1>1, <2>1, Invisible
<1>3. CASE Exists(u)
  <2>1. \A v \in Upload : PhaseOf(v)' = IF v = u THEN "rejected" ELSE PhaseOf(v)
    BY <1>1, <1>3 DEF PhaseOf
  <2>2. CASE PhaseOf(u) = "rejected"
    <3>1. \A v \in Upload : PhaseOf(v)' = PhaseOf(v)
      BY <2>1, <2>2
    <3> QED
      BY <1>1, <3>1, Invisible
  <2>3. CASE PhaseOf(u) # "rejected"
    <3>1. PhaseOf(u) \in {"open", "committed"}
      BY <1>3, <2>3 DEF PhaseOf, Exists, RowStates
    <3>2. [s \in Slots |-> ShowsOf(s)]' = [s \in Slots |-> ShowsOf(s)]
      BY <1>1 DEF ShowsOf, Content
    <3>3. {Content(x) : x \in blobs}' = {Content(x) : x \in blobs}
      BY <1>1 DEF Content
    <3>4. A!TurnDown(u)
      BY <1>1, <2>1, <3>1, <3>2, <3>3 DEF A!TurnDown
    <3> QED
      BY <3>4 DEF A!Next, A!Upload, Upload
  <2> QED
    BY <2>2, <2>3
<1> QED
  BY <1>2, <1>3

LEMMA DeleteIsDelete ==
  ASSUME IInv, NEW a \in Assets, DeletePermanently(a)
  PROVE  A!Next
<1>1. /\ commitState' = [u \in Upload |->
           IF u \in UploadsOf(a) THEN "deleted" ELSE commitState[u]]
      /\ resource' = [s \in Slots |-> IF s[1] = a THEN NoBlob ELSE resource[s]]
      /\ shown' = [s \in Slots |-> IF s[1] = a THEN 0 ELSE shown[s]]
      /\ UNCHANGED <<request, blobs>>
  BY DEF DeletePermanently
<1>2. PICK src \in Sources : resource[<<a, src>>] # NoBlob
  BY DEF DeletePermanently
<1>3. \E s \in Sources : ShowsOf(<<a, s>>) # "nothing"
  BY <1>2, ShowsNothing DEF Slots
<1>4. ASSUME NEW u \in Upload
      PROVE  PhaseOf(u)' = IF PhaseOf(u) # "none" /\ request[u].asset = a
                             THEN "deleted" ELSE PhaseOf(u)
  <2>1. commitState[u] \in RowStates \cup {"none", "deleted"}
    BY DEF IInv, TypeOK
  <2>2. PhaseOf(u) # "none" <=> commitState[u] # "none"
    BY Phases DEF IInv
  <2>3. CASE u \in UploadsOf(a)
    BY <1>1, <2>2, <2>3 DEF PhaseOf, UploadsOf, Exists, RowStates
  <2>4. CASE u \notin UploadsOf(a)
    <3>1. PhaseOf(u)' = PhaseOf(u)
      BY <1>1, <2>4 DEF PhaseOf
    <3>2. request[u].asset = a => commitState[u] \in {"none", "deleted"}
      BY <2>1, <2>4 DEF UploadsOf, Exists
    <3> QED
      BY <2>2, <3>1, <3>2 DEF PhaseOf
  <2> QED
    BY <2>3, <2>4
<1>5. \A s \in Slots : ShowsOf(s)' = IF s[1] = a THEN "nothing" ELSE ShowsOf(s)
  BY <1>1 DEF ShowsOf, Content
<1>6. {Content(x) : x \in blobs}' = {Content(x) : x \in blobs}
  BY <1>1 DEF Content
<1>7. [s \in Slots |-> ShowsOf(s)]' =
        [s \in Slots |-> IF s[1] = a THEN "nothing" ELSE [t \in Slots |-> ShowsOf(t)][s]]
  BY <1>5
<1>8. [u \in Upload |-> PhaseOf(u)]' =
        [u \in Upload |-> IF /\ [v \in Upload |-> PhaseOf(v)][u] # "none"
                             /\ request[u].asset = a
                          THEN "deleted" ELSE [v \in Upload |-> PhaseOf(v)][u]]
  BY <1>4
<1>9. \E s \in Sources : [t \in Slots |-> ShowsOf(t)][<<a, s>>] # "nothing"
  BY <1>3 DEF Slots
<1>10. A!Delete(a)
  BY <1>1, <1>6, <1>7, <1>8, <1>9
     DEF A!Delete, A!Upload, A!Slots, A!Nothing, Upload, Slots
<1> QED
  BY <1>10 DEF A!Next

\* Nothing shows the content of the row that goes and no receipt stands for it:
\* either would name a row of that content, and there is only one.
LEMMA GcCommitIsRelease ==
  ASSUME IInv, GcCommit
  PROVE  A!Next \/ UNCHANGED A!avars
<1>1. /\ blobs' = blobs \ {gcBlob}
      /\ UNCHANGED <<commitState, request, resource, shown>>
  BY DEF GcCommit
<1>2. CASE gcBlob = NoBlob
  <2>1. blobs' = blobs
    BY <1>1, <1>2, BoundsAssumption DEF IInv, TypeOK, Upload, NoBlob
  <2> QED
    BY <1>1, <2>1, InvisibleRows
<1>3. CASE gcBlob # NoBlob
  <2> DEFINE c == Content(gcBlob)
  <2>1. gcBlob \in blobs /\ Unreferenced(gcBlob)
    BY <1>3 DEF IInv, ReclaimedIsUnreferenced
  <2>2. \A b \in blobs : b # gcBlob => Content(b) # c
    BY <2>1 DEF IInv, BlobsDistinct
  <2>3. c \in Contents
    BY <2>1, RequestParts DEF IInv, BlobsKnown
  <2>4. ASSUME NEW s \in Slots PROVE ShowsOf(s) # c
    <3>1. CASE resource[s] = NoBlob
      BY <2>3, <3>1, RequestsAssumption DEF ShowsOf
    <3>2. CASE resource[s] # NoBlob
      BY <2>1, <2>2, <3>2 DEF ShowsOf, Unreferenced, IInv, BlobReferencesHold
    <3> QED
      BY <3>1, <3>2
  <2>5. ASSUME NEW u \in Upload, PhaseOf(u) = "committed" PROVE request[u].content # c
    <3>1. commitState[u] = "committed"
      BY <2>5, Phases DEF IInv
    <3>2. commitBlob[u] \in blobs /\ Content(commitBlob[u]) = Content(u)
      BY <3>1 DEF IInv, BlobReferencesHold, ProposalsMatch, Committed
    <3>3. commitBlob[u] # gcBlob
      BY <2>1, <3>1 DEF Unreferenced, Exists, RowStates
    <3> QED
      BY <2>2, <3>2, <3>3 DEF Content
  <2>6. {Content(b) : b \in blobs}' = {Content(b) : b \in blobs} \ {c}
    BY <1>1, <2>2 DEF Content
  <2>7. c \in {Content(b) : b \in blobs}
    BY <2>1
  <2>8. [s \in Slots |-> ShowsOf(s)]' = [s \in Slots |-> ShowsOf(s)]
    BY <1>1 DEF ShowsOf, Content
  <2>9. [u \in Upload |-> PhaseOf(u)]' = [u \in Upload |-> PhaseOf(u)]
    BY <1>1 DEF PhaseOf
  <2>10. A!Release(c)
    BY <1>1, <2>4, <2>5, <2>6, <2>7, <2>8, <2>9
       DEF A!Release, A!Upload, A!Slots, Upload, Slots
  <2> QED
    BY <2>3, <2>10 DEF A!Next
<1> QED
  BY <1>2, <1>3

-----------------------------------------------------------------------------
(***************************************************************************)
(* Every step.                                                             *)
(***************************************************************************)

\* The steps of a completion that change a commit state nobody outside sees.
LEMMA OpenStaysOpen ==
  ASSUME IInv, NEW u \in Upload, BeginCommit(u) \/ ToFinalizing(u)
  PROVE  UNCHANGED A!avars
<1> USE DEF Receiving, CommitStarted, Finalizing
<1>1. /\ UNCHANGED <<request, resource, blobs, shown>>
      /\ \A v \in Upload : v # u => commitState'[v] = commitState[v]
      /\ \/ commitState'[u] = commitState[u]
         \/ /\ commitState[u] \in {"receiving", "commit_started"}
            /\ commitState'[u] \in {"commit_started", "finalizing"}
  <2>1. CASE BeginCommit(u)
    BY <2>1 DEF BeginCommit, IInv, TypeOK
  <2>2. CASE ToFinalizing(u)
    BY <2>2 DEF ToFinalizing, IInv, TypeOK
  <2> QED
    BY <2>1, <2>2
<1>2. \A v \in Upload : PhaseOf(v)' = PhaseOf(v)
  BY <1>1 DEF PhaseOf
<1> QED
  BY <1>1, <1>2, Invisible

LEMMA StepRefines ==
  ASSUME IInv, [Next]_vars
  PROVE  [A!Next]_A!avars
<1> DEFINE Silent == UNCHANGED <<commitState, request, resource, blobs, shown>>
<1>0. Silent => UNCHANGED A!avars
  BY InvisibleRows
<1>1. CASE CreateStep
  <2>1. ASSUME NEW r \in Requests, DedupInspect(r) PROVE Silent
    BY <2>1 DEF DedupInspect, dbVars
  <2>2. ASSUME NEW d \in dedup, DedupReject(d) PROVE Silent
    BY <2>2 DEF DedupReject, dbVars
  <2> QED
    BY <1>0, <1>1, <2>1, <2>2, CreateIsOpen, DedupIsAttach DEF CreateStep
<1>2. ASSUME NEW u \in Upload, UploadStep(u) PROVE [A!Next]_A!avars
  <2>1. CASE ReceiveParts(u) \/ ClearStagedKey(u)
    <3>1. Silent
      BY <2>1 DEF ReceiveParts, ClearStagedKey
    <3> QED
      BY <1>0, <3>1
  <2>2. CASE Moves
    <3>1. Silent
      BY <2>2 DEF Moves, dbVars
    <3> QED
      BY <1>0, <3>1
  <2>3. Resume(u) \/ ReadReceipt(u) \/ ResumeCleanup(u) => Moves
    BY DEF Resume, ReadReceipt, ResumeCleanup
  <2>4. /\ InspectStarted(u) \/ InspectFinal(u) \/ InspectPublished(u) => Moves
        /\ LoadCandidate(u) \/ ValidateCandidate(u) \/ ValidateReceipt(u) => Moves
        /\ MetadataRetry(u) \/ MetadataGone(u) => Moves
    BY DEF InspectStarted, InspectFinal, InspectPublished, LoadCandidate,
           ValidateCandidate, ValidateReceipt, MetadataRetry, MetadataGone
  <2>5. CASE AssembleCreate(u) \/ AssembleFinish(u) \/ Publish(u) \/ RemoveStage(u)
    <3>1. Silent
      BY <2>5 DEF AssembleCreate, AssembleFinish, Publish, RemoveStage, dbVars
    <3> QED
      BY <1>0, <3>1
  <2> QED
    BY <1>2, <2>1, <2>2, <2>3, <2>4, <2>5, OpenStaysOpen, SupersededIsTurnDown,
       CommitIsAccept, MarkIsTurnDown
       DEF UploadStep, CompletionStep
<1>3. CASE LibraryStep
  <2>1. ASSUME NEW a \in Assets, SetTrashed(a) PROVE Silent
    BY <2>1 DEF SetTrashed
  <2>2. ASSUME NEW b \in Upload, GcDelete(b) PROVE Silent
    BY <2>2 DEF GcDelete, dbVars
  <2>3. GcUnlink => Silent
    BY DEF GcUnlink, dbVars
  <2> QED
    BY <1>0, <1>3, <2>1, <2>2, <2>3, DeleteIsDelete, GcCommitIsRelease DEF LibraryStep
<1>4. CASE SweepStep \/ Serve \/ FaultStep \/ UNCHANGED vars
  <2>1. SweepStep \/ Serve => Silent
    BY DEF SweepStep, SweepRead, SweepList, SweepEnd, SweepRemove, Serve, dbVars
  <2>2. GcRollback \/ Crash \/ Damage => Silent
    BY DEF GcRollback, Crash, Damage, dbVars
  <2>3. ASSUME NEW u \in Upload, Abandon(u) \/ InspectionFails(u) PROVE Silent
    BY <2>3 DEF Abandon, InspectionFails, dbVars
  <2>4. UNCHANGED vars => Silent
    BY DEF vars, dbVars
  <2> QED
    BY <1>0, <1>4, <2>1, <2>2, <2>3, <2>4 DEF FaultStep
<1> QED
  BY <1>1, <1>2, <1>3, <1>4 DEF Next

\* The upload commit protocol does what the Archive promises: receipts,
\* versions and deletions happen at once, in the order of the Archive's rules,
\* and no content is let go of that is shown or has a receipt.
THEOREM Refinement == Spec => ImplementsArchive
<1>1. Init => A!Init
  BY InitRefines
<1>2. IInv /\ [Next]_vars => [A!Next]_A!avars
  BY StepRefines
<1> QED
  BY <1>1, <1>2, Invariance, PTL DEF Spec, ImplementsArchive, A!Spec

\* In particular every version shown and every receipt is for a content the
\* blob rows still account for.
THEOREM PromisesKept == Spec => []A!PromisesKept
<1>1. ASSUME IInv PROVE A!PromisesKept
  <2>1. ASSUME NEW s \in Slots, ShowsOf(s) # "nothing"
        PROVE  ShowsOf(s) \in {Content(b) : b \in blobs}
    BY <1>1, <2>1 DEF ShowsOf, IInv, BlobReferencesHold
  <2>2. ASSUME NEW u \in Upload, PhaseOf(u) = "committed"
        PROVE  request[u].content \in {Content(b) : b \in blobs}
    <3>1. commitState[u] = "committed"
      BY <1>1, <2>2, Phases DEF IInv
    <3>2. commitBlob[u] \in blobs /\ Content(commitBlob[u]) = request[u].content
      BY <1>1, <3>1 DEF IInv, BlobReferencesHold, ProposalsMatch, Committed, Content
    <3> QED
      BY <3>2
  <2> QED
    BY <2>1, <2>2 DEF A!PromisesKept, A!Slots, A!Upload, A!Nothing, Slots, Upload
<1> QED
  BY <1>1, Invariance, PTL

-----------------------------------------------------------------------------
(***************************************************************************)
(* The quota.  Bytes are summed with a fold over sets, so first: what that *)
(* fold computes.  The induction over finite sets that this takes is done  *)
(* with smallest counterexamples, subsets of a finite set being well       *)
(* founded.                                                                *)
(***************************************************************************)

\* The bytes of the contents that requests R give to the uploads of S.
Total(R, S) == MapThenSumSet(LAMBDA u : Size[R[u].content], S)

\* The recursion of the fold: g follows it on every subset of S.
Chosen(s) == CHOOSE x \in s : TRUE
SumStep(R, g, s) ==
  IF s = {} THEN 0 ELSE Size[R[Chosen(s)].content] + g[s \ {Chosen(s)}]
SumsUp(R, S, g) == g = [s \in SUBSET S |-> SumStep(R, g, s)]

\* Finitely many uploads whose contents have a size.
Weighs(R, U) == IsFiniteSet(U) /\ \A u \in U : Size[R[u].content] \in Nat

\* Total is a function that follows the recursion, if there is one.
LEMMA TotalIs ==
  ASSUME NEW R, NEW S
  PROVE  Total(R, S) = (CHOOSE g : SumsUp(R, S, g))[S]
BY DEF Total, SumsUp, SumStep, Chosen, MapThenSumSet, MapThenFoldSet

\* Among sets of uploads there is one with no smaller one.
LEMMA Smallest ==
  ASSUME NEW U, IsFiniteSet(U), NEW T \in SUBSET (SUBSET U), T # {}
  PROVE  \E x \in T : \A y \in T : y \subseteq x => y = x
<1>1. IsWellFoundedOn(StrictSubsetOrdering(U), FiniteSubsetsOf(U))
  BY FS_StrictSubsetOrderingWellFounded
<1>2. FiniteSubsetsOf(U) = SUBSET U
  BY FS_FiniteSubsetsOfFinite
<1>3. PICK x \in T : \A y \in T : ~ (<<y, x>> \in StrictSubsetOrdering(U))
  BY <1>1, <1>2, WFMin
<1> QED
  BY <1>3 DEF StrictSubsetOrdering

\* A set that is not empty contains what is chosen from it.
LEMMA ChosenIn == ASSUME NEW s, s # {} PROVE Chosen(s) \in s
BY DEF Chosen

\* There is a function that follows the recursion on every subset of U: it is
\* built up from the small ones.
LEMMA SumExists ==
  ASSUME NEW R, NEW U, Weighs(R, U)
  PROVE  \E g \in [SUBSET U -> Nat] : \A s \in SUBSET U : g[s] = SumStep(R, g, s)
<1> DEFINE Upto(n, g) == \A s \in SUBSET U : Cardinality(s) <= n => g[s] = SumStep(R, g, s)
           Bad == {n \in Nat : ~ \E g \in [SUBSET U -> Nat] : Upto(n, g)}
<1>0. IsFiniteSet(U) /\ Cardinality(U) \in Nat
  BY FS_CardinalityType DEF Weighs
<1>1. \A s \in SUBSET U : IsFiniteSet(s) /\ Cardinality(s) \in Nat /\ Cardinality(s) <= Cardinality(U)
  BY <1>0, FS_Subset, FS_CardinalityType
<1>2. ASSUME NEW g \in [SUBSET U -> Nat]
      PROVE  [s \in SUBSET U |-> SumStep(R, g, s)] \in [SUBSET U -> Nat]
  <2> SUFFICES ASSUME NEW s \in SUBSET U PROVE SumStep(R, g, s) \in Nat
    OBVIOUS
  <2>1. CASE s = {}
    BY <2>1 DEF SumStep
  <2>2. CASE s # {}
    <3>1. Chosen(s) \in U /\ s \ {Chosen(s)} \in SUBSET U
      BY <2>2, ChosenIn
    <3> QED
      BY <2>2, <3>1 DEF SumStep, Weighs
  <2> QED
    BY <2>1, <2>2
<1>3. 0 \notin Bad
  <2>1. [s \in SUBSET U |-> 0] \in [SUBSET U -> Nat]
    OBVIOUS
  <2>2. Upto(0, [s \in SUBSET U |-> 0])
    BY <1>1, FS_EmptySet DEF SumStep
  <2> QED
    BY <2>1, <2>2
<1>4. ASSUME NEW n \in Nat, n \notin Bad PROVE n + 1 \notin Bad
  <2>1. PICK g \in [SUBSET U -> Nat] : Upto(n, g)
    BY <1>4
  <2> DEFINE h == [s \in SUBSET U |-> SumStep(R, g, s)]
  <2>2. h \in [SUBSET U -> Nat]
    BY <1>2
  <2>3. ASSUME NEW s \in SUBSET U, Cardinality(s) <= n + 1 PROVE h[s] = SumStep(R, h, s)
    <3>1. CASE s = {}
      BY <3>1 DEF SumStep
    <3>2. CASE s # {}
      <4>1. Chosen(s) \in s /\ s \ {Chosen(s)} \in SUBSET U
        BY <3>2, ChosenIn
      <4>2. Cardinality(s \ {Chosen(s)}) <= n
        BY <1>1, <2>3, <4>1, FS_RemoveElement
      <4>3. h[s \ {Chosen(s)}] = g[s \ {Chosen(s)}]
        BY <2>1, <4>1, <4>2
      <4> QED
        BY <3>2, <4>3 DEF SumStep
    <3> QED
      BY <3>1, <3>2
  <2> QED
    BY <2>2, <2>3
<1>5. Bad = {}
  <2> HIDE DEF Bad
  <2> SUFFICES ASSUME Bad # {} PROVE FALSE
    OBVIOUS
  <2>1. Bad \subseteq Nat
    BY DEF Bad
  <2>2. PICK n \in Bad : \A m \in Bad : ~ (<<m, n>> \in OpToRel(<, Nat))
    BY <2>1, WFMin, NatLessThanWellFounded
  <2>3. n \in Nat /\ n # 0
    BY <1>3, <2>1
  <2>4. n - 1 \in Nat /\ n - 1 < n /\ (n - 1) + 1 = n
    BY <2>3
  <2>5. n - 1 \notin Bad
    BY <2>1, <2>2, <2>3, <2>4 DEF OpToRel
  <2> QED
    BY <1>4, <2>2, <2>4, <2>5
<1>6. PICK g \in [SUBSET U -> Nat] : Upto(Cardinality(U), g)
  BY <1>0, <1>5
<1> QED
  BY <1>1, <1>6

\* Total follows the recursion, and it does so for the whole of U at once.
LEMMA TotalUnfolds ==
  ASSUME NEW R, NEW U, Weighs(R, U)
  PROVE  /\ \A s \in SUBSET U : Total(R, s) \in Nat
         /\ Total(R, {}) = 0
         /\ \A s \in SUBSET U : s # {} =>
              Total(R, s) = Size[R[Chosen(s)].content] + Total(R, s \ {Chosen(s)})
<1>1. PICK g \in [SUBSET U -> Nat] : \A s \in SUBSET U : g[s] = SumStep(R, g, s)
  BY SumExists
<1>2. ASSUME NEW S \in SUBSET U PROVE Total(R, S) = g[S]
  <2> DEFINE h == CHOOSE f : SumsUp(R, S, f)
  <2>1. SumsUp(R, S, [s \in SUBSET S |-> g[s]])
    <3> DEFINE k == [s \in SUBSET S |-> g[s]]
    <3>1. ASSUME NEW s \in SUBSET S PROVE k[s] = SumStep(R, k, s)
      <4>1. s \in SUBSET U /\ s \ {Chosen(s)} \in SUBSET S /\ s \ {Chosen(s)} \in SUBSET U
        BY <1>2
      <4> QED
        BY <1>1, <4>1 DEF SumStep
    <3>2. k = [s \in SUBSET S |-> SumStep(R, k, s)]
      BY <3>1
    <3> QED
      BY <3>2 DEF SumsUp, SumStep, Chosen
  <2>2. SumsUp(R, S, h)
    BY <2>1
  <2>3. \A s \in SUBSET S : h[s] = SumStep(R, h, s)
    BY <2>2 DEF SumsUp, SumStep, Chosen
  <2> DEFINE Bad == {s \in SUBSET S : h[s] # g[s]}
  <2> HIDE DEF h
  <2>4. Bad = {}
    <3> SUFFICES ASSUME Bad # {} PROVE FALSE
      OBVIOUS
    <3>1. Bad \in SUBSET (SUBSET U) /\ IsFiniteSet(U)
      BY <1>2 DEF Weighs
    <3>2. PICK s \in Bad : \A t \in Bad : t \subseteq s => t = s
      <4> HIDE DEF Bad
      <4> QED
        BY <3>1, Smallest
    <3>3. s # {}
      BY <1>1, <2>3 DEF SumStep
    <3>4. Chosen(s) \in s /\ s \ {Chosen(s)} \in SUBSET S
      BY <3>3, ChosenIn
    <3>5. h[s \ {Chosen(s)}] = g[s \ {Chosen(s)}]
      BY <3>2, <3>4
    <3> QED
      BY <1>1, <1>2, <2>3, <3>3, <3>5 DEF SumStep
  <2>5. h[S] = g[S]
    BY <2>4
  <2> QED
    BY <2>5, TotalIs DEF h
<1>3. \A s \in SUBSET U : s # {} => Chosen(s) \in s /\ s \ {Chosen(s)} \in SUBSET U
  BY ChosenIn
<1> QED
  BY <1>1, <1>2, <1>3 DEF SumStep

\* The order in which the fold takes the elements does not matter.
LEMMA TotalRemove ==
  ASSUME NEW R, NEW U, Weighs(R, U), NEW S \in SUBSET U, NEW x \in S
  PROVE  Total(R, S) = Size[R[x].content] + Total(R, S \ {x})
<1> DEFINE w(y) == Size[R[y].content]
           Off(s) == \E y \in s : Total(R, s) # w(y) + Total(R, s \ {y})
           Bad == {s \in SUBSET U : Off(s)}
<1>0. \A y \in U : w(y) \in Nat
  BY DEF Weighs
<1>1. \A s \in SUBSET U : Total(R, s) \in Nat
  BY TotalUnfolds
<1>2. \A s \in SUBSET U : s # {} =>
        Chosen(s) \in s /\ Total(R, s) = w(Chosen(s)) + Total(R, s \ {Chosen(s)})
  BY TotalUnfolds, ChosenIn
<1> HIDE DEF w
<1>3. SUFFICES ASSUME Bad # {} PROVE FALSE
  BY DEF w
<1>4. PICK s \in Bad : \A t \in Bad : t \subseteq s => t = s
  <2>1. Bad \in SUBSET (SUBSET U) /\ IsFiniteSet(U)
    BY DEF Weighs
  <2> HIDE DEF Bad
  <2> QED
    BY <1>3, <2>1, Smallest
<1>5. PICK y \in s : Total(R, s) # w(y) + Total(R, s \ {y})
  BY <1>4
<1>6. Chosen(s) \in s /\ Total(R, s) = w(Chosen(s)) + Total(R, s \ {Chosen(s)})
  BY <1>2, <1>4, <1>5
<1>7. y # Chosen(s)
  BY <1>5, <1>6
<1>8. /\ s \ {Chosen(s)} \notin Bad /\ s \ {y} \notin Bad
      /\ s \ {Chosen(s)} \in SUBSET U /\ s \ {y} \in SUBSET U
  BY <1>4, <1>5, <1>6
<1>9. /\ Total(R, s \ {Chosen(s)}) = w(y) + Total(R, (s \ {Chosen(s)}) \ {y})
      /\ Total(R, s \ {y}) = w(Chosen(s)) + Total(R, (s \ {y}) \ {Chosen(s)})
  BY <1>5, <1>6, <1>7, <1>8
<1>10. (s \ {Chosen(s)}) \ {y} = (s \ {y}) \ {Chosen(s)}
  OBVIOUS
<1>11. /\ w(y) \in Nat /\ w(Chosen(s)) \in Nat
       /\ Total(R, (s \ {y}) \ {Chosen(s)}) \in Nat
  BY <1>0, <1>1, <1>4, <1>5, <1>6
<1>12. Total(R, s) = w(y) + Total(R, s \ {y})
  <2> DEFINE rest == Total(R, (s \ {y}) \ {Chosen(s)})
  <2>1. Total(R, s) = w(Chosen(s)) + (w(y) + rest)
    BY <1>6, <1>9, <1>10
  <2>2. Total(R, s \ {y}) = w(Chosen(s)) + rest
    BY <1>9
  <2> QED
    BY <1>11, <2>1, <2>2
<1> QED
  BY <1>5, <1>12

\* Fewer elements weigh no more.
LEMMA TotalMonotone ==
  ASSUME NEW R, NEW U, Weighs(R, U), NEW S \in SUBSET U, NEW T \in SUBSET S
  PROVE  Total(R, T) \in Nat /\ Total(R, S) \in Nat /\ Total(R, T) <= Total(R, S)
<1> DEFINE Bad == {s \in SUBSET U : \E t \in SUBSET s : ~ (Total(R, t) <= Total(R, s))}
<1>1. \A s \in SUBSET U : Total(R, s) \in Nat
  BY TotalUnfolds
<1>2. SUFFICES ASSUME Bad # {} PROVE FALSE
  BY <1>1
<1>3. PICK s \in Bad : \A t \in Bad : t \subseteq s => t = s
  <2>1. Bad \in SUBSET (SUBSET U) /\ IsFiniteSet(U)
    BY DEF Weighs
  <2> HIDE DEF Bad
  <2> QED
    BY <1>2, <2>1, Smallest
<1>4. PICK t \in SUBSET s : ~ (Total(R, t) <= Total(R, s))
  BY <1>3
<1>5. PICK x \in s : x \notin t
  BY <1>1, <1>3, <1>4
<1>6. s \ {x} \in SUBSET U /\ s \ {x} \notin Bad /\ t \in SUBSET (s \ {x})
  BY <1>3, <1>4, <1>5
<1>7. Total(R, t) <= Total(R, s \ {x})
  BY <1>6
<1>8. Total(R, s) = Size[R[x].content] + Total(R, s \ {x}) /\ Size[R[x].content] \in Nat
  BY <1>3, <1>5, TotalRemove DEF Weighs
<1> QED
  BY <1>1, <1>3, <1>4, <1>6, <1>7, <1>8

\* Only the requests of the elements matter.
LEMMA TotalSame ==
  ASSUME NEW R, NEW Q, NEW U, Weighs(R, U), \A u \in U : Q[u] = R[u]
  PROVE  Weighs(Q, U) /\ \A s \in SUBSET U : Total(Q, s) = Total(R, s)
<1> DEFINE Bad == {s \in SUBSET U : Total(Q, s) # Total(R, s)}
<1>1. Weighs(Q, U)
  BY DEF Weighs
<1>2. SUFFICES ASSUME Bad # {} PROVE FALSE
  BY <1>1
<1>3. PICK s \in Bad : \A t \in Bad : t \subseteq s => t = s
  <2>1. Bad \in SUBSET (SUBSET U) /\ IsFiniteSet(U)
    BY DEF Weighs
  <2> HIDE DEF Bad
  <2> QED
    BY <1>2, <2>1, Smallest
<1>4. s # {}
  BY <1>1, TotalUnfolds
<1>5. Chosen(s) \in s /\ s \ {Chosen(s)} \notin Bad /\ s \ {Chosen(s)} \in SUBSET U
  BY <1>3, <1>4, ChosenIn
<1>6. /\ Total(R, s) = Size[R[Chosen(s)].content] + Total(R, s \ {Chosen(s)})
      /\ Total(Q, s) = Size[Q[Chosen(s)].content] + Total(Q, s \ {Chosen(s)})
  BY <1>1, <1>4, TotalUnfolds
<1> QED
  BY <1>3, <1>5, <1>6

-----------------------------------------------------------------------------
(***************************************************************************)
(* QuotaRespected is kept by every step, given IInv: what the quota counts *)
(* has a size, and the row a commit inserts has the content it reserved.   *)
(***************************************************************************)
KnownUploads == {u \in Upload : request[u] \in Requests}
Reserving == {u \in Upload : Active(u)}

\* What the quota checks add up, in terms of Total.
LEMMA SpaceIsTotal ==
  ASSUME NEW S
  PROVE  Used = Total(request, blobs) /\ Reserved(S) = Total(request, S)
BY DEF Used, Reserved, Total, Content, MapThenSumSet, MapThenFoldSet

\* The rows the quota counts have a size.
LEMMA KnownWeighs ==
  ASSUME TypeOK, RowsKnown, BlobsKnown
  PROVE  /\ Weighs(request, KnownUploads)
         /\ blobs \in SUBSET KnownUploads /\ Reserving \in SUBSET KnownUploads
         /\ \A u \in Upload : commitState[u] \in RowStates => u \in KnownUploads
<1>1. IsFiniteSet(Upload)
  BY BoundsAssumption, FS_Interval DEF Upload
<1>2. IsFiniteSet(KnownUploads)
  BY <1>1, FS_Subset DEF KnownUploads
<1>3. \A u \in KnownUploads : Size[request[u].content] \in Nat
  BY RequestParts, RequestsAssumption DEF KnownUploads, Content
<1>4. \A u \in Upload : commitState[u] \in RowStates => u \in KnownUploads
  BY DEF RowsKnown, RowStates, KnownUploads
<1>5. blobs \in SUBSET KnownUploads
  BY DEF TypeOK, BlobsKnown, KnownUploads
<1>6. Reserving \in SUBSET KnownUploads
  BY <1>4 DEF Reserving, Active, RowStates
<1> QED
  BY <1>2, <1>3, <1>4, <1>5, <1>6 DEF Weighs

\* The quota in terms of Total, before and after a step.
LEMMA QuotaIsTotal ==
  /\ QuotaRespected <=>
       (Quota # 0 => Total(request, blobs) + Total(request, Reserving) <= Quota)
  /\ QuotaRespected' <=>
       (Quota # 0 => Total(request', blobs') + Total(request', Reserving') <= Quota)
<1>1. Used = Total(request, blobs) /\ Used' = Total(request', blobs')
  BY DEF Used, Total, Content, MapThenSumSet, MapThenFoldSet
<1>2. Reserved({u \in Upload : Active(u)}) = Total(request, Reserving)
  BY SpaceIsTotal DEF Reserving
<1>3. Reserved({u \in Upload : Active(u)})' = Total(request', Reserving')
  BY DEF Reserved, Total, Content, MapThenSumSet, MapThenFoldSet, Reserving
<1> QED
  BY <1>1, <1>2, <1>3 DEF QuotaRespected

\* Letting go of rows frees space.
LEMMA FewerBytes ==
  ASSUME IInv, QuotaRespected, request' = request, blobs' \subseteq blobs,
         \A u \in Upload : Active(u)' => Active(u)
  PROVE  QuotaRespected'
<1>1. /\ Weighs(request, KnownUploads)
      /\ blobs \in SUBSET KnownUploads /\ Reserving \in SUBSET KnownUploads
  BY KnownWeighs DEF IInv
<1>2. blobs' \in SUBSET blobs /\ Reserving' \in SUBSET Reserving
  BY DEF Reserving
<1>3. /\ Total(request, blobs') <= Total(request, blobs)
      /\ Total(request, blobs') \in Nat /\ Total(request, blobs) \in Nat
  BY <1>1, <1>2, TotalMonotone
<1>4. /\ Total(request, Reserving') <= Total(request, Reserving)
      /\ Total(request, Reserving') \in Nat /\ Total(request, Reserving) \in Nat
  BY <1>1, <1>2, TotalMonotone
<1> QED
  BY <1>3, <1>4, QuotaIsTotal, BoundsAssumption

\* A commit or a supersession turns the space reserved for an upload into the
\* space of a blob row of the same content, or finds that row already there.
LEMMA ReservedBecomesUsed ==
  ASSUME IInv, QuotaRespected, NEW u \in Upload,
         MetadataCommit(u) \/ MetadataSuperseded(u)
  PROVE  QuotaRespected'
<1> DEFINE b == ActualBlob(u)
           size == Size[request[u].content]
<1>1. /\ commitState[u] = "finalizing" /\ request' = request
      /\ blobs' = blobs \cup {b}
      /\ commitState'[u] \in {"committed", "failed"}
      /\ \A v \in Upload : v # u => commitState'[v] = commitState[v]
  BY DEF MetadataCommit, MetadataSuperseded, Finalizing, Committed, IInv, TypeOK
<1>2. b \in Upload /\ request[b] \in Requests /\ Content(b) = Content(u)
  BY <1>1, ActualBlobFits DEF IInv
<1>3. /\ Weighs(request, KnownUploads)
      /\ blobs \in SUBSET KnownUploads /\ Reserving \in SUBSET KnownUploads
      /\ u \in KnownUploads /\ b \in KnownUploads
  BY <1>1, <1>2, KnownWeighs DEF IInv, RowStates, KnownUploads
<1>4. u \in Reserving /\ Reserving' = Reserving \ {u}
  BY <1>1 DEF Reserving, Active
<1>5. Total(request, Reserving) = size + Total(request, Reserving')
  BY <1>3, <1>4, TotalRemove
<1>6. Total(request, blobs') <= size + Total(request, blobs)
  <2>1. CASE b \in blobs
    <3>1. blobs' = blobs
      BY <1>1, <2>1
    <3>2. Total(request, blobs) \in Nat /\ size \in Nat
      BY <1>3, TotalUnfolds DEF Weighs
    <3> HIDE DEF size
    <3> QED
      BY <3>1, <3>2
  <2>2. CASE b \notin blobs
    <3>1. blobs' \in SUBSET KnownUploads /\ b \in blobs' /\ blobs' \ {b} = blobs
      BY <1>1, <1>3, <2>2
    <3>2. Total(request, blobs') = Size[request[b].content] + Total(request, blobs' \ {b})
      BY <1>3, <3>1, TotalRemove
    <3>3. /\ Total(request, blobs') = size + Total(request, blobs)
          /\ Total(request, blobs) \in Nat /\ size \in Nat
      BY <1>2, <1>3, <3>1, <3>2, TotalUnfolds DEF Content, Weighs
    <3> HIDE DEF size
    <3> QED
      BY <3>3
  <2> QED
    BY <2>1, <2>2
<1>7. /\ Total(request, blobs) \in Nat /\ Total(request, blobs') \in Nat
      /\ Total(request, Reserving') \in Nat /\ size \in Nat
  <2>1. blobs' \in SUBSET KnownUploads /\ Reserving' \in SUBSET KnownUploads
    BY <1>1, <1>3, <1>4
  <2> QED
    BY <1>3, <2>1, TotalUnfolds DEF Weighs
<1> HIDE DEF size, b
<1> QED
  BY <1>1, <1>5, <1>6, <1>7, QuotaIsTotal, BoundsAssumption

\* ensure_quota leaves room for the upload it lets in.
LEMMA CreateKeepsQuota ==
  ASSUME IInv, QuotaRespected, NEW r \in Requests, CreateUpload(r)
  PROVE  QuotaRespected'
<1> USE DEF Upload
<1> DEFINE Counted == {u \in Upload :
              Active(u) \/ (commitState[u] = "unknown" /\ ~complete[u])}
<1>1. /\ next \in Upload /\ CreateFits(Size[r.content]) /\ blobs' = blobs
      /\ commitState' = [commitState EXCEPT ![next] = "receiving"]
      /\ request' = [request EXCEPT ![next] = r]
  BY DEF CreateUpload, IInv, TypeOK, Receiving
<1>2. \A u \in Upload : u < next => request'[u] = request[u]
  BY <1>1 DEF IInv, TypeOK
<1> DEFINE Old == {u \in KnownUploads : u < next}
<1>3. /\ Weighs(request, KnownUploads) /\ Weighs(request, Old)
      /\ blobs \in SUBSET Old /\ Reserving \in SUBSET Old /\ Counted \in SUBSET Old
  <2>1. /\ Weighs(request, KnownUploads)
        /\ blobs \in SUBSET KnownUploads /\ Reserving \in SUBSET KnownUploads
        /\ \A u \in Upload : commitState[u] \in RowStates => u \in KnownUploads
    BY KnownWeighs DEF IInv
  <2>2. Weighs(request, Old)
    <3>1. Old \in SUBSET KnownUploads
      OBVIOUS
    <3> QED
      BY <2>1, <3>1, FS_Subset DEF Weighs
  <2>3. blobs \in SUBSET Old
    BY <2>1 DEF IInv, BlobsKnown
  <2>4. \A u \in Upload : commitState[u] \in RowStates => u \in Old
    BY <2>1 DEF IInv, RowsKnown, RowStates
  <2> QED
    BY <2>1, <2>2, <2>3, <2>4 DEF Active, RowStates, Reserving
<1>4. /\ Total(request', blobs') = Total(request, blobs)
      /\ Total(request', Reserving) = Total(request, Reserving)
      /\ Total(request, blobs) \in Nat /\ Total(request, Reserving) \in Nat
  <2>1. \A u \in Old : request'[u] = request[u]
    BY <1>2 DEF KnownUploads
  <2> HIDE DEF Old
  <2> QED
    <3>1. \A s \in SUBSET Old : Total(request', s) = Total(request, s)
      BY <1>3, <2>1, TotalSame
    <3>2. \A s \in SUBSET Old : Total(request, s) \in Nat
      BY <1>3, TotalUnfolds
    <3> QED
      BY <1>1, <1>3, <3>1, <3>2
<1>5. Total(request', Reserving') = Size[r.content] + Total(request', Reserving)
  <2>1. Reserving' = Reserving \cup {next} /\ next \notin Reserving
    <3>1. commitState \in [Upload -> RowStates \cup {"none", "deleted"}] /\ next \in Upload
      BY <1>1 DEF IInv, TypeOK
    <3>2. commitState' = [commitState EXCEPT ![next] = "receiving"]
      BY <1>1
    <3>3. \A u \in Upload : Active(u)' <=> Active(u) \/ u = next
      BY <3>1, <3>2 DEF Active
    <3>4. next \notin Reserving
      <4>1. next \notin Old
        BY <3>1, BoundsAssumption
      <4> QED
        BY <1>3, <4>1
    <3> HIDE DEF Old
    <3> QED
      BY <3>1, <3>3, <3>4 DEF Reserving
  <2>2. Weighs(request', Old \cup {next})
    <3>1. IsFiniteSet(Old \cup {next})
      BY <1>3, FS_AddElement DEF Weighs
    <3>2. \A u \in Old \cup {next} : Size[request'[u].content] \in Nat
      <4>1. request'[next] = r /\ Size[r.content] \in Nat
        BY <1>1, RequestsAssumption DEF IInv, TypeOK, AllRequests
      <4> QED
        BY <1>2, <1>3, <4>1 DEF Weighs, KnownUploads
    <3> QED
      BY <3>1, <3>2 DEF Weighs
  <2>3. Reserving' \in SUBSET (Old \cup {next}) /\ next \in Reserving'
    BY <1>3, <2>1
  <2>4. request'[next] = r /\ Reserving' \ {next} = Reserving
    BY <1>1, <2>1 DEF IInv, TypeOK
  <2> HIDE DEF Old
  <2>5. Total(request', Reserving') = Size[request'[next].content] + Total(request', Reserving' \ {next})
    BY <2>2, <2>3, TotalRemove
  <2> QED
    BY <2>4, <2>5
<1>6. Quota # 0 => Total(request, blobs) + Total(request, Counted) + Size[r.content] <= Quota
  <2>1. ReservedAtCreate = Total(request, Counted) /\ Used = Total(request, blobs)
    BY SpaceIsTotal DEF ReservedAtCreate
  <2> QED
    BY <1>1, <2>1 DEF CreateFits
<1>7. /\ Total(request, Reserving) <= Total(request, Counted)
      /\ Total(request, Counted) \in Nat
  <2>1. Reserving \in SUBSET Counted
    BY DEF Reserving
  <2> HIDE DEF Counted, Old
  <2> QED
    BY <1>3, <2>1, TotalMonotone
<1>8. Size[r.content] \in Nat
  BY RequestsAssumption DEF AllRequests
<1> HIDE DEF Counted
<1> QED
  BY <1>4, <1>5, <1>6, <1>7, <1>8, QuotaIsTotal, BoundsAssumption

\* Every other step writes no row the quota counts, or lets go of one.
LEMMA QuotaStep == IInv /\ QuotaRespected /\ [Next]_vars => QuotaRespected'
<1> SUFFICES ASSUME IInv, QuotaRespected, [Next]_vars PROVE QuotaRespected'
  OBVIOUS
<1> DEFINE Silent == UNCHANGED <<commitState, request, blobs>>
<1>0. ASSUME Silent PROVE QuotaRespected'
  BY <1>0, FewerBytes DEF Active
<1>1. CASE CreateStep
  <2>1. ASSUME NEW r \in Requests, DedupInspect(r) PROVE Silent
    BY <2>1 DEF DedupInspect, dbVars
  <2>2. ASSUME NEW d \in dedup, DedupCommit(d) \/ DedupReject(d) PROVE Silent
    BY <2>2 DEF DedupCommit, DedupReject, dbVars
  <2> QED
    BY <1>0, <1>1, <2>1, <2>2, CreateKeepsQuota DEF CreateStep
<1>2. ASSUME NEW u \in Upload, UploadStep(u) PROVE QuotaRespected'
  <2>1. CASE ReceiveParts(u) \/ ClearStagedKey(u)
    BY <1>0, <2>1 DEF ReceiveParts, ClearStagedKey
  <2>2. CASE Moves
    BY <1>0, <2>2 DEF Moves, dbVars
  <2>3. Resume(u) \/ ReadReceipt(u) \/ ResumeCleanup(u) => Moves
    BY DEF Resume, ReadReceipt, ResumeCleanup
  <2>4. /\ InspectStarted(u) \/ InspectFinal(u) \/ InspectPublished(u) => Moves
        /\ LoadCandidate(u) \/ ValidateCandidate(u) \/ ValidateReceipt(u) => Moves
        /\ MetadataRetry(u) \/ MetadataGone(u) => Moves
    BY DEF InspectStarted, InspectFinal, InspectPublished, LoadCandidate,
           ValidateCandidate, ValidateReceipt, MetadataRetry, MetadataGone
  <2>5. CASE AssembleCreate(u) \/ AssembleFinish(u) \/ Publish(u) \/ RemoveStage(u)
    BY <1>0, <2>5 DEF AssembleCreate, AssembleFinish, Publish, RemoveStage, dbVars
  <2>6. CASE BeginCommit(u) \/ ToFinalizing(u) \/ Mark(u)
    <3>1. request' = request /\ blobs' = blobs
      BY <2>6 DEF BeginCommit, ToFinalizing, Mark
    <3>2. \A v \in Upload : Active(v)' => Active(v)
      BY <2>6
         DEF BeginCommit, ToFinalizing, Mark, Active, Exists, RowStates, IInv, TypeOK,
             Receiving, CommitStarted, Finalizing
    <3> QED
      BY <3>1, <3>2, FewerBytes
  <2> QED
    BY <1>2, <2>1, <2>2, <2>3, <2>4, <2>5, <2>6, ReservedBecomesUsed
       DEF UploadStep, CompletionStep
<1>3. CASE LibraryStep
  <2>1. ASSUME NEW a \in Assets, SetTrashed(a) PROVE Silent
    BY <2>1 DEF SetTrashed
  <2>2. ASSUME NEW a \in Assets, DeletePermanently(a) PROVE QuotaRespected'
    <3>1. request' = request /\ blobs' = blobs
      BY <2>2 DEF DeletePermanently
    <3>2. \A v \in Upload : Active(v)' => Active(v)
      BY <2>2 DEF DeletePermanently, Active
    <3> QED
      BY <3>1, <3>2, FewerBytes
  <2>3. ASSUME NEW b \in Upload, GcDelete(b) PROVE Silent
    BY <2>3 DEF GcDelete, dbVars
  <2>4. GcUnlink => Silent
    BY DEF GcUnlink, dbVars
  <2>5. ASSUME GcCommit PROVE QuotaRespected'
    <3>1. UNCHANGED <<commitState, request>> /\ blobs' \subseteq blobs
      BY <2>5 DEF GcCommit
    <3> QED
      BY <3>1, FewerBytes DEF Active
  <2> QED
    BY <1>0, <1>3, <2>1, <2>2, <2>3, <2>4, <2>5 DEF LibraryStep
<1>4. CASE SweepStep \/ Serve \/ FaultStep \/ UNCHANGED vars
  <2>1. SweepStep \/ Serve => Silent
    BY DEF SweepStep, SweepRead, SweepList, SweepEnd, SweepRemove, Serve, dbVars
  <2>2. GcRollback \/ Crash \/ Damage => Silent
    BY DEF GcRollback, Crash, Damage, dbVars
  <2>3. ASSUME NEW u \in Upload, Abandon(u) \/ InspectionFails(u) PROVE Silent
    BY <2>3 DEF Abandon, InspectionFails, dbVars
  <2>4. UNCHANGED vars => Silent
    BY DEF vars, dbVars
  <2> QED
    BY <1>0, <1>4, <2>1, <2>2, <2>3, <2>4 DEF FaultStep
<1> QED
  BY <1>1, <1>2, <1>3, <1>4 DEF Next

\* A fresh installation stores and reserves nothing.
LEMMA QuotaInit == Init => QuotaRespected
<1> SUFFICES ASSUME Init PROVE QuotaRespected
  OBVIOUS
<1>1. blobs = {} /\ Reserving = {}
  BY DEF Init, Reserving, Active
<1>2. Weighs(request, {})
  BY FS_EmptySet DEF Weighs
<1>3. Total(request, {}) = 0
  BY <1>2, TotalUnfolds
<1> QED
  BY <1>1, <1>3, QuotaIsTotal, BoundsAssumption

\* Whatever uploads commit, fail, are superseded, deleted or reclaimed, and in
\* whatever order, bytes stored and bytes promised to unfinished uploads never
\* exceed the quota, so that ensure_commit_quota turns no upload away that
\* ensure_quota let in (routes.rs, upload_commit.rs).
THEOREM QuotaKept == Spec => []QuotaRespected
<1> QED
  BY QuotaInit, QuotaStep, Invariance, PTL DEF Spec
=============================================================================
