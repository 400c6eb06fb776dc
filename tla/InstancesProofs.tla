--------------------------- MODULE InstancesProofs ---------------------------
(***************************************************************************)
(* The life of an instance, proved for all sets of instances, paths,       *)
(* clients and requests.                                                   *)
(***************************************************************************)
EXTENDS Instances, TLAPS

\* Ids of keys are unique, and a request that was authenticated with a key, or
\* with the token of a device, goes back to the same pairing as its credential.
KeyIds == \A k, l \in keys : k.id = l.id => k = l
RequestsTraced ==
  \A r \in Requests : request[r] # None =>
    \/ request[r].kind = "device" /\ request[r].hash = request[r].pairing
    \/ /\ request[r].kind = "api_key"
       /\ \A k \in keys : k.id = request[r].key => k.pairing = request[r].pairing

\* A call that creates an instance is the only one that inserts its row.
Fresh == creating \cap Rows = {} /\ Rows \subseteq born

\* A token belongs to a paired instance.
TokensPaired == \A i \in Rows : row[i].token # NoToken => row[i].status = "paired"

\* A commit that has begun will store its blob under the path of the account.
UploadsUnderPath ==
  \A u \in uploads : u.state # "receiving" => u.path = row[u.instance].path

IInv == /\ InstancesTypeOK /\ KeyIds /\ RequestsTraced /\ Fresh /\ TokensPaired
        /\ KeysOfThisPairing /\ PairedByItsCode
        /\ BlobsUnderPath /\ UploadsUnderPath

\* What the media steps can disturb.
MediaType ==
  /\ uploads \subseteq [id : Nat, instance : Rows, state : UploadStates,
                         path : Paths \cup {None}]
  /\ blobs \subseteq [instance : Rows, path : Paths]
  /\ assets \subseteq Rows /\ albums \subseteq Rows
MediaFits == MediaType /\ BlobsUnderPath /\ UploadsUnderPath

-----------------------------------------------------------------------------
LEMMA InitInvariant == Init => IInv
<1> SUFFICES ASSUME Init PROVE IInv
  OBVIOUS
<1>1. Rows = {}
  BY DEF Init, Rows
<1>2. InstancesTypeOK
  BY <1>1, InstancesAssumption DEF Init, InstancesTypeOK
<1> QED BY <1>1, <1>2 DEF Init, IInv, KeyIds, RequestsTraced, Fresh, TokensPaired,
           KeysOfThisPairing, PairedByItsCode, BlobsUnderPath, UploadsUnderPath

\* The rows, keys and requests of a step that only touches media.
LEMMA MediaKeepsControl ==
  ASSUME IInv, UNCHANGED controlVars
  PROVE  /\ KeyIds' /\ RequestsTraced' /\ Fresh' /\ TokensPaired' /\ Rows' = Rows
         /\ KeysOfThisPairing' /\ PairedByItsCode'
  BY DEF IInv, controlVars, KeyIds, RequestsTraced, Fresh, TokensPaired, Rows,
         KeysOfThisPairing, PairedByItsCode

LEMMA MediaInvariant == ASSUME IInv, Media PROVE IInv'
<1>1. UNCHANGED controlVars
  BY DEF Media, BeginCommit, CommitMetadata, MarkUnknown, MarkFailed, DeleteAssets, Reclaim
<1>2. /\ KeyIds' /\ RequestsTraced' /\ Fresh' /\ TokensPaired' /\ Rows' = Rows
      /\ KeysOfThisPairing' /\ PairedByItsCode'
  BY <1>1, MediaKeepsControl
<1>3. row' = row
  BY <1>1 DEF controlVars
<1>4. MediaFits' => IInv'
  <2> SUFFICES ASSUME MediaFits' PROVE IInv'
    OBVIOUS
  <2>1. InstancesTypeOK'
    BY <1>1, <1>2 DEF IInv, InstancesTypeOK, controlVars, MediaFits, MediaType
  <2> QED BY <1>2, <2>1 DEF IInv, MediaFits
<1>5. MediaType
  BY DEF IInv, InstancesTypeOK, MediaType
<1>6. BlobsUnderPath /\ UploadsUnderPath
  BY DEF IInv
<1>7. ASSUME NEW u \in uploads, BeginCommit(u) PROVE MediaFits'
  <2> PICK p \in Paths :
         /\ p = row[u.instance].path \/ [instance |-> u.instance, path |-> p] \in blobs
         /\ uploads' = (uploads \ {u}) \cup {[u EXCEPT !.state = "begun", !.path = p]}
    BY <1>7 DEF BeginCommit
  <2>1. p = row[u.instance].path
    BY <1>6 DEF BlobsUnderPath
  <2> DEFINE v == [u EXCEPT !.state = "begun", !.path = p]
  <2>2. /\ v \in [id : Nat, instance : Rows, state : UploadStates, path : Paths \cup {None}]
        /\ v.path = p /\ v.instance = u.instance
    BY <1>5 DEF MediaType, UploadStates
  <2> HIDE DEF v
  <2>3. uploads' = (uploads \ {u}) \cup {v}
    BY DEF v
  <2>4. UNCHANGED <<blobs, assets, albums>>
    BY <1>7 DEF BeginCommit
  <2> QED BY <1>2, <1>3, <1>5, <1>6, <2>1, <2>2, <2>3, <2>4
          DEF MediaFits, MediaType, BlobsUnderPath, UploadsUnderPath
<1>8. ASSUME NEW u \in uploads, CommitMetadata(u) PROVE MediaFits'
  <2> DEFINE b == [instance |-> u.instance, path |-> u.path]
  <2>1. u.path = row[u.instance].path /\ u.instance \in Rows
    BY <1>5, <1>6, <1>8 DEF MediaType, CommitMetadata, UploadsUnderPath
  <2>2. row[u.instance].path \in Paths
    BY <2>1, InstancesAssumption DEF IInv, InstancesTypeOK, Rows, InstanceRow
  <2>3. b \in [instance : Rows, path : Paths] /\ b.path = row[b.instance].path
    BY <2>1, <2>2
  <2>4. uploads' = uploads \ {u} /\ blobs' = blobs \cup {b} /\ UNCHANGED <<assets, albums>>
    BY <1>8 DEF CommitMetadata
  <2> HIDE DEF b
  <2> QED BY <1>2, <1>3, <1>5, <1>6, <2>3, <2>4
          DEF MediaFits, MediaType, BlobsUnderPath, UploadsUnderPath
<1>9. ASSUME NEW u \in uploads, MarkUnknown(u) PROVE MediaFits'
  <2> DEFINE v == [u EXCEPT !.state = "unknown"]
  <2>1. /\ v \in [id : Nat, instance : Rows, state : UploadStates, path : Paths \cup {None}]
        /\ v.path = u.path /\ v.instance = u.instance
    BY <1>5 DEF MediaType, UploadStates
  <2>2. u.path = row[u.instance].path
    BY <1>6, <1>9 DEF MarkUnknown, UploadsUnderPath
  <2>3. uploads' = (uploads \ {u}) \cup {v} /\ UNCHANGED <<blobs, assets, albums>>
    BY <1>9 DEF MarkUnknown
  <2> HIDE DEF v
  <2> QED BY <1>2, <1>3, <1>5, <1>6, <2>1, <2>2, <2>3
          DEF MediaFits, MediaType, BlobsUnderPath, UploadsUnderPath
<1>10. ASSUME NEW u \in uploads, MarkFailed(u) PROVE MediaFits'
  BY <1>2, <1>3, <1>5, <1>6, <1>10
          DEF MediaFits, MediaType, MarkFailed, BlobsUnderPath, UploadsUnderPath
<1>11. ASSUME NEW i \in Instances, DeleteAssets(i) PROVE MediaFits'
  BY <1>2, <1>3, <1>5, <1>6, <1>11
          DEF MediaFits, MediaType, DeleteAssets, BlobsUnderPath, UploadsUnderPath
<1>12. ASSUME NEW b \in blobs, Reclaim(b) PROVE MediaFits'
  BY <1>2, <1>3, <1>5, <1>6, <1>12
          DEF MediaFits, MediaType, Reclaim, BlobsUnderPath, UploadsUnderPath
<1> QED BY <1>4, <1>7, <1>8, <1>9, <1>10, <1>11, <1>12 DEF Media

-----------------------------------------------------------------------------
(***************************************************************************)
(* The administrator.                                                      *)
(***************************************************************************)

LEMMA CheckPathInvariant ==
  ASSUME IInv, NEW i \in Instances, CheckPath(i) PROVE IInv'
<1>1. /\ i \notin born /\ born' = born \cup {i} /\ creating' = creating \cup {i}
      /\ UNCHANGED <<row, keys, mediaVars, pairing, request, codes, tokens, pairedBy>>
  BY DEF CheckPath
<1>2. Rows' = Rows
  BY <1>1 DEF Rows
<1>3. InstancesTypeOK'
  BY <1>1, <1>2 DEF IInv, InstancesTypeOK, mediaVars
<1>4. Fresh'
  BY <1>1, <1>2 DEF IInv, Fresh
<1> QED BY <1>1, <1>2, <1>3, <1>4
        DEF IInv, mediaVars, KeyIds, RequestsTraced, TokensPaired, KeysOfThisPairing,
            PairedByItsCode, BlobsUnderPath, UploadsUnderPath

LEMMA InsertInvariant ==
  ASSUME IInv, NEW i \in Instances, InsertInstance(i) PROVE IInv'
<1> DEFINE new == [status |-> "pending", code |-> codes + 1, token |-> NoToken,
                   path |-> DefaultPath[i]]
<1>1. /\ i \in creating /\ codes < MaxCodes /\ codes' = codes + 1
      /\ row' = [row EXCEPT ![i] = new] /\ creating' = creating \ {i}
      /\ UNCHANGED <<keys, mediaVars, pairing, request, born, tokens, pairedBy>>
  BY DEF InsertInstance
<1>2. new \in InstanceRow /\ new # None /\ codes' \in 0 .. MaxCodes
  <2>1. codes \in Nat /\ codes + 1 \in Nat /\ codes' \in 0 .. MaxCodes
    BY <1>1, InstancesAssumption DEF IInv, InstancesTypeOK
  <2>2. DefaultPath[i] \in Paths /\ "pending" \in Statuses /\ NoToken \in Nat
    BY InstancesAssumption DEF Statuses, NoToken
  <2>3. new \in InstanceRow
    BY <2>1, <2>2 DEF InstanceRow
  <2> QED BY <2>1, <2>3, InstancesAssumption
<1>3. new.status = "pending" /\ new.token = NoToken
  OBVIOUS
<1> HIDE DEF new
<1>4. i \notin Rows /\ i \in born
  BY <1>1 DEF IInv, Fresh, InstancesTypeOK
<1>5. /\ row \in [Instances -> InstanceRow \cup {None}] /\ row'[i] = new
      /\ \A j \in Instances : j # i => row'[j] = row[j]
  BY <1>1 DEF IInv, InstancesTypeOK
<1>6. Rows' = Rows \cup {i} /\ \A j \in Rows : row'[j] = row[j]
  BY <1>2, <1>4, <1>5 DEF Rows
<1>7. row' \in [Instances -> InstanceRow \cup {None}]
  BY <1>1, <1>2, <1>5
<1>8. InstancesTypeOK'
  BY <1>1, <1>2, <1>6, <1>7 DEF IInv, InstancesTypeOK, mediaVars
<1>9. KeysOfThisPairing'
  <2>1. \A k \in keys : row'[k.instance] = row[k.instance]
    BY <1>6 DEF IInv, InstancesTypeOK
  <2> QED BY <1>1, <2>1 DEF IInv, KeysOfThisPairing
<1>10. PairedByItsCode' /\ TokensPaired'
  BY <1>1, <1>3, <1>5, <1>6 DEF IInv, PairedByItsCode, TokensPaired
<1>11. BlobsUnderPath' /\ UploadsUnderPath'
  <2>1. (\A b \in blobs : b.instance \in Rows) /\ (\A u \in uploads : u.instance \in Rows)
    BY DEF IInv, InstancesTypeOK
  <2> QED BY <1>1, <1>6, <2>1 DEF IInv, mediaVars, BlobsUnderPath, UploadsUnderPath
<1>12. Fresh'
  BY <1>1, <1>4, <1>6 DEF IInv, Fresh
<1>13. KeyIds' /\ RequestsTraced'
  BY <1>1 DEF IInv, KeyIds, RequestsTraced
<1> QED BY <1>8, <1>9, <1>10, <1>11, <1>12, <1>13 DEF IInv

LEMMA AbandonInvariant ==
  ASSUME IInv, NEW i \in Instances, AbandonCreate(i) PROVE IInv'
<1>1. /\ creating' = creating \ {i}
      /\ UNCHANGED <<row, keys, mediaVars, pairing, request, born, codes, tokens, pairedBy>>
  BY DEF AbandonCreate
<1>2. Rows' = Rows
  BY <1>1 DEF Rows
<1>3. InstancesTypeOK'
  BY <1>1, <1>2 DEF IInv, InstancesTypeOK, mediaVars
<1> QED BY <1>1, <1>2, <1>3
        DEF IInv, mediaVars, Fresh, KeyIds, RequestsTraced, TokensPaired, KeysOfThisPairing,
            PairedByItsCode, BlobsUnderPath, UploadsUnderPath

LEMMA ChangePathInvariant ==
  ASSUME IInv, NEW i \in Instances, NEW p \in Paths, ChangePath(i, p) PROVE IInv'
<1>1. /\ i \in Rows /\ ~MediaOrUpload(i) /\ row' = [row EXCEPT ![i].path = p]
      /\ UNCHANGED <<keys, mediaVars, creating, pairing, request, born, codes, tokens, pairedBy>>
  BY DEF ChangePath
<1>2. row \in [Instances -> InstanceRow \cup {None}] /\ row[i] \in InstanceRow
  BY <1>1 DEF IInv, InstancesTypeOK, Rows
<1>3. /\ row'[i] \in InstanceRow /\ row'[i].status = row[i].status
      /\ row'[i].code = row[i].code /\ row'[i].token = row[i].token
      /\ \A j \in Instances : j # i => row'[j] = row[j]
  BY <1>1, <1>2 DEF InstanceRow
<1>4. row' \in [Instances -> InstanceRow \cup {None}] /\ row'[i] # None
  <2>1. row' = [row EXCEPT ![i] = [row[i] EXCEPT !.path = p]]
    BY <1>1
  <2>2. [row[i] EXCEPT !.path = p] \in InstanceRow
    BY <1>2 DEF InstanceRow
  <2> QED BY <1>2, <2>1, <2>2, InstancesAssumption
<1>5. Rows' = Rows
  BY <1>1, <1>3, <1>4 DEF Rows
<1>6. InstancesTypeOK'
  BY <1>1, <1>4, <1>5 DEF IInv, InstancesTypeOK, mediaVars
<1>7. \A j \in Rows : /\ row'[j].status = row[j].status /\ row'[j].code = row[j].code
                      /\ row'[j].token = row[j].token
  BY <1>3 DEF Rows
<1>8. KeysOfThisPairing' /\ PairedByItsCode' /\ TokensPaired'
  <2>1. \A k \in keys : k.instance \in Rows
    BY DEF IInv, InstancesTypeOK
  <2> QED BY <1>1, <1>5, <1>7, <2>1 DEF IInv, KeysOfThisPairing, PairedByItsCode, TokensPaired
<1>9. BlobsUnderPath' /\ UploadsUnderPath'
  <2>1. /\ \A b \in blobs : b.instance \in Instances /\ b.instance # i
        /\ \A u \in uploads : u.instance \in Instances /\ u.instance # i
    BY <1>1 DEF IInv, InstancesTypeOK, Rows, MediaOrUpload, UploadActive
  <2>2. blobs' = blobs /\ uploads' = uploads
    BY <1>1 DEF mediaVars
  <2> QED BY <1>3, <2>1, <2>2 DEF IInv, BlobsUnderPath, UploadsUnderPath
<1> QED BY <1>1, <1>5, <1>6, <1>8, <1>9 DEF IInv, Fresh, KeyIds, RequestsTraced

\* Rotation and the end of an instance: its token and all of its keys go.
LEMMA RevokeInvariant ==
  ASSUME IInv, NEW i \in Rows, NEW r \in InstanceRow,
         r.status # "paired", r.token = NoToken, r.path = row[i].path,
         row' = [row EXCEPT ![i] = r], keys' = RevokeAll(i), codes' \in 0 .. MaxCodes,
         UNCHANGED <<mediaVars, creating, pairing, request, born, tokens, pairedBy>>
  PROVE  IInv'
<1>1. /\ row \in [Instances -> InstanceRow \cup {None}] /\ i \in Instances /\ r # None
      /\ keys \subseteq [id : Nat, instance : Rows, revoked : BOOLEAN, pairing : Nat]
  BY InstancesAssumption DEF IInv, InstancesTypeOK, Rows
<1>2. /\ row'[i] = r /\ row' \in [Instances -> InstanceRow \cup {None}]
      /\ \A j \in Instances : j # i => row'[j] = row[j]
  BY <1>1
<1>3. Rows' = Rows
  BY <1>1, <1>2 DEF Rows
<1> DEFINE left(k) == IF k.instance = i THEN [k EXCEPT !.revoked = TRUE] ELSE k
<1>4. ASSUME NEW k \in keys
      PROVE  /\ left(k) \in [id : Nat, instance : Rows, revoked : BOOLEAN, pairing : Nat]
             /\ left(k).id = k.id /\ left(k).instance = k.instance
             /\ left(k).pairing = k.pairing
             /\ left(k).instance = i => left(k).revoked
             /\ left(k).instance # i => left(k) = k
  BY <1>1
<1>a. keys' = {left(k) : k \in keys}
  BY DEF RevokeAll
<1> HIDE DEF left
<1>5. \A l \in keys' : \E k \in keys :
        /\ l.id = k.id /\ l.instance = k.instance /\ l.pairing = k.pairing
        /\ l = left(k)
        /\ l \in [id : Nat, instance : Rows, revoked : BOOLEAN, pairing : Nat]
        /\ l.instance = i => l.revoked
        /\ l.instance # i => l = k
  BY <1>4, <1>a
<1>6. InstancesTypeOK'
  <2>1. keys' \subseteq [id : Nat, instance : Rows, revoked : BOOLEAN, pairing : Nat]
    BY <1>5
  <2> QED BY <1>2, <1>3, <2>1 DEF IInv, InstancesTypeOK, mediaVars
<1>7. KeyIds'
  BY <1>5 DEF IInv, KeyIds
<1>8. RequestsTraced'
  BY <1>5 DEF IInv, RequestsTraced
<1>9. KeysOfThisPairing'
  <2> SUFFICES ASSUME NEW l \in keys', ~l.revoked
               PROVE  row'[l.instance].status = "paired" /\ row'[l.instance].token = l.pairing
    BY DEF KeysOfThisPairing
  <2>1. l.instance # i /\ l \in keys /\ l.instance \in Instances
    BY <1>1, <1>5 DEF Rows
  <2>2. row'[l.instance] = row[l.instance]
    BY <1>2, <2>1
  <2> QED BY <2>1, <2>2 DEF IInv, KeysOfThisPairing
<1>10. PairedByItsCode' /\ TokensPaired'
  BY <1>2, <1>3 DEF IInv, PairedByItsCode, TokensPaired, Rows
<1>11. BlobsUnderPath' /\ UploadsUnderPath'
  <2>1. \A j \in Rows : row'[j].path = row[j].path
    BY <1>2 DEF Rows
  <2> QED BY <2>1 DEF IInv, InstancesTypeOK, mediaVars, BlobsUnderPath, UploadsUnderPath
<1> QED BY <1>3, <1>6, <1>7, <1>8, <1>9, <1>10, <1>11 DEF IInv, Fresh

LEMMA RotateInvariant ==
  ASSUME IInv, NEW i \in Instances, Rotate(i) PROVE IInv'
<1> DEFINE r == [row[i] EXCEPT !.status = "pending", !.code = codes + 1, !.token = NoToken]
<1>1. /\ i \in Rows /\ codes < MaxCodes /\ codes' = codes + 1
      /\ row' = [row EXCEPT ![i] = r] /\ keys' = RevokeAll(i)
      /\ UNCHANGED <<mediaVars, creating, pairing, request, born, tokens, pairedBy>>
  BY DEF Rotate
<1>2. codes + 1 \in Nat /\ codes' \in 0 .. MaxCodes /\ row[i] \in InstanceRow
  BY <1>1, InstancesAssumption DEF IInv, InstancesTypeOK, Rows
<1>3. "pending" \in Statuses /\ "pending" # "paired" /\ NoToken \in Nat
  BY DEF Statuses, NoToken
<1>4. r \in InstanceRow /\ r.status = "pending" /\ r.token = NoToken /\ r.path = row[i].path
  BY <1>2, <1>3 DEF InstanceRow
<1> HIDE DEF r
<1> QED BY <1>1, <1>2, <1>3, <1>4, RevokeInvariant

LEMMA EndInvariant ==
  ASSUME IInv, NEW i \in Instances, EndInstance(i) PROVE IInv'
<1> DEFINE r == [row[i] EXCEPT !.token = NoToken,
                   !.status = IF row[i].status = "pending" THEN "cancelled" ELSE "revoked"]
<1>1. /\ i \in Rows /\ row' = [row EXCEPT ![i] = r] /\ keys' = RevokeAll(i)
      /\ UNCHANGED <<mediaVars, creating, pairing, request, born, codes, tokens, pairedBy>>
  BY DEF EndInstance
<1>2. codes' \in 0 .. MaxCodes /\ row[i] \in InstanceRow
  BY <1>1 DEF IInv, InstancesTypeOK, Rows
<1>3. r \in InstanceRow /\ r.status # "paired" /\ r.token = NoToken /\ r.path = row[i].path
  BY <1>2 DEF InstanceRow, Statuses, NoToken
<1> HIDE DEF r
<1> QED BY <1>1, <1>2, <1>3, RevokeInvariant

LEMMA DeleteInvariant ==
  ASSUME IInv, NEW i \in Instances, DeleteInstance(i) PROVE IInv'
<1>1. /\ i \in Rows /\ i \notin assets \cup albums /\ ~UploadActive(i)
      /\ row' = [row EXCEPT ![i] = None]
      /\ keys' = {k \in keys : k.instance # i} /\ blobs' = {b \in blobs : b.instance # i}
      /\ UNCHANGED <<uploads, assets, albums, creating, pairing, request, born, codes, tokens,
                     pairedBy>>
  BY DEF DeleteInstance
<1>2. /\ row' \in [Instances -> InstanceRow \cup {None}]
      /\ \A j \in Instances : j # i => row'[j] = row[j]
  BY <1>1 DEF IInv, InstancesTypeOK
<1>3. Rows' = Rows \ {i} /\ \A j \in Rows' : row'[j] = row[j]
  BY <1>1, <1>2 DEF IInv, InstancesTypeOK, Rows
<1>4. \A u \in uploads : u.instance # i
  BY <1>1 DEF UploadActive
<1>5. InstancesTypeOK'
  BY <1>1, <1>2, <1>3, <1>4 DEF IInv, InstancesTypeOK
<1>6. Fresh' /\ KeyIds' /\ RequestsTraced'
  BY <1>1, <1>3 DEF IInv, Fresh, KeyIds, RequestsTraced
<1>7. TokensPaired' /\ PairedByItsCode'
  BY <1>1, <1>3 DEF IInv, TokensPaired, PairedByItsCode
<1>8. KeysOfThisPairing' /\ BlobsUnderPath' /\ UploadsUnderPath'
  <2>1. /\ \A k \in keys' : k \in keys /\ k.instance \in Rows'
        /\ \A b \in blobs' : b \in blobs /\ b.instance \in Rows'
        /\ \A u \in uploads' : u \in uploads /\ u.instance \in Rows'
    BY <1>1, <1>3, <1>4 DEF IInv, InstancesTypeOK
  <2> QED BY <1>3, <2>1 DEF IInv, KeysOfThisPairing, BlobsUnderPath, UploadsUnderPath
<1> QED BY <1>5, <1>6, <1>7, <1>8 DEF IInv

-----------------------------------------------------------------------------
(***************************************************************************)
(* Pairing.                                                                *)
(***************************************************************************)

\* A step that changes only lookups.
LEMMA LookUpInvariant ==
  ASSUME IInv, pairing' \in [Clients -> Found \cup {None}],
         UNCHANGED <<row, keys, mediaVars, creating, request, born, codes, tokens, pairedBy>>
  PROVE  IInv'
<1>1. Rows' = Rows
  BY DEF Rows
<1>2. InstancesTypeOK'
  BY <1>1 DEF IInv, InstancesTypeOK, mediaVars
<1> QED BY <1>1, <1>2
        DEF IInv, mediaVars, Fresh, KeyIds, RequestsTraced, TokensPaired, KeysOfThisPairing,
            PairedByItsCode, BlobsUnderPath, UploadsUnderPath

LEMMA PairInvariant ==
  ASSUME IInv, NEW c \in Clients, Pair(c) PROVE IInv'
<1> DEFINE i == pairing[c].instance
           r == [row[i] EXCEPT !.status = "paired", !.token = tokens + 1]
<1>1. /\ pairing[c] # None /\ tokens < MaxTokens /\ tokens' = tokens + 1
      /\ i \in Rows /\ row[i].code = pairing[c].code /\ row[i].status = "pending"
      /\ row' = [row EXCEPT ![i] = r]
      /\ pairedBy' = [pairedBy EXCEPT ![i] = pairing[c].code]
      /\ pairing' = [pairing EXCEPT ![c] = None]
      /\ UNCHANGED <<keys, mediaVars, creating, request, born, codes>>
  BY DEF Pair, Pairable
<1>2. /\ pairing[c].code \in Nat /\ i \in Instances /\ row[i] \in InstanceRow
      /\ row \in [Instances -> InstanceRow \cup {None}]
  BY <1>1 DEF IInv, InstancesTypeOK, Rows, Found
<1>3. tokens + 1 \in Nat /\ tokens' \in 0 .. MaxTokens /\ "paired" \in Statuses
  BY <1>1, InstancesAssumption DEF IInv, InstancesTypeOK, Statuses
<1>4. /\ r \in InstanceRow /\ r.status = "paired" /\ r.path = row[i].path
      /\ r.code = row[i].code
  BY <1>2, <1>3 DEF InstanceRow
<1>5. r # None
  BY <1>4, InstancesAssumption
<1> HIDE DEF r, i
<1>6. /\ row'[i] = r /\ row' \in [Instances -> InstanceRow \cup {None}]
      /\ \A j \in Instances : j # i => row'[j] = row[j]
  BY <1>1, <1>2, <1>4
<1>7. Rows' = Rows
  BY <1>1, <1>5, <1>6 DEF Rows
<1>8. /\ pairedBy'[i] = r.code /\ pairedBy' \in [Instances -> Nat \cup {None}]
      /\ \A j \in Instances : j # i => pairedBy'[j] = pairedBy[j]
  BY <1>1, <1>2, <1>4 DEF IInv, InstancesTypeOK
<1>9. pairing' \in [Clients -> Found \cup {None}]
  BY <1>1 DEF IInv, InstancesTypeOK
<1>10. InstancesTypeOK'
  BY <1>1, <1>3, <1>6, <1>7, <1>8, <1>9 DEF IInv, InstancesTypeOK, mediaVars
<1>11. KeysOfThisPairing'
  <2> SUFFICES ASSUME NEW k \in keys, ~k.revoked
               PROVE  row'[k.instance].status = "paired" /\ row'[k.instance].token = k.pairing
    BY <1>1 DEF KeysOfThisPairing
  <2>1. k.instance \in Instances /\ row[k.instance].status = "paired"
    BY DEF IInv, InstancesTypeOK, KeysOfThisPairing, Rows
  <2>2. k.instance # i
    BY <1>1, <2>1
  <2> QED BY <1>6, <2>1, <2>2 DEF IInv, KeysOfThisPairing
<1>12. PairedByItsCode'
  BY <1>4, <1>6, <1>7, <1>8 DEF IInv, PairedByItsCode, Rows
<1>13. TokensPaired'
  BY <1>4, <1>6, <1>7 DEF IInv, TokensPaired, Rows
<1>14. BlobsUnderPath' /\ UploadsUnderPath'
  <2>1. \A j \in Rows : row'[j].path = row[j].path
    BY <1>4, <1>6 DEF Rows
  <2> QED BY <1>1, <2>1 DEF IInv, InstancesTypeOK, mediaVars, BlobsUnderPath, UploadsUnderPath
<1>15. Fresh' /\ KeyIds' /\ RequestsTraced'
  BY <1>1, <1>7 DEF IInv, Fresh, KeyIds, RequestsTraced
<1> QED BY <1>10, <1>11, <1>12, <1>13, <1>14, <1>15 DEF IInv

LEMMA BootstrapInvariant == ASSUME IInv, Bootstrap PROVE IInv'
<1>1. PICK c \in Clients : Pair(c) \/ GiveUpPairing(c) \/ \E i \in Instances : LookUp(c, i)
  BY DEF Bootstrap
<1>2. CASE Pair(c)
  BY <1>2, PairInvariant
<1>3. CASE GiveUpPairing(c)
  <2>1. pairing' \in [Clients -> Found \cup {None}]
    BY <1>3 DEF GiveUpPairing, IInv, InstancesTypeOK
  <2> QED BY <1>3, <2>1, LookUpInvariant DEF GiveUpPairing
<1>4. ASSUME NEW i \in Instances, LookUp(c, i) PROVE IInv'
  <2> DEFINE f == [instance |-> i, code |-> row[i].code]
  <2>1. row[i] \in InstanceRow
    BY <1>4 DEF LookUp, IInv, InstancesTypeOK, Rows
  <2>2. f \in Found
    BY <2>1 DEF Found, InstanceRow
  <2>3. pairing' = [pairing EXCEPT ![c] = f]
    BY <1>4 DEF LookUp
  <2> HIDE DEF f
  <2>4. pairing' \in [Clients -> Found \cup {None}]
    BY <2>2, <2>3 DEF IInv, InstancesTypeOK
  <2> QED BY <1>4, <2>4, LookUpInvariant DEF LookUp
<1> QED BY <1>1, <1>2, <1>3, <1>4

-----------------------------------------------------------------------------
(***************************************************************************)
(* Requests.                                                               *)
(***************************************************************************)

Key == [id : Nat, instance : Rows, revoked : BOOLEAN, pairing : Nat]

\* A request authenticates, or ends and leaves more assets, albums or uploads
\* that have not begun.
LEMMA RequestInvariant ==
  ASSUME IInv, MediaType', RequestsTraced', request' \in [Requests -> AuthContext \cup {None}],
         \A u \in uploads' : u \in uploads \/ u.state = "receiving",
         UNCHANGED <<row, keys, blobs, creating, pairing, born, codes, tokens, pairedBy>>
  PROVE  IInv'
<1>1. Rows' = Rows
  BY DEF Rows
<1>2. InstancesTypeOK'
  BY <1>1 DEF IInv, InstancesTypeOK, MediaType
<1>3. UploadsUnderPath'
  BY DEF IInv, UploadsUnderPath
<1> QED BY <1>1, <1>2, <1>3
        DEF IInv, Fresh, KeyIds, TokensPaired, KeysOfThisPairing, PairedByItsCode, BlobsUnderPath

\* The request that ends is traced no more, the others stay.
LEMMA EndedRequest ==
  ASSUME IInv, NEW r \in Requests, request' = [request EXCEPT ![r] = None], keys' = keys
  PROVE  RequestsTraced' /\ request' \in [Requests -> AuthContext \cup {None}]
<1>1. \A q \in Requests : request'[q] # None => request'[q] = request[q]
  BY DEF IInv, InstancesTypeOK
<1>2. RequestsTraced'
  BY <1>1 DEF IInv, RequestsTraced
<1> QED BY <1>2 DEF IInv, InstancesTypeOK

\* A request that authenticates with a credential that can be traced.
LEMMA NewRequest ==
  ASSUME IInv, NEW r \in Requests, NEW a \in AuthContext,
         request' = [request EXCEPT ![r] = a],
         \/ a.kind = "device" /\ a.hash = a.pairing
         \/ a.kind = "api_key" /\ \A k \in keys : k.id = a.key => k.pairing = a.pairing,
         UNCHANGED <<row, keys, mediaVars, creating, pairing, born, codes, tokens, pairedBy>>
  PROVE  IInv'
<1>1. /\ request' \in [Requests -> AuthContext \cup {None}] /\ request'[r] = a
      /\ \A q \in Requests : q # r => request'[q] = request[q]
  BY DEF IInv, InstancesTypeOK
<1>2. RequestsTraced'
  BY <1>1 DEF IInv, RequestsTraced
<1>3. MediaType' /\ \A u \in uploads' : u \in uploads
  BY DEF IInv, InstancesTypeOK, MediaType, mediaVars, Rows
<1> QED BY <1>1, <1>2, <1>3, RequestInvariant DEF mediaVars

LEMMA AuthenticateInvariant ==
  ASSUME IInv, NEW r \in Requests,
         (\E i \in Instances : AuthenticateDevice(r, i)) \/ (\E k \in keys : AuthenticateKey(r, k))
  PROVE  IInv'
<1>1. ASSUME NEW i \in Instances, AuthenticateDevice(r, i) PROVE IInv'
  <2> DEFINE a == [instance |-> i, kind |-> "device", key |-> 0, hash |-> row[i].token,
                   pairing |-> row[i].token]
  <2>1. row[i].token \in Nat
    BY <1>1 DEF AuthenticateDevice, IInv, InstancesTypeOK, InstanceRow, Rows
  <2>2. a \in AuthContext /\ a.kind = "device" /\ a.hash = a.pairing
    BY <2>1 DEF AuthContext
  <2>3. /\ request' = [request EXCEPT ![r] = a]
        /\ UNCHANGED <<row, keys, mediaVars, creating, pairing, born, codes, tokens, pairedBy>>
    BY <1>1 DEF AuthenticateDevice
  <2> HIDE DEF a
  <2> QED BY <2>2, <2>3, NewRequest
<1>2. ASSUME NEW k \in keys, AuthenticateKey(r, k) PROVE IInv'
  <2> DEFINE a == [instance |-> k.instance, kind |-> "api_key", key |-> k.id, hash |-> 0,
                   pairing |-> k.pairing]
  <2>1. k.instance \in Instances /\ k.id \in Nat /\ k.pairing \in Nat
    BY DEF IInv, InstancesTypeOK, Rows
  <2>2. a \in AuthContext /\ a.kind = "api_key" /\ a.key = k.id /\ a.pairing = k.pairing
    BY <2>1 DEF AuthContext
  <2>3. \A l \in keys : l.id = k.id => l.pairing = k.pairing
    BY DEF IInv, KeyIds
  <2>4. /\ request' = [request EXCEPT ![r] = a]
        /\ UNCHANGED <<row, keys, mediaVars, creating, pairing, born, codes, tokens, pairedBy>>
    BY <1>2 DEF AuthenticateKey
  <2> HIDE DEF a
  <2> QED BY <2>2, <2>3, <2>4, NewRequest
<1> QED BY <1>1, <1>2

\* What create_api_key finds when it holds the write lock: the credential of the
\* request belongs to the pairing of now.
LEMMA AuthorizedNow ==
  ASSUME IInv, NEW r \in Requests, request[r] # None, StillAuthorized(request[r])
  PROVE  /\ request[r].instance \in Rows /\ row[request[r].instance].status = "paired"
         /\ row[request[r].instance].token = request[r].pairing
<1> DEFINE a == request[r]
<1>1. a.instance \in Rows /\ row[a.instance].status = "paired"
  BY DEF StillAuthorized
<1>2. CASE a.kind = "device" /\ row[a.instance].token = a.hash
  BY <1>1, <1>2 DEF IInv, RequestsTraced
<1>3. ASSUME a.kind = "api_key", NEW k \in Active(a.instance), k.id = a.key
      PROVE  row[a.instance].token = a.pairing
  <2>1. k \in keys /\ ~k.revoked /\ k.instance = a.instance
    BY <1>3 DEF Active
  <2>2. k.pairing = a.pairing
    BY <1>3, <2>1 DEF IInv, RequestsTraced
  <2> QED BY <2>1, <2>2 DEF IInv, KeysOfThisPairing
<1> QED BY <1>1, <1>2, <1>3 DEF StillAuthorized

LEMMA CreateKeyInvariant ==
  ASSUME IInv, NEW r \in Requests, CreateKey(r) PROVE IInv'
<1>1. PICK n \in 1 .. MaxKeys :
        /\ \A k \in keys : k.id # n
        /\ \A q \in Requests : request[q] # None => request[q].key # n
        /\ keys' = keys \cup {[id |-> n, instance |-> request[r].instance, revoked |-> FALSE,
                               pairing |-> request[r].pairing]}
  BY DEF CreateKey
<1> DEFINE new == [id |-> n, instance |-> request[r].instance, revoked |-> FALSE,
                   pairing |-> request[r].pairing]
<1>2. /\ request[r] # None /\ StillAuthorized(request[r])
      /\ request' = [request EXCEPT ![r] = None]
      /\ UNCHANGED <<row, mediaVars, creating, pairing, born, codes, tokens, pairedBy>>
  BY DEF CreateKey
<1>3. /\ request[r].instance \in Rows /\ row[request[r].instance].status = "paired"
      /\ row[request[r].instance].token = request[r].pairing
  BY <1>2, AuthorizedNow
<1>4. n \in Nat /\ request[r].pairing \in Nat
  BY <1>2, InstancesAssumption DEF IInv, InstancesTypeOK, AuthContext
<1>5. /\ new \in Key /\ new.id = n /\ row[new.instance].status = "paired"
      /\ row[new.instance].token = new.pairing
  BY <1>3, <1>4 DEF Key
<1>6. keys' = keys \cup {new}
  BY <1>1
<1> HIDE DEF new
<1>7. Rows' = Rows
  BY <1>2 DEF Rows
<1>8. request' \in [Requests -> AuthContext \cup {None}]
      /\ \A q \in Requests : request'[q] # None => request'[q] = request[q]
  BY <1>2 DEF IInv, InstancesTypeOK
<1>9. InstancesTypeOK'
  BY <1>2, <1>5, <1>6, <1>7, <1>8 DEF IInv, InstancesTypeOK, mediaVars, Key
<1>10. KeyIds'
  BY <1>1, <1>5, <1>6 DEF IInv, KeyIds
<1>11. RequestsTraced'
  BY <1>1, <1>5, <1>6, <1>8 DEF IInv, RequestsTraced
<1>12. KeysOfThisPairing'
  BY <1>2, <1>5, <1>6 DEF IInv, KeysOfThisPairing
<1> QED BY <1>2, <1>7, <1>9, <1>10, <1>11, <1>12
        DEF IInv, mediaVars, Fresh, TokensPaired, PairedByItsCode, BlobsUnderPath,
            UploadsUnderPath

LEMMA RevokeKeyInvariant ==
  ASSUME IInv, NEW r \in Requests, NEW k \in keys, RevokeKey(r, k) PROVE IInv'
<1> DEFINE l == [k EXCEPT !.revoked = TRUE]
<1>1. /\ keys' = (keys \ {k}) \cup {l} /\ request' = [request EXCEPT ![r] = None]
      /\ UNCHANGED <<row, mediaVars, creating, pairing, born, codes, tokens, pairedBy>>
  BY DEF RevokeKey
<1>2. keys \subseteq Key
  BY DEF IInv, InstancesTypeOK, Key
<1>3. l \in Key /\ l.id = k.id /\ l.pairing = k.pairing /\ l.revoked
  BY <1>2 DEF Key
<1> HIDE DEF l
<1>4. Rows' = Rows
  BY <1>1 DEF Rows
<1>5. request' \in [Requests -> AuthContext \cup {None}]
      /\ \A q \in Requests : request'[q] # None => request'[q] = request[q]
  BY <1>1 DEF IInv, InstancesTypeOK
<1>6. InstancesTypeOK'
  BY <1>1, <1>2, <1>3, <1>4, <1>5 DEF IInv, InstancesTypeOK, mediaVars, Key
<1>7. KeyIds'
  BY <1>1, <1>3 DEF IInv, KeyIds
<1>8. RequestsTraced'
  BY <1>1, <1>3, <1>5 DEF IInv, RequestsTraced
<1>9. KeysOfThisPairing'
  BY <1>1, <1>3 DEF IInv, KeysOfThisPairing
<1> QED BY <1>1, <1>4, <1>6, <1>7, <1>8, <1>9
        DEF IInv, mediaVars, Fresh, TokensPaired, PairedByItsCode, BlobsUnderPath,
            UploadsUnderPath

LEMMA UploadRequestInvariant ==
  ASSUME IInv, NEW r \in Requests,
         CreateUpload(r) \/ Deduplicate(r) \/ SyncAlbum(r) \/ EndRequest(r)
  PROVE  IInv'
<1>1. /\ request[r] # None /\ request' = [request EXCEPT ![r] = None]
      /\ UNCHANGED <<row, keys, blobs, creating, pairing, born, codes, tokens, pairedBy>>
  BY DEF CreateUpload, Deduplicate, SyncAlbum, EndRequest, mediaVars
<1>2. RequestsTraced' /\ request' \in [Requests -> AuthContext \cup {None}]
  BY <1>1, EndedRequest
<1>3. MediaType /\ Rows' = Rows
  BY <1>1 DEF IInv, InstancesTypeOK, MediaType, Rows
<1>4. CASE CreateUpload(r)
  <2> DEFINE i == request[r].instance
  <2>1. PICK n \in 1 .. MaxUploads :
          uploads' = uploads \cup {[id |-> n, instance |-> i, state |-> "receiving",
                                    path |-> None]}
    BY <1>4 DEF CreateUpload
  <2> DEFINE u == [id |-> n, instance |-> i, state |-> "receiving", path |-> None]
  <2>2. i \in Rows /\ assets' = assets \cup {i} /\ albums' = albums
    BY <1>4 DEF CreateUpload
  <2>3. n \in Nat /\ "receiving" \in UploadStates
    BY InstancesAssumption DEF UploadStates
  <2>4. /\ u \in [id : Nat, instance : Rows, state : UploadStates, path : Paths \cup {None}]
        /\ u.state = "receiving"
    BY <2>2, <2>3
  <2>5. uploads' = uploads \cup {u}
    BY <2>1
  <2> HIDE DEF u, i
  <2>6. MediaType'
    BY <1>1, <1>3, <2>2, <2>4, <2>5 DEF MediaType
  <2> QED BY <1>1, <1>2, <2>4, <2>5, <2>6, RequestInvariant
<1>5. CASE Deduplicate(r)
  <2>1. request[r].instance \in Rows
    BY <1>3, <1>5 DEF Deduplicate, MediaType
  <2>2. MediaType' /\ uploads' = uploads
    BY <1>1, <1>3, <1>5, <2>1 DEF Deduplicate, MediaType
  <2> QED BY <1>1, <1>2, <2>2, RequestInvariant
<1>6. CASE SyncAlbum(r)
  <2>1. MediaType' /\ uploads' = uploads
    BY <1>1, <1>3, <1>6 DEF SyncAlbum, MediaType
  <2> QED BY <1>1, <1>2, <2>1, RequestInvariant
<1>7. CASE EndRequest(r)
  <2>1. MediaType' /\ uploads' = uploads
    BY <1>3, <1>7 DEF EndRequest, MediaType, mediaVars
  <2> QED BY <1>1, <1>2, <2>1, RequestInvariant
<1> QED BY <1>4, <1>5, <1>6, <1>7

-----------------------------------------------------------------------------
LEMMA StepInvariant == ASSUME IInv, [Next]_vars PROVE IInv'
<1>1. CASE Administer
  BY <1>1, CheckPathInvariant, InsertInvariant, AbandonInvariant, ChangePathInvariant,
     RotateInvariant, EndInvariant, DeleteInvariant DEF Administer
<1>2. CASE Serve
  BY <1>2, AuthenticateInvariant, CreateKeyInvariant, RevokeKeyInvariant, UploadRequestInvariant
     DEF Serve
<1>3. CASE UNCHANGED vars
  <2>1. MediaType' /\ RequestsTraced' /\ request' = request /\ uploads' = uploads
    BY <1>3 DEF vars, controlVars, mediaVars, IInv, InstancesTypeOK, MediaType, RequestsTraced,
                Rows
  <2>2. request' \in [Requests -> AuthContext \cup {None}]
    BY <2>1 DEF IInv, InstancesTypeOK
  <2> QED BY <1>3, <2>1, <2>2, RequestInvariant DEF vars, controlVars, mediaVars
<1> QED BY <1>1, <1>2, <1>3, BootstrapInvariant, MediaInvariant DEF Next

\* The inductive invariant holds in every reachable state.
THEOREM InvariantHolds == Spec => []IInv
<1>1. Init => IInv
  BY InitInvariant
<1>2. IInv /\ [Next]_vars => IInv'
  BY StepInvariant
<1> QED BY <1>1, <1>2, PTL DEF Spec

\* Every variable keeps its type, and no row refers to an instance that is gone.
THEOREM TypeCorrect == Spec => []InstancesTypeOK
<1>1. IInv => InstancesTypeOK
  BY DEF IInv
<1> QED BY <1>1, InvariantHolds, PTL

\* No key outlives the pairing it was created under, whatever requests were
\* authenticated before a rotation, a removal or a revocation.
THEOREM KeysEndWithPairing == Spec => []KeysOfThisPairing
<1>1. IInv => KeysOfThisPairing
  BY DEF IInv
<1> QED BY <1>1, InvariantHolds, PTL

\* A code that was rotated away pairs nobody, looked up before or not.
THEOREM CodesPairOnce == Spec => []PairedByItsCode
<1>1. IInv => PairedByItsCode
  BY DEF IInv
<1> QED BY <1>1, InvariantHolds, PTL

\* The path of an account does not move away from under its blobs.
THEOREM PathsHold == Spec => []BlobsUnderPath
<1>1. IInv => BlobsUnderPath
  BY DEF IInv
<1> QED BY <1>1, InvariantHolds, PTL

-----------------------------------------------------------------------------
(***************************************************************************)
(* What a step may not do to a row.                                        *)
(***************************************************************************)

\* A row that changes without going away: by the administrator, who leaves the
\* token or takes it, or by a client that pairs one that waits for it.
LEMMA RowSteps ==
  ASSUME IInv, [Next]_vars, NEW i \in Rows, row'[i] # row[i]
  PROVE  \/ row'[i] = None
         \/ row'[i].token = row[i].token /\ row'[i].status = row[i].status
         \/ row[i].status \in {"pending", "paired"} /\ row'[i].token = NoToken
         \/ row[i].status = "pending" /\ row[i].token = NoToken
<1>1. row \in [Instances -> InstanceRow \cup {None}] /\ row[i] \in InstanceRow /\ i \in Instances
  BY DEF IInv, InstancesTypeOK, Rows
<1>2. i \notin creating
  BY DEF IInv, Fresh
<1>3. CASE Administer
  <2>1. PICK j \in Instances :
          \/ CheckPath(j) \/ InsertInstance(j) \/ AbandonCreate(j)
          \/ \E p \in Paths : ChangePath(j, p)
          \/ Rotate(j) \/ EndInstance(j) \/ DeleteInstance(j)
    BY <1>3 DEF Administer
  <2>2. CASE CheckPath(j) \/ AbandonCreate(j)
    BY <2>2 DEF CheckPath, AbandonCreate
  <2>3. CASE InsertInstance(j)
    BY <1>1, <1>2, <2>3 DEF InsertInstance
  <2>4. ASSUME NEW p \in Paths, ChangePath(j, p)
        PROVE  row'[i].token = row[i].token /\ row'[i].status = row[i].status
    BY <1>1, <2>4 DEF ChangePath, InstanceRow
  <2>5. CASE Rotate(j)
    BY <1>1, <2>5 DEF Rotate, InstanceRow
  <2>6. CASE EndInstance(j)
    BY <1>1, <2>6 DEF EndInstance, InstanceRow
  <2>7. CASE DeleteInstance(j)
    BY <1>1, <2>7 DEF DeleteInstance
  <2> QED BY <2>1, <2>2, <2>3, <2>4, <2>5, <2>6, <2>7
<1>4. CASE Bootstrap
  <2>1. PICK c \in Clients : Pair(c) \/ GiveUpPairing(c) \/ \E j \in Instances : LookUp(c, j)
    BY <1>4 DEF Bootstrap
  <2>2. CASE Pair(c)
    BY <1>1, <2>2 DEF Pair, Pairable
  <2> QED BY <2>1, <2>2 DEF GiveUpPairing, LookUp
<1>5. CASE Serve
  BY <1>5 DEF Serve, AuthenticateDevice, AuthenticateKey, CreateKey, RevokeKey, CreateUpload,
              Deduplicate, SyncAlbum, EndRequest
<1>6. CASE Media
  BY <1>6 DEF Media, BeginCommit, CommitMetadata, MarkUnknown, MarkFailed, DeleteAssets, Reclaim,
              controlVars
<1>7. CASE UNCHANGED vars
  BY <1>7 DEF vars, controlVars
<1> QED BY <1>3, <1>4, <1>5, <1>6, <1>7 DEF Next

\* A client that is paired keeps its token until the administrator takes it; no
\* other client replaces it.
THEOREM TokenIsKept == Spec => TokenKept
<1>1. ASSUME IInv, [Next]_vars, NEW i \in Rows, row[i].token # NoToken
      PROVE  row'[i] = None \/ row'[i].token \in {row[i].token, NoToken}
  BY <1>1, RowSteps
<1>2. IInv /\ [Next]_vars =>
        [\A i \in Rows : row[i].token # NoToken =>
           \/ row'[i] = None
           \/ row'[i].token \in {row[i].token, NoToken}]_vars
  BY <1>1
<1> QED BY <1>2, InvariantHolds, PTL DEF Spec, TokenKept

\* Cancelled and revoked are final.
THEOREM EndedIsFinal == Spec => EndedStaysEnded
<1>1. ASSUME IInv, [Next]_vars, NEW i \in Rows, row[i].status \in {"cancelled", "revoked"}
      PROVE  row'[i] = None \/ row'[i].status = row[i].status
  BY <1>1, RowSteps
<1>2. IInv /\ [Next]_vars =>
        [\A i \in Rows : row[i].status \in {"cancelled", "revoked"} =>
           \/ row'[i] = None
           \/ row'[i].status = row[i].status]_vars
  BY <1>1
<1> QED BY <1>2, InvariantHolds, PTL DEF Spec, EndedStaysEnded
=============================================================================
