------------------------------ MODULE Instances ------------------------------
(***************************************************************************)
(* The life of a backup instance: creation, pairing, rotation, revocation  *)
(* and removal (admin.rs, routes.rs bootstrap), its API keys               *)
(* (api_access.rs), and the storage path its account keeps while it has    *)
(* media.                                                                  *)
(*                                                                         *)
(* An instance is an accounts row and its devices row: they are inserted   *)
(* and deleted together and a unique index keeps them one to one.  A code  *)
(* and a token are drawn at random; here the number of a draw stands for   *)
(* both the value and its hash.                                            *)
(*                                                                         *)
(* A request acts on what authentication or a lookup read before it holds  *)
(* the write lock; between the two any other request may commit.           *)
(***************************************************************************)
EXTENDS Naturals, FiniteSets

CONSTANTS
  Instances,   \* ids, never drawn twice
  Paths,       \* storage paths
  Within,      \* <<p, q>>: p lies strictly below q
  DefaultPath, \* "blobs/<account id>" of every instance
  Clients,     \* pairing requests
  Requests,    \* requests of the mobile API
  MaxCodes, MaxTokens, MaxKeys, MaxUploads, \* bounds
  None         \* no row, no value

NoToken == 0
Statuses == {"pending", "paired", "cancelled", "revoked"}
UploadStates == {"receiving", "begun", "unknown"}

\* The devices row and the path of its account.
InstanceRow == [status : Statuses, code : Nat, token : Nat, path : Paths]
\* What the lookup of bootstrap found.
Found == [instance : Instances, code : Nat]
\* AuthContext; `pairing` is what the properties follow, the token that the
\* credential goes back to.
AuthContext == [instance : Instances, kind : {"device", "api_key"}, key : Nat, hash : Nat,
                pairing : Nat]

ASSUME InstancesAssumption ==
  /\ Within \subseteq Paths \X Paths /\ DefaultPath \in [Instances -> Paths]
  /\ MaxCodes \in Nat /\ MaxTokens \in Nat /\ MaxKeys \in Nat /\ MaxUploads \in Nat
  /\ None \notin InstanceRow \cup Found \cup AuthContext

VARIABLES
  \* --- the database ---
  row,      \* of an instance: status, code, token, path; None: no row
  keys,     \* rows of api_keys
  uploads,  \* uploads of an instance: state and path of the final key
  blobs,    \* rows of blobs: the instance and the path they were stored under
  assets,   \* instances that own assets
  albums,   \* instances that own albums, which nothing deletes
  \* --- the process ---
  creating, \* create_instance calls that have checked their path
  pairing,  \* of a client: the instance and code its lookup found, or None
  request,  \* of a request: its AuthContext, or None
  \* --- what has been drawn ---
  born, codes, tokens,
  \* --- observations, read by the properties only ---
  pairedBy  \* the code that the client paired last sent, by instance

mediaVars == <<uploads, blobs, assets, albums>>
controlVars == <<row, keys, creating, pairing, request, born, codes, tokens, pairedBy>>
vars == <<controlVars, mediaVars>>

Rows == {i \in Instances : row[i] # None}

Overlap(p, q) == p = q \/ <<p, q>> \in Within \/ <<q, p>> \in Within

\* An active key: its row is not revoked.
Active(i) == {k \in keys : k.instance = i /\ ~k.revoked}
RevokeAll(i) == {IF k.instance = i THEN [k EXCEPT !.revoked = TRUE] ELSE k : k \in keys}

-----------------------------------------------------------------------------
(***************************************************************************)
(* The administrator.                                                      *)
(***************************************************************************)

\* create_instance: ensure_unique_path, on a connection of its own.
CheckPath(i) ==
  /\ i \notin born
  /\ \A j \in Rows : ~Overlap(DefaultPath[i], row[j].path)
  /\ born' = born \cup {i} /\ creating' = creating \cup {i}
  /\ UNCHANGED <<row, keys, mediaVars, pairing, request, codes, tokens, pairedBy>>

\* create_instance: the transaction.  Equal paths fail the unique index.
InsertInstance(i) ==
  /\ i \in creating /\ codes < MaxCodes
  /\ \A j \in Rows : row[j].path # DefaultPath[i]
  /\ codes' = codes + 1
  /\ row' = [row EXCEPT ![i] = [status |-> "pending", code |-> codes + 1,
                                token |-> NoToken, path |-> DefaultPath[i]]]
  /\ creating' = creating \ {i}
  /\ UNCHANGED <<keys, mediaVars, pairing, request, born, tokens, pairedBy>>

\* The call fails or is dropped before its transaction.
AbandonCreate(i) ==
  /\ i \in creating
  /\ creating' = creating \ {i}
  /\ UNCHANGED <<row, keys, mediaVars, pairing, request, born, codes, tokens, pairedBy>>

\* UploadActive alone is a mutant: the media that is stored is not asked about.
UploadActive(i) == \E u \in uploads : u.instance = i
MediaOrUpload(i) == UploadActive(i) \/ \E b \in blobs : b.instance = i

\* update_user with another storage path; the overlap check reads while the
\* write lock is held.
ChangePath(i, p) ==
  /\ i \in Rows /\ row[i].path # p
  /\ \A j \in Rows \ {i} : ~Overlap(p, row[j].path)
  /\ ~MediaOrUpload(i)
  /\ row' = [row EXCEPT ![i].path = p]
  /\ UNCHANGED <<keys, mediaVars, creating, pairing, request, born, codes, tokens, pairedBy>>

\* rotate_instance_authorization.
Rotate(i) ==
  /\ i \in Rows /\ row[i].status \in {"pending", "paired"} /\ codes < MaxCodes
  /\ codes' = codes + 1
  /\ row' = [row EXCEPT ![i] = [@ EXCEPT !.status = "pending", !.code = codes + 1,
                                         !.token = NoToken]]
  /\ keys' = RevokeAll(i)
  /\ UNCHANGED <<mediaVars, creating, pairing, request, born, tokens, pairedBy>>

\* remove_instance of an instance in use.
EndInstance(i) ==
  /\ i \in Rows /\ row[i].status \in {"pending", "paired"}
  /\ row' = [row EXCEPT ![i] = [@ EXCEPT !.token = NoToken,
                !.status = IF row[i].status = "pending" THEN "cancelled" ELSE "revoked"]]
  /\ keys' = RevokeAll(i)
  /\ UNCHANGED <<mediaVars, creating, pairing, request, born, codes, tokens, pairedBy>>

\* Mutant: the rows of the keys stay.
DeleteInstanceAlone(i) ==
  /\ i \in Rows /\ row[i].status \in {"cancelled", "revoked"}
  /\ i \notin assets \cup albums /\ ~UploadActive(i) /\ Active(i) = {}
  /\ row' = [row EXCEPT ![i] = None]
  /\ blobs' = {b \in blobs : b.instance # i}
  /\ UNCHANGED <<keys, uploads, assets, albums, creating, pairing, request, born, codes, tokens,
                 pairedBy>>

\* remove_instance of one that has ended: the accounts row goes, and every row
\* that refers to it; blobs are not among the references counted.
DeleteInstance(i) ==
  /\ i \in Rows /\ row[i].status \in {"cancelled", "revoked"}
  /\ i \notin assets \cup albums /\ ~UploadActive(i) /\ Active(i) = {}
  /\ row' = [row EXCEPT ![i] = None]
  /\ keys' = {k \in keys : k.instance # i}
  /\ blobs' = {b \in blobs : b.instance # i}
  /\ UNCHANGED <<uploads, assets, albums, creating, pairing, request, born, codes, tokens,
                 pairedBy>>

-----------------------------------------------------------------------------
(***************************************************************************)
(* Pairing: bootstrap.                                                     *)
(***************************************************************************)

\* The lookup: a pending instance with the code that was sent.
LookUp(c, i) ==
  /\ pairing[c] = None
  /\ i \in Rows /\ row[i].status = "pending" /\ row[i].token = NoToken
  /\ pairing' = [pairing EXCEPT ![c] = [instance |-> i, code |-> row[i].code]]
  /\ UNCHANGED <<row, keys, mediaVars, creating, request, born, codes, tokens, pairedBy>>

\* Mutants of the WHERE clause of the UPDATE: without the code; without the
\* status; by id and code alone.
PairableById(i, code) == i \in Rows /\ row[i].status = "pending" /\ row[i].token = NoToken
PairableByToken(i, code) == i \in Rows /\ row[i].code = code /\ row[i].token = NoToken
PairableByCode(i, code) == i \in Rows /\ row[i].code = code
Pairable(i, code) ==
  /\ i \in Rows
  /\ row[i].code = code /\ row[i].status = "pending" /\ row[i].token = NoToken

Pair(c) ==
  /\ pairing[c] # None /\ tokens < MaxTokens
  /\ LET i == pairing[c].instance IN
       /\ Pairable(i, pairing[c].code)
       /\ tokens' = tokens + 1
       /\ row' = [row EXCEPT ![i] = [@ EXCEPT !.status = "paired", !.token = tokens + 1]]
       /\ pairedBy' = [pairedBy EXCEPT ![i] = pairing[c].code]
  /\ pairing' = [pairing EXCEPT ![c] = None]
  /\ UNCHANGED <<keys, mediaVars, creating, request, born, codes>>

\* The UPDATE changes no row, or the request is dropped.
GiveUpPairing(c) ==
  /\ pairing[c] # None
  /\ pairing' = [pairing EXCEPT ![c] = None]
  /\ UNCHANGED <<row, keys, mediaVars, creating, request, born, codes, tokens, pairedBy>>

-----------------------------------------------------------------------------
(***************************************************************************)
(* Requests of the mobile API.                                             *)
(***************************************************************************)

\* require_auth with the token of the device.
AuthenticateDevice(r, i) ==
  /\ request[r] = None
  /\ i \in Rows /\ row[i].status = "paired"
  /\ request' = [request EXCEPT ![r] = [instance |-> i, kind |-> "device", key |-> 0,
                                        hash |-> row[i].token, pairing |-> row[i].token]]
  /\ UNCHANGED <<row, keys, mediaVars, creating, pairing, born, codes, tokens, pairedBy>>

\* require_auth with an API key.
AuthenticateKey(r, k) ==
  /\ request[r] = None
  /\ ~k.revoked /\ k.instance \in Rows /\ row[k.instance].status = "paired"
  /\ request' = [request EXCEPT ![r] = [instance |-> k.instance, kind |-> "api_key",
                                        key |-> k.id, hash |-> 0, pairing |-> k.pairing]]
  /\ UNCHANGED <<row, keys, mediaVars, creating, pairing, born, codes, tokens, pairedBy>>

\* Mutant: authentication is trusted as long as the device is paired.
StillPaired(a) == a.instance \in Rows /\ row[a.instance].status = "paired"
StillAuthorized(a) ==
  /\ a.instance \in Rows /\ row[a.instance].status = "paired"
  /\ \/ a.kind = "device" /\ row[a.instance].token = a.hash
     \/ a.kind = "api_key" /\ \E k \in Active(a.instance) : k.id = a.key

\* create_api_key.
CreateKey(r) ==
  /\ request[r] # None /\ Cardinality(keys) < MaxKeys
  /\ StillAuthorized(request[r])
  /\ \E n \in 1 .. MaxKeys :
       /\ \A k \in keys : k.id # n
       /\ \A q \in Requests : request[q] # None => request[q].key # n
       /\ keys' = keys \cup {[id |-> n, instance |-> request[r].instance, revoked |-> FALSE,
                              pairing |-> request[r].pairing]}
  /\ request' = [request EXCEPT ![r] = None]
  /\ UNCHANGED <<row, mediaVars, creating, pairing, born, codes, tokens, pairedBy>>

\* revoke_api_key: any key of the account.
RevokeKey(r, k) ==
  /\ request[r] # None /\ k \in Active(request[r].instance)
  /\ keys' = (keys \ {k}) \cup {[k EXCEPT !.revoked = TRUE]}
  /\ request' = [request EXCEPT ![r] = None]
  /\ UNCHANGED <<row, mediaVars, creating, pairing, born, codes, tokens, pairedBy>>

\* create_upload: nothing asks again whether the credential still holds; the
\* foreign keys ask for the rows.
CreateUpload(r) ==
  /\ request[r] # None
  /\ LET i == request[r].instance IN
       /\ i \in Rows
       /\ assets' = assets \cup {i}
       /\ \E n \in 1 .. MaxUploads :
            /\ \A u \in uploads : u.id # n
            /\ uploads' = uploads \cup {[id |-> n, instance |-> i, state |-> "receiving",
                                         path |-> None]}
  /\ request' = [request EXCEPT ![r] = None]
  /\ UNCHANGED <<row, keys, blobs, albums, creating, pairing, born, codes, tokens, pairedBy>>

\* create_upload of a content the account has: only the resource is attached.
Deduplicate(r) ==
  /\ request[r] # None
  /\ LET i == request[r].instance IN
       /\ \E b \in blobs : b.instance = i
       /\ assets' = assets \cup {i}
  /\ request' = [request EXCEPT ![r] = None]
  /\ UNCHANGED <<row, keys, uploads, blobs, albums, creating, pairing, born, codes, tokens,
                 pairedBy>>

\* sync_album.
SyncAlbum(r) ==
  /\ request[r] # None /\ request[r].instance \in Rows
  /\ albums' = albums \cup {request[r].instance}
  /\ request' = [request EXCEPT ![r] = None]
  /\ UNCHANGED <<row, keys, uploads, blobs, assets, creating, pairing, born, codes, tokens,
                 pairedBy>>

\* Any other request, and one that fails.
EndRequest(r) ==
  /\ request[r] # None
  /\ request' = [request EXCEPT ![r] = None]
  /\ UNCHANGED <<row, keys, mediaVars, creating, pairing, born, codes, tokens, pairedBy>>

-----------------------------------------------------------------------------
(***************************************************************************)
(* The media of an instance, as far as its path goes (see UploadCommit).   *)
(***************************************************************************)

\* begin_commit: the final key is made of the account path it reads, or is that
\* of a row with the same content.
BeginCommit(u) ==
  /\ u.state = "receiving"
  /\ \E p \in Paths :
       /\ p = row[u.instance].path \/ [instance |-> u.instance, path |-> p] \in blobs
       /\ uploads' = (uploads \ {u}) \cup {[u EXCEPT !.state = "begun", !.path = p]}
  /\ UNCHANGED <<controlVars, blobs, assets, albums>>

\* commit_metadata inserts or adopts the blob row.
CommitMetadata(u) ==
  /\ u.state = "begun"
  /\ uploads' = uploads \ {u}
  /\ blobs' = blobs \cup {[instance |-> u.instance, path |-> u.path]}
  /\ UNCHANGED <<controlVars, assets, albums>>

\* mark_unknown.
MarkUnknown(u) ==
  /\ u.state = "begun"
  /\ uploads' = (uploads \ {u}) \cup {[u EXCEPT !.state = "unknown"]}
  /\ UNCHANGED <<controlVars, blobs, assets, albums>>

\* mark_failed of an upload that has not begun; it is not active any more.
MarkFailed(u) ==
  /\ u.state = "receiving"
  /\ uploads' = uploads \ {u}
  /\ UNCHANGED <<controlVars, blobs, assets, albums>>

\* The last asset is deleted for good, the uploads with it; LibrarySync says when.
DeleteAssets(i) ==
  /\ i \in assets
  /\ assets' = assets \ {i}
  /\ uploads' = {u \in uploads : u.instance # i}
  /\ UNCHANGED <<controlVars, blobs, albums>>

\* A blob row is reclaimed; UploadCommit says when.
Reclaim(b) ==
  /\ blobs' = blobs \ {b}
  /\ UNCHANGED <<controlVars, uploads, assets, albums>>

-----------------------------------------------------------------------------
Init ==
  /\ row = [i \in Instances |-> None] /\ keys = {} /\ uploads = {} /\ blobs = {}
  /\ assets = {} /\ albums = {} /\ creating = {}
  /\ pairing = [c \in Clients |-> None] /\ request = [r \in Requests |-> None]
  /\ born = {} /\ codes = 0 /\ tokens = 0
  /\ pairedBy = [i \in Instances |-> None]

Administer ==
  \E i \in Instances :
    \/ CheckPath(i) \/ InsertInstance(i) \/ AbandonCreate(i)
    \/ \E p \in Paths : ChangePath(i, p)
    \/ Rotate(i) \/ EndInstance(i) \/ DeleteInstance(i)

Bootstrap == \E c \in Clients : Pair(c) \/ GiveUpPairing(c) \/ \E i \in Instances : LookUp(c, i)

Serve ==
  \E r \in Requests :
    \/ \E i \in Instances : AuthenticateDevice(r, i)
    \/ \E k \in keys : AuthenticateKey(r, k) \/ RevokeKey(r, k)
    \/ CreateKey(r) \/ CreateUpload(r) \/ Deduplicate(r) \/ SyncAlbum(r) \/ EndRequest(r)

Media ==
  \/ \E u \in uploads : BeginCommit(u) \/ CommitMetadata(u) \/ MarkUnknown(u) \/ MarkFailed(u)
  \/ \E i \in Instances : DeleteAssets(i)
  \/ \E b \in blobs : Reclaim(b)

Next == Administer \/ Bootstrap \/ Serve \/ Media

Spec == Init /\ [][Next]_vars

-----------------------------------------------------------------------------
(***************************************************************************)
(* Properties.                                                             *)
(***************************************************************************)

\* Every variable has its type, and rows refer to instances that exist.
InstancesTypeOK ==
  /\ row \in [Instances -> InstanceRow \cup {None}]
  /\ keys \subseteq [id : Nat, instance : Rows, revoked : BOOLEAN, pairing : Nat]
  /\ uploads \subseteq [id : Nat, instance : Rows, state : UploadStates, path : Paths \cup {None}]
  /\ blobs \subseteq [instance : Rows, path : Paths]
  /\ assets \subseteq Rows /\ albums \subseteq Rows
  /\ creating \subseteq born /\ born \subseteq Instances
  /\ pairing \in [Clients -> Found \cup {None}]
  /\ request \in [Requests -> AuthContext \cup {None}]
  /\ codes \in 0 .. MaxCodes /\ tokens \in 0 .. MaxTokens
  /\ pairedBy \in [Instances -> Nat \cup {None}]

\* A key that is not revoked goes back to the token its device has now: one
\* created by a request that was authenticated before a rotation does not come
\* to life with the next pairing (create_api_key against rotate and remove).
KeysOfThisPairing ==
  \A k \in keys : ~k.revoked =>
    /\ row[k.instance].status = "paired"
    /\ row[k.instance].token = k.pairing

\* A paired instance was paired with the code it shows, not with one that was
\* looked up before a rotation (bootstrap against rotate).
PairedByItsCode ==
  \A i \in Rows : row[i].status = "paired" => pairedBy[i] = row[i].code

\* The token a client was given stays until the administrator rotates, ends or
\* deletes the instance: a second client with the same code does not replace it.
TokenKept ==
  [][\A i \in Rows : row[i].token # NoToken =>
       \/ row'[i] = None
       \/ row'[i].token \in {row[i].token, NoToken}]_vars

\* An instance that was cancelled or revoked is never paired again, not by a
\* client that looked it up before either.
EndedStaysEnded ==
  [][\A i \in Rows : row[i].status \in {"cancelled", "revoked"} =>
       \/ row'[i] = None
       \/ row'[i].status = row[i].status]_vars

\* Every blob row lies under the path its account has now, where
\* scoped_blob_key looks for it (update_user against begin_commit and commits).
BlobsUnderPath ==
  \A b \in blobs : b.path = row[b.instance].path
=============================================================================
