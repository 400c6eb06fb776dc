----------------------------- MODULE PartReceive -----------------------------
(***************************************************************************)
(* How the parts of uploads come in: put_part of routes.rs with its two    *)
(* admission permits, and put_part of storage.rs, which writes the body to *)
(* a file of its own and links it to the name of the part.                 *)
(*                                                                         *)
(* Any number of calls may carry the same part.  A call acts on a row it   *)
(* read before it waited for its permits and its body; by then the part    *)
(* may be there, the commit may have begun or the upload may be gone.      *)
(***************************************************************************)
EXTENDS Naturals, FiniteSets

CONSTANTS
  Accounts, Uploads, Parts,
  PartsOf,      \* the parts of each upload's manifest
  Owner,        \* the account of each upload
  Calls,        \* put_part requests in flight
  Semaphores,   \* identities of the semaphores of accounts
  GlobalLimit,  \* UPLOAD_GLOBAL_CONCURRENCY
  AccountLimit, \* UPLOAD_PER_ACCOUNT_CONCURRENCY
  None          \* no call, no semaphore

ASSUME PartReceiveAssumption ==
  /\ Owner \in [Uploads -> Accounts] /\ PartsOf \in [Uploads -> SUBSET Parts]
  /\ GlobalLimit \in Nat \ {0} /\ AccountLimit \in 1 .. GlobalLimit
  /\ IsFiniteSet(Calls)
  /\ None \notin Semaphores

VARIABLES
  \* --- the database ---
  status,   \* of an upload: receiving, begun, settled or deleted
  received, \* <<u, p>> whose upload_parts row has received_at
  \* --- the data directory ---
  file,     \* uploads/<u>/<p>.part: missing, good or bad
  \* --- the process ---
  call,     \* of a put_part: upload, part, semaphore and where it stands
  registry, \* the semaphore the map of UploadAdmission names, by account
  \* --- observations ---
  damaged   \* parts whose bytes have rotted

vars == <<status, received, file, call, registry, damaged>>

\* The rows of upload_parts there are from the start.
Slots == {q \in Uploads \X Parts : q[2] \in PartsOf[q[1]]}

Statuses == {"receiving", "begun", "settled", "deleted"}
\* A global permit is held from "account" on, both permits from "body" on.
Writing == {"body", "link", "compare", "mark"}
Steps == {"global", "account"} \cup Writing
Call == [upload : Uploads, part : Parts, semaphore : Semaphores, at : Steps]

Alive(r) == call[r] # None
At(r, S) == Alive(r) /\ call[r].at \in S
Part(r) == <<call[r].upload, call[r].part>>
Go(r, step) == call' = [call EXCEPT ![r].at = step]
End(r) == call' = [call EXCEPT ![r] = None]

Holding == {r \in Calls : At(r, {"account"} \cup Writing)}
WritersOf(s) == {r \in Calls : At(r, Writing) /\ call[r].semaphore = s}
WritersFor(a) == {r \in Calls : At(r, Writing) /\ Owner[call[r].upload] = a}

-----------------------------------------------------------------------------
(***************************************************************************)
(* Admission.  The map holds weak references: a semaphore lives as long as *)
(* a call has a strong one, waiting calls included.                        *)
(***************************************************************************)

\* Mutant: a semaphore nobody has a permit of is dropped from the map.
HasPermit(s) == WritersOf(s) # {}
Strong(s) == \E r \in Calls : Alive(r) /\ call[r].semaphore = s

\* put_part up to its wait, acquire up to its await.
Open(r, u, p) ==
  LET kept == [a \in Accounts |-> IF Strong(registry[a]) THEN registry[a] ELSE None]
  IN /\ ~Alive(r) /\ status[u] = "receiving"
     /\ \E s \in Semaphores :
          /\ IF kept[Owner[u]] # None THEN s = kept[Owner[u]] ELSE ~Strong(s)
          /\ registry' = [kept EXCEPT ![Owner[u]] = s]
          /\ call' = [call EXCEPT ![r] = [upload |-> u, part |-> p, semaphore |-> s,
                                          at |-> "global"]]
     /\ UNCHANGED <<status, received, file, damaged>>

GetGlobal(r) ==
  /\ At(r, {"global"}) /\ Cardinality(Holding) < GlobalLimit
  /\ Go(r, "account")
  /\ UNCHANGED <<status, received, file, registry, damaged>>

GetAccount(r) ==
  /\ At(r, {"account"}) /\ Cardinality(WritersOf(call[r].semaphore)) < AccountLimit
  /\ Go(r, "body")
  /\ UNCHANGED <<status, received, file, registry, damaged>>

\* Mutant: the body is written to the name of the part.
LeaveHalfWritten(r) ==
  /\ Alive(r)
  /\ End(r)
  /\ file' = [file EXCEPT ![Part(r)] = IF At(r, {"body"}) /\ @ = "missing"
                                               THEN "bad" ELSE @]
  /\ UNCHANGED <<status, received, registry, damaged>>

\* The wait times out, the body is not what the manifest says, an operation on
\* files or rows fails, or the client is gone.
Leave(r) ==
  /\ Alive(r)
  /\ End(r)
  /\ UNCHANGED <<status, received, file, registry, damaged>>

-----------------------------------------------------------------------------
(***************************************************************************)
(* Storing a part.                                                         *)
(***************************************************************************)

\* Mutant: received_at is set before the link.
BodyMarked(r) ==
  /\ At(r, {"body"})
  /\ Go(r, "mark")
  /\ UNCHANGED <<status, received, file, registry, damaged>>

\* The whole body is in the temporary file, with the size and hash of the
\* manifest, and synced.
BodyStored(r) ==
  /\ At(r, {"body"})
  /\ Go(r, "link")
  /\ UNCHANGED <<status, received, file, registry, damaged>>

\* link_no_replace; then the temporary name is removed, which may fail.
Link(r) ==
  /\ At(r, {"link"})
  /\ \/ /\ file[Part(r)] = "missing"
        /\ file' = [file EXCEPT ![Part(r)] = "good"]
        /\ Go(r, "mark") \/ End(r)
     \/ /\ file[Part(r)] # "missing"
        /\ Go(r, "compare")
        /\ UNCHANGED file
  /\ UNCHANGED <<status, received, registry, damaged>>

\* existing_part_matches: the part of an earlier call is kept if it is whole.
Compare(r) ==
  /\ At(r, {"compare"})
  /\ IF file[Part(r)] = "good" THEN Go(r, "mark") ELSE End(r)
  /\ UNCHANGED <<status, received, file, registry, damaged>>

\* Mutant: the row is written even if it was deleted.
MarkAlways(r) ==
  /\ At(r, {"mark"})
  /\ received' = received \cup {Part(r)}
  /\ End(r)
  /\ UNCHANGED <<status, file, registry, damaged>>

\* The UPDATE of upload_parts asks for no state of the upload; a deleted one
\* has no rows.
Mark(r) ==
  /\ At(r, {"mark"})
  /\ received' = IF status[call[r].upload] = "deleted" THEN received
                 ELSE received \cup {Part(r)}
  /\ End(r)
  /\ UNCHANGED <<status, file, registry, damaged>>

-----------------------------------------------------------------------------
(***************************************************************************)
(* What happens around it.                                                 *)
(***************************************************************************)

\* Mutant: the missing parts are not counted.
BeginUnchecked(u) ==
  /\ status[u] = "receiving"
  /\ status' = [status EXCEPT ![u] = "begun"]
  /\ UNCHANGED <<received, file, call, registry, damaged>>

\* begin_commit; create_upload lets no manifest in that it would reject.
BeginCommit(u) ==
  /\ status[u] = "receiving" /\ \A p \in PartsOf[u] : <<u, p>> \in received
  /\ status' = [status EXCEPT ![u] = "begun"]
  /\ UNCHANGED <<received, file, call, registry, damaged>>

\* The commit ends as committed, failed or unknown (see UploadCommit).
Settle(u) ==
  /\ status[u] = "begun"
  /\ status' = [status EXCEPT ![u] = "settled"]
  /\ UNCHANGED <<received, file, call, registry, damaged>>

\* The asset is deleted for good: uploads and upload_parts rows go with it, the
\* part files stay.
DeleteUpload(u) ==
  /\ status[u] # "deleted"
  /\ status' = [status EXCEPT ![u] = "deleted"]
  /\ received' = {q \in received : q[1] # u}
  /\ UNCHANGED <<file, call, registry, damaged>>

\* Bytes rot.
Damage(u, p) ==
  /\ file[<<u, p>>] = "good"
  /\ file' = [file EXCEPT ![<<u, p>>] = "bad"]
  /\ damaged' = damaged \cup {<<u, p>>}
  /\ UNCHANGED <<status, received, call, registry>>

\* The process dies and starts again.
Crash ==
  /\ call' = [r \in Calls |-> None]
  /\ registry' = [a \in Accounts |-> None]
  /\ UNCHANGED <<status, received, file, damaged>>

-----------------------------------------------------------------------------
Init ==
  /\ status = [u \in Uploads |-> "receiving"]
  /\ received = {} /\ damaged = {}
  /\ file = [q \in Slots |-> "missing"]
  /\ call = [r \in Calls |-> None]
  /\ registry = [a \in Accounts |-> None]

CallStep(r) ==
  \/ \E u \in Uploads : \E p \in PartsOf[u] : Open(r, u, p)
  \/ GetGlobal(r) \/ GetAccount(r) \/ Leave(r)
  \/ BodyStored(r) \/ Link(r) \/ Compare(r) \/ Mark(r)

UploadStep(u) ==
  BeginCommit(u) \/ Settle(u) \/ DeleteUpload(u) \/ \E p \in PartsOf[u] : Damage(u, p)

Next == (\E r \in Calls : CallStep(r)) \/ (\E u \in Uploads : UploadStep(u)) \/ Crash

Spec == Init /\ [][Next]_vars

-----------------------------------------------------------------------------
(***************************************************************************)
(* Properties.                                                             *)
(***************************************************************************)

\* Every variable has its type, and the rows of parts belong to uploads that
\* exist.
PartReceiveTypeOK ==
  /\ status \in [Uploads -> Statuses]
  /\ received \subseteq {q \in Slots : status[q[1]] # "deleted"}
  /\ file \in [Slots -> {"missing", "good", "bad"}]
  /\ call \in [Calls -> Call \cup {None}]
  /\ \A r \in Calls : Alive(r) => Part(r) \in Slots
  /\ registry \in [Accounts -> Semaphores \cup {None}]
  /\ damaged \subseteq Slots

\* A part whose receipt is recorded is on disk, however many calls carried it
\* and wherever they or the process ended (put_part of routes.rs and storage.rs).
ReceivedStored == \A q \in received : file[q] = "good" \/ q \in damaged

\* Nothing but rot leaves a broken file under the name of a part: a retry is
\* never turned away because an earlier call was cut off (link_no_replace).
PartFilesWhole == \A q \in Slots : file[q] = "bad" => q \in damaged

\* An account never writes more parts at once than its limit, though its
\* semaphore comes and goes with its calls (UploadAdmission).
AccountLimited == \A a \in Accounts : Cardinality(WritersFor(a)) <= AccountLimit

\* To an upload its parts look as PartLedger says: late calls, duplicates and
\* crashes change nothing once its commit has begun (put_part against
\* begin_commit).
L == INSTANCE PartLedger WITH
       phase <- [u \in Uploads |-> CASE status[u] = "receiving" -> "receiving"
                                     [] status[u] = "deleted" -> "gone"
                                     [] OTHER -> "frozen"],
       have <- [u \in Uploads |-> {p \in PartsOf[u] : <<u, p>> \in received}]

ImplementsLedger == L!Spec
=============================================================================
