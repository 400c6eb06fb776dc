# A formal model of the xszs backup server

TLA+ modules of the photo and video backup server in this repository, the TLC
configurations that check them on small instances, and proofs about them that the TLA+
proof system checks for every value of the constants. Paths below are relative to the
repository; file names without a directory are in `crates/server/src`.

```
tlc -workers 2 -config shared_content.cfg MCUploadCommit.tla    # one run
tlapm UploadCommitProofs.tla                                    # one module of proofs
```

## 1. The system

xszs is one process: an axum HTTP server over a SQLite database (WAL, a pool of ten
connections, foreign keys on) and a data directory. An administrator creates *instances*
(an account and the one device that backs up to it), a device pairs by sending the code it
was given, uploads photos in parts, and reads its library back.

| Component | State it keeps | Operations | Where it is modelled |
|---|---|---|---|
| Upload API, `routes.rs` | `uploads`, `upload_parts`, `assets` rows; semaphores of `UploadAdmission` | create, put_part, status, complete, bootstrap | UploadCommit, PartReceive, LibrarySync, Instances |
| Upload commit, `upload_commit.rs` | `commit_state` and the commit columns, `blobs`, `resources`; per-upload file locks | begin, assemble, publish, commit_metadata, receipts, reconcile | UploadCommit |
| Blob storage, `storage.rs`, `rooted_fs.rs` | part files, staged files, objects | put_part, assemble, inspect, publish, sweep, unlink | UploadCommit, PartReceive |
| Library, `library.rs`, `audit.rs` | `assets`, tags, albums, `account_changes` | favourite, trash, restore, delete, tags, albums, snapshot, change feed, reclamation | LibrarySync; deletion and reclamation also in UploadCommit |
| Administration, `admin.rs` | `accounts`, `devices` | create, change path, rotate, end, delete | Instances |
| Authentication, `auth.rs`, `api_access.rs` | `devices.token_hash`, `api_keys` | pair, authenticate, create and revoke keys | Instances |
| Process, `main.rs` | startup pass, background task | init, run, doctor and scan from start to work; reconcile before listening, every 120 s after | Commands; the passes in UploadCommit |
| Doctor, `doctor.rs` | none | offline checks of rows against files, probes | its locks and probes in Commands; what it asks of active and committed uploads are properties of UploadCommit |
| Login admission, `login_admission.rs` | token buckets in two bounded maps | admit, deny, evict, expire | LoginAdmission |
| Media delivery, `media_delivery.rs` | preview cache | byte ranges, conditional requests, previews | Delivery |
| Runtime locks, `runtime_lock.rs` | two lock files, descriptors of the parents they lie in | acquire, verify, database URL | Commands |
| Database, `database.rs` | the file and its schema | create, validate, connect | Commands; its tables everywhere |
| Configuration, proxy, secrets, metrics, release, web console, deployment | none of the protocol | | not modelled |

How they interact. Everything durable goes through two media with different rules. SQLite
lets one transaction write at a time, takes effect at once and is undone by a crash. The
directory is changed by link, unlink and write, in steps, with no rollback. A completion
holds its upload's lock but interleaves with every other request, with the reclamation of
objects (which unlinks *inside* an open transaction) and with the sweep of staged files
(which works from a set of keys it read earlier). A client that goes away drops the future
that serves it at any await. The change log ties writes to readers: a client is told to
take the head, walk the library in pages, then replay every later event.

What is hard: state read before an await and acted on after it; an order between rows and
files; crashes between two steps; retries of what was done already; two versions of one
resource overtaking each other; a limit held in a map of weak references; paths that lead
elsewhere than when they were checked. `PROJECT.json`
lists each of these under "hazards" at the line where it bites.

What makes each part correct:

- commit protocol: a committed upload has its bytes; nothing names a blob row that is gone;
  no older version is shown over a newer one; every begun commit settles; quota holds;
- part receipt: what is marked as received is stored and whole, and the parts of a begun
  commit do not change; the limit of an account holds;
- library: a client that has applied every event has the library;
- login admission: nobody gets more than the rate, the tables stay small, and a denied
  client is told when it may come back;
- commands: no two work on one database or data directory, servers work on what was
  initialized to the end, and initialization overwrites nothing;
- delivery: a device that resumes gets one version, previews show what was asked for, and
  their cache stays small;
- instances: credentials end with the pairing they come from, a code pairs once, ended
  instances stay ended, and blobs lie under the path of their account.

## 2. The modules

| Module | What it is | Its lines of the source |
|---|---|---|
| `Archive` | what the owner is promised: uploads accepted or turned down, versions, contents held | abstract |
| `UploadCommit` | the commit protocol with its failures | `upload_commit.rs`, `create_upload`, deletion, reclamation, sweep |
| `UploadHistory` | promises that hold until something particular has happened | one observation, `incidents`, beside `UploadCommit` |
| `UploadCommitProofs` | its inductive invariant; every step maps to Archive; sums and the quota | |
| `UploadHistoryProofs` | bytes, commits and receipts through restarts, until an incident | |
| `Shelf` | what those who read a resource rely on | abstract |
| `PartLedger` | what an upload relies on about its parts | abstract |
| `PartReceive` | concurrent `put_part` calls | `routes.rs` 53-110, 515-561; `storage.rs` 123-202 |
| `PartReceiveProofs` | its inductive invariant and refinement | |
| `LibrarySync` | the change log, the snapshot walk and the client's copy | `library.rs`, `audit.rs` |
| `LibrarySyncProofs` | the copy is the library | |
| `Instances` | instances, pairing, keys and storage paths | `admin.rs`, `auth.rs`, `api_access.rs`, `bootstrap` |
| `InstancesProofs` | its inductive invariant and two action properties | |
| `LoginAdmission` | one table of token buckets | `login_admission.rs` |
| `LoginAdmissionProofs` | rate, capacity and delays | |
| `Commands` | commands from their start to their work, among renames | `main.rs`, `runtime_lock.rs`, `database.rs`, the probes of `doctor.rs` |
| `CommandsProofs` | its inductive invariant, tier by tier | |
| `Delivery` | downloads by ranges, previews | `media_delivery.rs` |
| `DeliveryProofs` | ranges, one version, the cache | |
| `MC...` | constants for TLC | |

The modules meet where one abstracts what another does. `ReceiveParts` of UploadCommit is
one step; PartReceive shows that the many calls behind it look like that: both implement
PartLedger. An upload in Instances has three states, an upload in LibrarySync is a content
that appears; the details are UploadCommit's. Commands ends where a command has its database
and its storage open, which is where the startup pass of UploadCommit begins. Delivery sees
publication, commit, deletion and reclamation as steps that change what the resource shows and
which objects are there: Shelf says how, Delivery reads such a shelf, and UploadHistory keeps one
for each slot until an incident that loses bytes.

### UploadCommit

*State.* `commitState`, `request`, `received`, `complete`, `stagedKey` and `commitBlob` are
columns of `uploads`; `blobs`, `asset` and `resource` the other tables; `object`, `stage` and
`damaged` the files; `serving`, `reconciling`, `pc`, `candidate`, `gc*`, `sweep*` and `dedup` the
process, lost in a crash. `shown` remembers which upload's version a slot shows (0 if a
deduplicating create attached what it shows) and `faults` bounds the failures. `next` numbers the
uploads in the order of their rows; a deduplicating create makes no row, and is numbered by the
last upload before its first transaction. Blob ids are UUIDs drawn once per commit, so an id is
named by the upload that proposed it. There is one account: paths and quotas of accounts do not
meet except through Instances.

*Actions.* `complete_inner` is a program counter per upload with one action between two
awaits that matter: `BeginCommit`, `InspectStarted`, `AssembleCreate`/`AssembleFinish`,
`ToFinalizing`, `InspectFinal`, `Publish`, `InspectPublished`, `LoadCandidate`,
`ValidateCandidate`, the four outcomes of `commit_metadata`, `RemoveStage`,
`ClearStagedKey`, and `ValidateReceipt` for a repeated complete. `create_upload` is one
action when the content is new, two when it deduplicates, because the transaction is given
back while the object is hashed. `GcDelete`, `GcUnlink` and `GcCommit` are
`reconcile_orphan_blobs`: the write lock is held from the first to the last, and
`WriteLockFree` keeps other writers out while readers go on. `SweepRead`, `SweepList`,
`SweepRemove` are the staging sweep. Failures: `Crash`, `Abandon` (a dropped future or an
error with nothing marked), `InspectionFails`, `GcRollback`, `Damage`.

*What is wider than the code.* The startup pass may resume uploads and collect blobs in any
order and more than once, where the code has one order. A busy database is an `Abandon`.
`MetadataRetry` may go round without end where the code gives up after three rounds. A
crash is a crash of the process: what was written stays, a file half written included; lost
page-cache contents after a power failure are not modelled. *What is left out.* One
deduplicating call is in flight at a time. Validity of manifests, the format of keys and the
HTTP layer are abstracted; the mutual exclusion of completions of one upload (the file lock)
is taken from the program counter.

### PartReceive

*State.* `status` of an upload, the set `received` of `upload_parts` rows with `received_at`,
the `file` of each part; `call` is a request with its upload, part and semaphore;
`registry` is the map of weak references in `UploadAdmission`. A semaphore is an identity:
`Strong` says some call holds a strong reference, which is when the map may still hand it
out. `Holding` and `WritersOf` are the permits that are out.

*Actions.* `Open` is everything up to the first await: the row is read, dead entries are
dropped from the map, and the account's semaphore found or made. `GetGlobal`, `GetAccount`,
`BodyStored` (whole, hashed and synced in a file of its own), `Link` (`link_no_replace`),
`Compare` (the name was taken) and `Mark` (the update of the row) follow; `Leave` ends a
call anywhere. Around them a commit begins and settles, the upload is deleted, bytes rot and
the process dies. The queue order of tokio's semaphores is not modelled: any waiting call
may take a free permit. Temporary files are not state: nothing reads them.

### LibrarySync

*State.* The tables the reader sees, the `events` of the account, the shared `counter`; and
of the client the sequence it has applied, its walk, its copy, a page in hand. Each write of
`library.rs` and of the uploads is one action, since a write is one transaction: SQLite has
one writer, and a deferred transaction that has read cannot write after another commit, so
it fails instead. The client is not in the repository; it does what `docs/gallery-api.md`
asks of it (head, walk, replay; read each asset an event names; forget album pages).
`restated` remembers for the properties, and for no action, which shown assets a create has
rewritten since their last event: `create_upload` of an asset that exists rewrites its kind and
time, and records that only when it deduplicates.
Resources are one content per asset, `favorite` stands for the columns like it.

### Instances

*State.* The `devices` row with its account's path, `api_keys`, uploads and blobs with the
path they were stored under, which instances have assets or albums; per client what its
lookup found, per request what its authentication found. Codes and tokens are numbered draws
standing for value and hash. The `pairing` field and `pairedBy` are observations for the
properties. Each handler that reads before it holds the write lock is two actions
(`LookUp`/`Pair`, `Authenticate...`/the write, `CheckPath`/`InsertInstance`).

### LoginAdmission

*State.* One `BoundedBuckets`: its keys, and per key `credit` and `refilled` (`last_refill`,
which `last_seen` always equals, so there is no second field). The table of source addresses
and the table of codes are two instances that do not meet; `bootstrap` asks one and then the
other (`routes.rs:259-261`). Tokens are counted in the ticks they take to earn, so the
arithmetic is exact; rounding of `f64` is not modelled. A dropped entry is reset to zero,
because the map forgets it.

*Actions.* `Ask` reads the clock, which the code does before it locks the table;
`Admit`, `Deny` and `NoRoom` are the three results of `check_at` with everything it does
first (prune, make room, insert, refill). A call that finds no room has pruned all the same.
Among full buckets of one age the map's iteration order decides, so any may go. Rounding the
delay up to whole seconds only lengthens it.

*Observations.* `owed` is what a bucket that is never forgotten would lack; `late` is how
long the calls of a key waited for the mutex since it last owed nothing.

### Commands

*State.* `mount` says which directory a parent path leads to, `entry` which database file or
data directory lies in it; `content` and `layout` how far the initialization of each came.
Of a process: `pc`, its `role` and `config`; `handle`, the data directory whose common lock
it takes; `anchor`, the directories whose lock files it holds, `seen` what it found there
(`LockedLocation`); `files` and `root`, what its connections and its storage are open on. A
configuration is two parent paths, so two commands may share both, one or none.

*Actions.* They follow `main.rs` and `initialize`: the data directory is opened, the common
lock taken, `runtime_allowed` asked again, the two locations locked in the order of their
paths, the originals verified, the database validated by its path and opened below the
locked parent, verified again, the storage opened by path. `Reserve`, `WriteSchema`,
`Bootstrap` and `CreateStorage` are the steps of init, with `RemoveReserved` for its
clean-up; `Leave` ends, fails or kills a command anywhere. A server's pool may open another
connection at any time (`Reconnect`). Around them a maintenance tool takes the common lock
and leaves or ends a pending state, and an operator swaps two parents or moves an entry
nobody has open without its lock file.

*What is abstracted.* A location is looked at and locked in one step: what changes between
the two is met by the verification that follows. One common lock stands for the
library's instance and maintenance locks, which exclude each other. Two lock files never have
the same path. Symbolic links, hard links and wrong file types are refused by the code and do not
occur. *Windows left out.* `Unverified` names where a command goes by a path it does not
verify again before it uses what it found, and no rename falls into them; section 5 lists
what follows there.

### Delivery

*State.* What the resource shows and which objects are stored; of the device the bytes it
has (`copy`), their ETag and its request; of a request what the handler read; previews and
the cache as the sequence the code keeps. A content stands for its hash, its ETag and its
object, since objects are named by hash.

*Actions.* `ReadRow`, `OpenBlob` and `Respond` are the three parts of `content`, one between
two awaits; an open file stays readable, so a reclamation after `OpenBlob` is harmless.
`SelectRange` is `fn range` on the four forms a header is split into. The device repeats a
whole request with If-None-Match, resumes with If-Range, forgets its copy after 416, and may lose the
connection at any byte. Previews read the row, wait for a permit, look into the cache once,
open the object, decode, push and evict. Around them `StoreObject`, `ShowVersion`,
`DeleteResource` and `Reclaim` are what the rest of the server does to the resource, whole steps
here and many in UploadCommit.

*What is abstracted.* Lists and wildcards in If-None-Match, the text of headers, the check
that the type is an image, and the conditional request of a preview, which answers without
a permit. The size of an object equals the size of its row, and what is shown is stored; an
object that was lost (section 5) makes a call fail, which any call may do.

## 3. The runs

| Run | Instance | What it shows |
|---|---|---|
| `shared_content` | two photos that share a content, one of them edited, two uploads, one crash, dropped future or failed reclamation | types, blob references, what doctor refuses |
| `versions` | one photo, three contents, one of which fills the quota alone and two together, two uploads, any two failures of any kind | no upload's older version over a newer one; stored and promised bytes within the quota; until an incident: bytes survive, finalizing uploads can be finished, no `unknown`, receipts final; refinement of Archive |
| `liveness` | two uploads, any one failure of any kind, periodic pass on | begun commits settle, litter is collected |
| `part_receive` | two accounts, three parts, three calls, limits 2 and 1, crashes and rot | receipts, whole files, limits, refinement of PartLedger |
| `library_copy` | two assets, one of which manifests may restate, a tag, an album, four events, pages of one row | a client that has caught up has the library, but for what a create has restated since the asset's last event; album pages |
| `login_admission` | three addresses, a table of two, bursts of two, calls that wait one tick | rate, capacity, delays of denials |
| `instances` | one instance, two pairing clients, two requests, three codes | credentials, pairing and paths |
| `commands` | two starts, one rename, two paths with configurations that share both, one or none; earlier installations at any stage | one worker, complete installations, pending maintenance, nothing overwritten |
| `delivery` | objects of 0, 1 and 2 bytes, numbers to 4, two preview requests, two permits, a cache of two bytes | ranges, one version, previews, the cache |
| `reclaim_during_commit` | no failure | *violated*, see section 5 |
| `dedup_regression` | no failure | *violated* |
| `unrecorded_restatement` | that of `library_copy` | *violated* |

Why the bounds are enough to be interesting. Two uploads of one slot are the least in which a late
completion meets a newer version. Two slots and one shared content are the least in which a blob
is shared, released by one and adopted by the other. Two failures in `versions` allow a crash
during the recovery from a crash, the one of `liveness` may fall at any step; one content is
enough in `liveness`, since the files of two contents are told apart by name and meet only in the
slot, which `versions` is about. Its quota admits its two small contents side by side, so that
versions overtake each other, and none beside the large one. Three calls are the least in which
one duplicate stores a part while another waits and a third gets a semaphore made anew; a limit of
1 makes every excess visible. Pages of one row put every write between two pages. Two infos and
one asset that is restated are the least in which a copy can be behind in kind or time only
(`Restatable`); one content and one value of `favorite` suffice, since `trashed` is a column that
changes under the same `record_change`, and the theorems of LibrarySyncProofs hold for any of
them. One instance is enough in `instances` because no action but the path checks reads another
instance's rows; three codes allow a rotation while an earlier code is looked up and one after it.
Three addresses and a table of two are the least in which both entries are taken and a third
address waits; the lifetime of an entry equals the time to fill a bucket, the least the assumption
on the constants allows. Two starts are the least in which commands meet, and a third command
finds what the first one left anyway, since an installation may be at any stage initially; one
rename, at any moment and of either kind, is the least that makes a path lead elsewhere than where
the lock was taken, and the theorems of CommandsProofs hold for any number of starts and renames.
Sizes of 0, 1 and 2 with numbers up to 4 put every range before, at and past the end; a number
that does not fit is refused, as the code does, and no property is about it; a cache of two bytes
holds two small previews or one large one. `MaxUploads` (rows of `uploads` in a behavior),
`MaxFaults`, `MaxSequence`, `MaxCodes`, `MaxTokens`, `MaxKeys`, `MaxClock`, `MaxWait`, `MaxStarts`
and `MaxMoves` are the only bounds on counters and appear in guards. Deadlock is not checked:
clients may stop asking, and a behavior may end once a bound is used up. The small contents of
`versions`, the calls and semaphores of `part_receive`, the addresses and calls of
`login_admission`, the processes, directories, files and trees of `commands`, the requests of
`delivery` and the infos of `library_copy` are interchangeable, and no property of these runs is
about liveness, so symmetry is sound there.

Provisos. `CacheIsLibrary` leaves out the kind and time of `restated` assets, and `CopyIsCurrent`,
which does not, is what `unrecorded_restatement` refutes. Five things may happen that break a
promise the code otherwise keeps, and `UploadHistory` remembers in `incidents` which have: a
reclamation unlinks an object that an unfinished upload is about to store again (`reclaimed`;
`reclaim_during_commit` shows what follows), the periodic sweep unlinks the staged file of a
commit that began after the keys were read (`swept`, section 5), an object rots (`rotted`), a
reclamation is undone after its unlink (`restored`), an inspection fails (`misread`). Each
property of `UploadHistory` says which of these it survives:

| | reclaimed | swept | rotted | restored | misread |
|---|---|---|---|---|---|
| `BytesSurviveRestarts` | | holds | | | holds |
| `RestartsStayRecoverable` | | | | | holds |
| `UnknownOnlyAfterIncident` | | | | | |
| `ReceiptFinal` | | holds | | | |
| `ServesShelf` | | holds | | | holds |

Crashes, completions that end early, damaged parts and the background pass spoil none of them.
A failed inspection does take receipts back, which is why `ReceiptFinal` excludes it.
Everything else is stated without a proviso. In `versions` a rotten object, a reclamation undone and
a failed inspection happen. `reclaimed` takes two photos of one content (`reclaim_during_commit`
is such a behavior) and `swept` the periodic pass (`StartupSweepSpares`), which both make too many
states next to two failures; what survives them rests on the theorems alone. The
theorems allow every failure, the periodic pass, and any number of photos and uploads at once.

Fairness (`FairSpec`) is what the code's scheduling gives: a completion in progress goes on
(tokio runs it), the startup pass ends and serving begins, and while the background task is
alive it comes round to every listed upload, reclaimable row and sweep. Nothing is assumed
of clients, and nothing of a background task that has died, as it does at its first error (section 5);
`CommitsSettle` and `LitterIsCollected` say so in their antecedent.

Each property has a mutant in the modules (marked `Mutant:`), a plausible bug in the code
that the run finds.

## 4. The proofs

Proved for every value of the constants, from the named assumptions on constants and, where
an entry names one, a hypothesis each theorem states:

- **UploadCommitProofs** - `TypeOK`, `BlobReferencesHold`, `ShownIsNewest`,
  `DoctorRefusesOnlyReplaced` and `QuotaRespected`. Blob references
  are not inductive alone. `IInv` adds that every row was written by an earlier request
  (`RowsKnown`, `BlobsKnown`), that a content has one row (`BlobsDistinct`), that what an
  upload names carries its content (`ProposalsMatch`), that a started commit has a staged
  key (`StartedIsStaged`), that a verified deduplication still matches (`DedupMatches`), and
  the decisive one: the row an open reclamation is deleting has no reference
  (`ReclaimedIsUnreferenced`), which holds as long as the write lock keeps others out. What
  doctor accepts needs `ReceiptsShown` besides: the row of an upload that its slot shows is the
  row it committed. A slot gets another one only by a create, after which it shows no upload's
  version, by a deletion that takes the receipts along, or by the upload itself.
  In the same module every step of UploadCommit is shown to be a step of Archive or
  invisible to the owner, so receipts, versions and contents behave as if handled atomically
  and without files; `PromisesKept` follows: every version shown and every receipt has its
  blob row. `ReceiptedVersionStays` is what remains of the version order that `dedup_regression`
  refutes: the version of a committed upload gives way only to a newer upload, with its asset,
  or to a create that attaches another blob (`Displaces`), which may be an older one.
  `QuotaKept` needs sums over sets. The fold of the model is first shown to be a recursive
  function (`SumExists`, `TotalUnfolds`), by the well-founded order of finite sets: the library's
  induction theorem takes an operator, so the lemmas take a smallest counterexample instead
  (`WFMin`). Then a sum does not depend on the order in which its elements are taken
  (`TotalRemove`) and grows with its set (`TotalMonotone`). `QuotaRespected` itself is
  inductive next to `IInv`: a creation asks first, a commit turns bytes promised into bytes
  stored (`ReservedBecomesUsed`), and every other step lets both sums shrink or stay.
- **UploadHistoryProofs** - the properties of `UploadHistory`, for every kind and number of
  failures and with or without the periodic pass. `HInv` joins to `IInv` where a completion
  stands in the states of its upload (`PlacesFit`), and parts each of which holds until an
  incident that spoils it: no object is bad (`ObjectsWhole`); the staged file a completion
  writes or links is as it left it (`StagesFit`); the bytes of a commit that has begun are
  staged or published (`BytesKept`), and published once its completion has seen them so
  (`AllPublished`); no completion is about to disown a receipt (`ReceiptsTrusted`), or to give up
  an upload (`Believed`); and the decisive one, `LostUnneeded`: a row whose object an interrupted
  reclamation removed is not needed, and nobody can come to need it, because a create would
  have found the row, a deduplication the missing object, and a commit that began earlier
  would have made the reclamation an incident. A step preserves a part if it is not itself an
  incident of a kind that part excludes (`HistorySteps`).
  `StartupSweepSpares` adds, for servers that reconcile at startup only, that the sweep is never
  an incident: it runs alone (`SweepsAtStartup`), so the keys it read are still those the rows
  refer to when it unlinks.
  `PartsAsInLedger` shows that the protocol uses its parts as PartLedger allows, so that its one
  step `ReceiveParts` and the calls of PartReceive meet in one abstract specification.
  `ReadersSeeShelf` refines Shelf for every slot, for behaviors without the incidents `reclaimed`,
  `rotted` and `restored`. What is shown has its row (`BlobReferencesHold`) and so its whole object
  (`NeededAreStored`); only a publication, an unlink and rot change an object, the first adds a
  whole one, and an unlink would be an incident if a slot showed what it removes.
- **PartReceiveProofs** - types, `ReceivedStored`, `PartFilesWhole`, `AccountLimited` and the
  refinement of PartLedger. The limit is per *account* but counted per *semaphore*; the
  invariant `Registered` links them: the map names the semaphore of every call that is
  alive, and no living semaphore for two accounts. That is what fails if an entry is dropped
  before the last call lets go. `BegunHasAll` makes a late `Mark` of a begun commit a stutter.
- **LibrarySyncProofs** - `CacheIsLibrary` and `AlbumPagesCurrent` for any sizes of pages and any
  number of assets, whatever manifests state. The argument: every write is *Recorded*: what a copy
  may have of an asset (`Recent`) only grows, which is what an unrecorded restatement makes it do
  (`CreateUploadRecorded`), or the asset has a new event. So an asset whose copy is none of those
  has an event the client has not applied (`CacheFollows`), or was not walked yet
  (`BeforeReplay`), or is in the page in hand (`PageFollows`).
- **LoginAdmissionProofs** - `RateHolds`, `TableBounded` and `RetryIsEnough`, from
  `TTLAssumption` (an entry outlives the time to fill its bucket). The invariant `Budget`
  says that what a bucket holds now and what its key owes stay within a full bucket and the
  waits of its calls, and that a key *without* a bucket owes no more than those waits: that
  is why it may be given a full one, and what fails if a bucket is dropped too early.
- **InstancesProofs** - the four invariants and the two action properties of `instances`.
  `RequestsTraced` ties what a request read to the credential it came from, so that the
  second authorization check of `create_api_key` suffices; `UploadsUnderPath` ties the path
  a commit formed its key under to the account.

- **CommandsProofs** - the four invariants and the action property of `commands`. The
  invariant comes in tiers by program counter: nobody holds a lock file twice (`Locks`);
  where a process goes by its paths unverified, they lead to the directories it locked
  (`Settled`); a process has open exactly the database and the data directory below its lock
  (`OpenFiles`, `OpenRoots`), so with exclusive locks, and entries that lead to different
  files, it works alone; both are complete below a server (`Complete`); a common lock is
  held by a command or a tool (`Common`), and unless something was renamed the path leads to
  the data directory whose common lock is held, and which is not pending (`Handles`).
- **DeliveryProofs** - the five invariants of `delivery`. `RangeIsExact` holds for every size
  and number by cases on the forms of a header. `LibraryRight`, `DownloadRight` and
  `GalleryRight` tie each request to the row it read; that eviction ends within the limit
  (`EvictFits`) rests on the least suffix that fits. `HandlersReadShelf` refines Shelf: what the
  handlers meet changes as Shelf allows, and they leave it alone.

Model-checked only: liveness and everything that rests on ENABLED (`CommitsSettle`,
`LitterIsCollected`). Proved only, no run repeats them: `ServesShelf` and `ReadsShelf`, the two
sides of Shelf. The properties of the three violation runs are refuted, not proved. Every other
property of a run is a theorem.

## 5. What the runs and the reading show of the code

Found by runs; each is quoted in `PROJECT.json` under "findings":

- `reclaim_during_commit`: between the inspection of an object and `commit_metadata` the
  reclamation may delete the old row and unlink the object; the upload is reported committed.
- `dedup_regression`: a deduplicating create does not ask whether a newer version was
  committed while it hashed. In the run it inspects the object of its content, then an upload of
  another content is created and committed in the same slot, and then the create attaches the
  older content over it.
- `unrecorded_restatement`: `create_upload` of an existing asset rewrites its kind and creation
  time (`routes.rs:478-513`) and commits without `record_change` when the content is not stored.
  A client that has read the asset and replayed every event keeps the old row.

Met while modelling, not the subject of a run:

- Doctor refuses the receipt of a version that was replaced: `r.blob_id <> b.id`
  (`doctor.rs:133`) counts every first receipt of a resource with a second version as broken,
  while `docs/runtime-reference.md:79-80` says that old receipts are verified by the immutable
  `commit_blob_id` and that the resource's current pointer need not match.
  `DoctorRefusesOnlyReplaced` shows that this is the only kind of receipt it refuses. Its check of
  manifests (`doctor.rs:347`) likewise refuses older uploads of an asset whose media kind a
  newer one restated.
- The other way round than in `dedup_regression`, an upload that was created first and completes
  after a deduplicating create of another content replaces what that create attached:
  `commit_metadata` asks for newer *uploads* only (`upload_commit.rs:506-523`), and such a create
  makes no row of `uploads`.
- A row deleted during a background pass makes the pass fail: `reconcile_all` reads each listed
  row with `fetch_one` and `?` (`upload_commit.rs:1024-1027`), the task returns the error
  (`main.rs:318-320`) and is not started again, while
  `docs/feature-inventory-and-tradeoffs.md:101` promises a pass every 120 seconds. In
  UploadCommit the task dies so too; a commit that was begun then stays as it is until the next
  start, a repeated complete aside.
- Two accounts may end with overlapping paths: `create_instance` checks the default path
  before its transaction (`admin.rs:552`), which refuses equal paths only. The steps are
  `CheckPath(one)`, `CheckPath(two)`, `InsertInstance(one)`, `ChangePath(one, "blobs")`,
  `InsertInstance(two)`; `doctor.rs:303-307` then fails.
- Nothing ever removes part files. Once an asset with uploaded parts is deleted for good,
  the files stay without rows and `doctor.rs:432-435` fails; for a moment it also does after
  a crash between a link and its `received_at`. Temporary files of a crash stay too.
- The sweep unlinks the staged file of a commit that began after the keys were read and
  before the directory was listed; that upload ends `unknown`. This is the incident `swept`; the
  theorem `StartupSweepSpares` says that only the periodic pass (`main.rs:305-325`) can do it.
- An asset deleted while its upload is being published leaves an object without a row.
- A blob row restored by a failed reclamation has no object; an upload that adopts it before
  the next pass ends `unknown`.
- `remove_instance` counts references without blobs (`admin.rs:681`), so a row that was not
  reclaimed yet goes by cascade and its object stays.
- `UploadAdmission` takes the global permit before it waits for the account's
  (`routes.rs:95-98`): waiting calls of one account can hold every global permit until their
  30 seconds are over.

- The windows of Commands. `database::initialize` works by path: if the parent is renamed
  after the locks were taken, init creates, or on an error removes, a database in a directory
  it did not lock, and after two renames a probe of doctor may open a database an init is still
  creating. `LocalStorage::open_existing` goes by path after the last verification. The full
  validation reads the database by path while the connection is anchored. `runtime_allowed`
  goes by path too, so a pending state may be missed if a rename comes and goes around it;
  `NoWorkWhilePending` leaves out commands that started before a rename. Doctor reads the data
  tree by path and verifies at the end.
- A preview request that is dropped gives its permit back while `spawn_blocking` decodes on,
  so more than two decodes may run, although `docs/gallery-api.md:50` says that two do.
- An end of a byte range that does not fit into 64 bits is refused where a smaller one past
  the end is cut (`media_delivery.rs:32`).
- The clock of login admission is read before the mutex is taken (`login_admission.rs:66`).
  A call that waits sets `last_refill` back, and the same time is credited again: without
  the term `late`, `RateHolds` fails after two calls that waited one tick. The excess is the
  wait, so it is small as long as the mutex is.

## 6. Not modelled, and the plan

Not modelled because they keep no protocol state: configuration, the trusted proxy, secrets,
metrics, errors, release verification, web assets, the web console and deployment scripts.
Rooted path resolution is a contract with the kernel; its results appear as link, unlink and
listing. Power failure, SQLite's own recovery and the administrator's browser session are
outside the model.

Of what is modelled, these parts are left out: doctor's reading of the data tree and of the
manifests (hashing and budgets), the pages of the timeline, of duplicates and of the logs
(reads only), and the administrator's session. What a further extension would take up first:

1. The pages of the timeline and of the logs: no row twice and none left out while rows change.
2. Doctor's part files against the rows, once part files are removed with their uploads.
