------------------------------ MODULE Commands ------------------------------
(***************************************************************************)
(* The commands of the program from their start to their work: run, init,  *)
(* doctor and reconcile scan (main.rs), the locks they take                *)
(* (runtime_lock.rs), the creation and validation of the database          *)
(* (database.rs) and of the data directory (storage.rs).                   *)
(*                                                                         *)
(* A configuration names the database and the data directory by path.  A   *)
(* process checks, locks and opens what the paths lead to in many steps,   *)
(* other commands run at the same time on the same or on half the same     *)
(* configuration, and an operator renames directories meanwhile.  So the   *)
(* model tells a path from the directory it leads to, and an entry of a    *)
(* directory from the file or tree behind it.                              *)
(*                                                                         *)
(* A path here is that of a parent directory; the names of the database,   *)
(* the data directory and their lock files are the same in every parent.   *)
(***************************************************************************)
EXTENDS Naturals

CONSTANTS
  Procs,      \* processes
  Paths,      \* parent paths; their order is that of runtime_lock's sort
  Dirs,       \* parent directories
  Files,      \* database files
  Trees,      \* data directories
  Configs,    \* configurations: a path for the database, one for the data
  DataFirst,  \* the data directory's lock file sorts before the database's
  MaxStarts,  \* bound: commands started over a behavior
  MaxMoves,   \* bound: renames by the operator
  None        \* no entry, nothing

Kinds == {"database", "data"}
Roles == {"run", "init", "doctor", "scan"}
Nodes == Files \cup Trees

ASSUME CommandsAssumption ==
  /\ Paths \subseteq Nat /\ Configs \subseteq [Kinds -> Paths]
  /\ DataFirst \in BOOLEAN /\ MaxStarts \in Nat /\ MaxMoves \in Nat
  /\ Files \cap Trees = {}
  /\ None \notin Dirs \cup Nodes

VARIABLES
  \* --- the file system ---
  mount,    \* the directory a path leads to
  entry,    \* of a kind and a directory: the file or tree in it, or None
  content,  \* of a database file: how far its initialization came
  layout,   \* of a data directory: likewise
  pending,  \* data directories with .state-maintenance-pending.json
  maintained, \* data directories whose common lock an external tool holds
  \* --- of each process ---
  pc, role, config,
  handle,   \* the data directory it opened for the common lock
  anchor,   \* of a kind: the directory whose lock file it holds, or None
  seen,     \* of a kind: what it found there before it locked, or None
  files,    \* database files its connections are open on
  root,     \* data directory its storage is open on, or None
  \* --- bounds, and an observation read by a property only ---
  starts, moves,
  moved     \* processes that had started when something was renamed

fileSystem == <<mount, entry, content, layout>>
external == <<pending, maintained, moves>>
process == <<pc, role, config, handle, anchor, seen, files, root>>
vars == <<fileSystem, external, process, starts, moved>>

Contents == {"absent", "reserved", "schema", "complete"}
Layouts  == {"absent", "empty", "logs", "complete"}
Pcs == {"off", "started", "opened", "common", "checked", "first", "both", "locked",
        "reserved", "validated", "connected", "verified", "bootstrapped", "working"}

Nothing == [k \in Kinds |-> None]

\* What a path of the configuration leads to now.
Resolve(p, k) == entry[k][mount[config[p][k]]]

\* require_current_schema; "complete" has an administrator besides.
CurrentSchema(f) == f \in Files /\ content[f] \in {"schema", "complete"}
\* Mutant: administrator_count is not compared with zero.
SchemaSuffices(f) == CurrentSchema(f)
HasAdministrator(f) == f \in Files /\ content[f] = "complete"
\* open_existing: "uploads" and "blobs" are there.
HasStorage(t) == t \in Trees /\ layout[t] = "complete"

\* validate_existing_configuration, by path.
Installed(p) == HasAdministrator(Resolve(p, "database")) /\ HasStorage(Resolve(p, "data"))

\* runtime_allowed, by path.
Allowed(p) == Resolve(p, "data") \notin pending

-----------------------------------------------------------------------------
(***************************************************************************)
(* Locks.                                                                  *)
(***************************************************************************)

\* The common lock lies in the data directory itself.
HoldsCommon(p, t) == handle[p] = t /\ pc[p] # "opened"
CommonFree(t) == t \notin maintained /\ \A p \in Procs : ~HoldsCommon(p, t)

\* The lock file of a kind in a directory; flock does not wait.
LockFree(k, d) == \A p \in Procs : anchor[p][k] # d

\* acquire locks in the order of the paths of the lock files.
FirstKind(p) ==
  IF \/ config[p]["data"] < config[p]["database"]
     \/ config[p]["data"] = config[p]["database"] /\ DataFirst
  THEN "data" ELSE "database"

\* Mutant of verify_original_paths: the parents are not compared.
ResourcesUnchanged(p) ==
  \A k \in Kinds : seen[p][k] \in {None, entry[k][anchor[p][k]]}

\* verify_original_paths: the parents are the ones that were locked, and hold
\* what was found there, if anything was.
Verified(p) ==
  \A k \in Kinds : /\ mount[config[p][k]] = anchor[p][k]
                   /\ seen[p][k] \in {None, entry[k][anchor[p][k]]}

-----------------------------------------------------------------------------
(***************************************************************************)
(* From the start to the locks.                                            *)
(***************************************************************************)

Go(p, to) == pc' = [pc EXCEPT ![p] = to]

\* The command line and the configuration are read; run validates at once
\* when it goes on.
Start(p, r, c) ==
  /\ pc[p] = "off" /\ starts < MaxStarts
  /\ Go(p, "started") /\ starts' = starts + 1
  /\ role' = [role EXCEPT ![p] = r] /\ config' = [config EXCEPT ![p] = c]
  /\ UNCHANGED <<fileSystem, external, handle, anchor, seen, files, root, moved>>

Opened(p, t) ==
  /\ handle' = [handle EXCEPT ![p] = t] /\ Go(p, "opened")
  /\ UNCHANGED <<mount, content, external, role, config, anchor, seen, files, root, starts, moved>>

\* PrivateStateDirectory::open and runtime_allowed; run validates before.
OpenDirectory(p) ==
  /\ pc[p] = "started" /\ role[p] # "init" /\ Allowed(p)
  /\ role[p] = "run" => Installed(p)
  /\ Resolve(p, "data") \in Trees
  /\ Opened(p, Resolve(p, "data")) /\ UNCHANGED <<entry, layout>>

\* init: create_empty_private_directory, for a path that leads to nothing or to
\* an empty directory, then the same.
CreateDirectory(p) ==
  /\ pc[p] = "started" /\ role[p] = "init" /\ Allowed(p)
  /\ \E t \in Trees :
       /\ Opened(p, t)
       /\ \/ Resolve(p, "data") = t /\ layout[t] = "empty" /\ UNCHANGED <<entry, layout>>
          \/ /\ Resolve(p, "data") = None /\ layout[t] = "absent"
             /\ layout' = [layout EXCEPT ![t] = "empty"]
             /\ entry' = [entry EXCEPT !["data"][mount[config[p]["data"]]] = t]

\* try_instance_lock, try_maintenance_lock.
TakeCommonLock(p) ==
  /\ pc[p] = "opened" /\ CommonFree(handle[p])
  /\ Go(p, "common")
  /\ UNCHANGED <<fileSystem, external, role, config, handle, anchor, seen, files, root, starts, moved>>

\* Mutant: what was allowed before the lock is not asked again under it.
RecheckNothing(p) ==
  /\ pc[p] = "common"
  /\ IF role[p] = "init"
     THEN /\ Resolve(p, "data") \in Trees /\ layout[Resolve(p, "data")] = "empty"
          /\ layout' = [layout EXCEPT ![Resolve(p, "data")] = "logs"]
     ELSE (role[p] = "run" => Installed(p)) /\ UNCHANGED layout
  /\ Go(p, "checked")
  /\ UNCHANGED <<mount, entry, content, external, role, config, handle, anchor, seen, files,
                 root, starts, moved>>

\* runtime_allowed once more under the lock; run validates again and init
\* creates the log directory.
Recheck(p) ==
  /\ pc[p] = "common" /\ Allowed(p)
  /\ IF role[p] = "init"
     THEN /\ Resolve(p, "data") \in Trees /\ layout[Resolve(p, "data")] = "empty"
          /\ layout' = [layout EXCEPT ![Resolve(p, "data")] = "logs"]
     ELSE (role[p] = "run" => Installed(p)) /\ UNCHANGED layout
  /\ Go(p, "checked")
  /\ UNCHANGED <<mount, entry, content, external, role, config, handle, anchor, seen, files,
                 root, starts, moved>>

\* RuntimeLock::acquire, one location: open the parent, note what is there,
\* lock the lock file next to it.
LockLocation(p, k) ==
  LET d == mount[config[p][k]] IN
  /\ LockFree(k, d)
  /\ anchor' = [anchor EXCEPT ![p][k] = d]
  /\ seen' = [seen EXCEPT ![p][k] = entry[k][d]]
  /\ UNCHANGED <<fileSystem, external, role, config, handle, files, root, starts, moved>>

LockFirst(p) ==
  pc[p] = "checked" /\ Go(p, "first") /\ LockLocation(p, FirstKind(p))

LockSecond(p) ==
  pc[p] = "first" /\ Go(p, "both")
  /\ \E k \in Kinds \ {FirstKind(p)} : LockLocation(p, k)

\* The check at the end of acquire.
VerifyLocked(p) ==
  /\ pc[p] = "both" /\ Verified(p)
  /\ Go(p, "locked")
  /\ UNCHANGED <<fileSystem, external, role, config, handle, anchor, seen, files, root, starts, moved>>

-----------------------------------------------------------------------------
(***************************************************************************)
(* From the locks to the work.                                             *)
(***************************************************************************)

\* The database is validated by its path: wholly by run and scan, without the
\* administrator by doctor.
Validate(p) ==
  /\ pc[p] = "locked"
  /\ CASE role[p] \in {"run", "scan"} -> Installed(p)
       [] role[p] = "doctor" -> CurrentSchema(Resolve(p, "database"))
       [] OTHER -> FALSE
  /\ Go(p, "validated")
  /\ UNCHANGED <<fileSystem, external, role, config, handle, anchor, seen, files, root, starts, moved>>

\* Mutant: the main file is created without create_new and replaces another.
ReserveReplacing(p) ==
  /\ pc[p] = "locked" /\ role[p] = "init"
  /\ \E f \in Files :
       /\ content[f] = "absent"
       /\ content' = [content EXCEPT ![f] = "reserved"]
       /\ entry' = [entry EXCEPT !["database"][mount[config[p]["database"]]] = f]
       /\ files' = [files EXCEPT ![p] = {f}]
  /\ Go(p, "reserved")
  /\ UNCHANGED <<mount, layout, external, role, config, handle, anchor, seen, root, starts, moved>>

\* init: create_new reserves the main file of the database.
Reserve(p) ==
  /\ pc[p] = "locked" /\ role[p] = "init" /\ Resolve(p, "database") = None
  /\ \E f \in Files :
       /\ content[f] = "absent"
       /\ content' = [content EXCEPT ![f] = "reserved"]
       /\ entry' = [entry EXCEPT !["database"][mount[config[p]["database"]]] = f]
       /\ files' = [files EXCEPT ![p] = {f}]
  /\ Go(p, "reserved")
  /\ UNCHANGED <<mount, layout, external, role, config, handle, anchor, seen, root, starts, moved>>

\* init: the schema in one transaction, the connection closed, the file
\* validated.
WriteSchema(p) ==
  /\ pc[p] = "reserved"
  /\ content' = [f \in Files |-> IF f \in files[p] THEN "schema" ELSE content[f]]
  /\ files' = [files EXCEPT ![p] = {}]
  /\ Go(p, "validated")
  /\ UNCHANGED <<mount, entry, layout, external, role, config, handle, anchor, seen, root,
                 starts, moved>>

Reset(p) ==
  /\ Go(p, "off")
  /\ handle' = [handle EXCEPT ![p] = None] /\ root' = [root EXCEPT ![p] = None]
  /\ anchor' = [anchor EXCEPT ![p] = Nothing] /\ seen' = [seen EXCEPT ![p] = Nothing]
  /\ files' = [files EXCEPT ![p] = {}]
  /\ role' = [role EXCEPT ![p] = None] /\ config' = [config EXCEPT ![p] = None]
  /\ moved' = moved \ {p} /\ UNCHANGED starts

RemoveDatabase(p) ==
  LET d == mount[config[p]["database"]] IN
  /\ entry["database"][d] \in Files
  /\ content' = [content EXCEPT ![entry["database"][d]] = "absent"]
  /\ entry' = [entry EXCEPT !["database"][d] = None]
  /\ UNCHANGED <<mount, layout, external>>

\* Mutant: the clean-up covers the creation of the file, too.
RemoveWhatIsThere(p) ==
  /\ pc[p] \in {"locked", "reserved"} /\ role[p] = "init"
  /\ RemoveDatabase(p) /\ Reset(p)

\* init: an error before the schema is committed removes the reserved file,
\* by its path.
RemoveReserved(p) ==
  /\ pc[p] = "reserved"
  /\ RemoveDatabase(p) /\ Reset(p)

\* Mutant: the database is opened by its path.
ByPath(p) == mount[config[p]["database"]]
\* database_url: below the descriptor of the parent that was locked.
Anchored(p) == anchor[p]["database"]

\* connect_validated_location: database_url verifies, the pool opens its first
\* connection and asks for the current schema.  doctor opens one for its probe
\* and does not ask.
Connect(p) ==
  /\ pc[p] = "validated" /\ Verified(p)
  /\ entry["database"][Anchored(p)] \in Files
  /\ role[p] # "doctor" => CurrentSchema(entry["database"][Anchored(p)])
  /\ files' = [files EXCEPT ![p] = {entry["database"][Anchored(p)]}]
  /\ Go(p, "connected")
  /\ UNCHANGED <<fileSystem, external, role, config, handle, anchor, seen, root, starts, moved>>

\* The verification after the database is open; doctor has closed it again.
VerifyAgain(p) ==
  /\ pc[p] = "connected" /\ Verified(p)
  /\ files' = [files EXCEPT ![p] = IF role[p] = "doctor" THEN {} ELSE @]
  /\ Go(p, "verified")
  /\ UNCHANGED <<fileSystem, external, role, config, handle, anchor, seen, root, starts, moved>>

\* LocalStorage::open_existing, by path, and build_state's own look at the
\* administrators; doctor's probe opens the directory as it is.
OpenStorage(p) ==
  /\ pc[p] = "verified" /\ role[p] # "init"
  /\ Resolve(p, "data") \in Trees
  /\ role[p] # "doctor" =>
       /\ HasStorage(Resolve(p, "data"))
       /\ \A f \in files[p] : HasAdministrator(f)
  /\ root' = [root EXCEPT ![p] = Resolve(p, "data")]
  /\ Go(p, "working")
  /\ UNCHANGED <<fileSystem, external, role, config, handle, anchor, seen, files, starts, moved>>

\* init: the first administrator, refused where there is one.
Bootstrap(p) ==
  /\ pc[p] = "verified" /\ role[p] = "init"
  /\ \A f \in files[p] : content[f] = "schema"
  /\ content' = [f \in Files |-> IF f \in files[p] THEN "complete" ELSE content[f]]
  /\ Go(p, "bootstrapped")
  /\ UNCHANGED <<mount, entry, layout, external, role, config, handle, anchor, seen, files,
                 root, starts, moved>>

\* init: LocalStorage::new creates "uploads" and "blobs".
CreateStorage(p) ==
  /\ pc[p] = "bootstrapped" /\ Resolve(p, "data") \in Trees
  /\ layout' = [layout EXCEPT ![Resolve(p, "data")] = "complete"]
  /\ root' = [root EXCEPT ![p] = Resolve(p, "data")]
  /\ Go(p, "working")
  /\ UNCHANGED <<mount, entry, content, external, role, config, handle, anchor, seen, files,
                 starts, moved>>

\* The pool of a server opens another connection, at any time.
Reconnect(p) ==
  /\ pc[p] = "working" /\ role[p] \in {"run", "scan"}
  /\ entry["database"][Anchored(p)] \in Files
  /\ files' = [files EXCEPT ![p] = @ \cup {entry["database"][Anchored(p)]}]
  /\ UNCHANGED <<fileSystem, external, pc, role, config, handle, anchor, seen, root, starts, moved>>

\* The command ends, fails or is killed; its locks go with it.
Leave(p) ==
  pc[p] # "off" /\ Reset(p) /\ UNCHANGED <<fileSystem, external>>

-----------------------------------------------------------------------------
(***************************************************************************)
(* The tools and the people around the program.                            *)
(***************************************************************************)

\* A maintenance tool takes the common lock of a data directory ...
BeginMaintenance(t) ==
  /\ CommonFree(t) /\ layout[t] # "absent"
  /\ maintained' = maintained \cup {t}
  /\ UNCHANGED <<fileSystem, pending, moves, process, starts, moved>>

\* ... and leaves a pending state behind, or ends one.
EndMaintenance(t) ==
  /\ t \in maintained
  /\ maintained' = maintained \ {t}
  /\ pending' \in {pending \cup {t}, pending \ {t}}
  /\ UNCHANGED <<fileSystem, moves, process, starts, moved>>

\* An operator's renames are assumed away where a command goes by a path it does
\* not verify again before it uses what it found: while init creates the database
\* and its storage, and while the storage of the others is opened.
Unverified(p) ==
  pc[p] \in {"reserved", "verified", "bootstrapped"} \/ (pc[p] = "locked" /\ role[p] = "init")
MayRename == moves < MaxMoves /\ ~\E p \in Procs : Unverified(p)

\* Two directories change places.
SwapParents(a, b) ==
  /\ MayRename /\ a < b
  /\ mount' = [mount EXCEPT ![a] = mount[b], ![b] = mount[a]]
  /\ moves' = moves + 1 /\ moved' = moved \cup {p \in Procs : pc[p] # "off"}
  /\ UNCHANGED <<entry, content, layout, pending, maintained, process, starts>>

InUse(n) == \E p \in Procs : n \in files[p] \/ root[p] = n

\* A database or a data directory nobody works on is moved without its lock
\* file to another parent.
MoveEntry(k, d, e) ==
  /\ MayRename
  /\ entry[k][d] # None /\ entry[k][e] = None /\ ~InUse(entry[k][d])
  /\ entry' = [entry EXCEPT ![k][d] = None, ![k][e] = entry[k][d]]
  /\ moves' = moves + 1 /\ moved' = moved \cup {p \in Procs : pc[p] # "off"}
  /\ UNCHANGED <<mount, content, layout, pending, maintained, process, starts>>

-----------------------------------------------------------------------------
InjectiveOn(f, S) == \A x, y \in S : f[x] = f[y] => x = y

\* How far an earlier init of an installation came, killed or not.
Stages == {<<"reserved", "logs">>, <<"schema", "logs">>, <<"complete", "logs">>,
           <<"complete", "complete">>}

\* Installations, complete or not, lie in some directories; the others are empty.
Init ==
  /\ mount \in [Paths -> Dirs] /\ InjectiveOn(mount, Paths)
  /\ \E S \in SUBSET Dirs :
       /\ entry \in [Kinds -> [Dirs -> Nodes \cup {None}]]
       /\ \A d \in Dirs : IF d \in S
            THEN entry["database"][d] \in Files /\ entry["data"][d] \in Trees
            ELSE entry["database"][d] = None /\ entry["data"][d] = None
       /\ InjectiveOn(entry["database"], S) /\ InjectiveOn(entry["data"], S)
       /\ content \in [Files -> Contents] /\ layout \in [Trees -> Layouts]
       /\ \A d \in S : <<content[entry["database"][d]], layout[entry["data"][d]]>> \in Stages
       /\ \A f \in Files : (\A d \in S : entry["database"][d] # f) => content[f] = "absent"
       /\ \A t \in Trees : (\A d \in S : entry["data"][d] # t) => layout[t] = "absent"
  /\ pending = {} /\ maintained = {}
  /\ pc = [p \in Procs |-> "off"]
  /\ role = [p \in Procs |-> None] /\ config = [p \in Procs |-> None]
  /\ handle = [p \in Procs |-> None] /\ root = [p \in Procs |-> None]
  /\ anchor = [p \in Procs |-> Nothing] /\ seen = [p \in Procs |-> Nothing]
  /\ files = [p \in Procs |-> {}]
  /\ starts = 0 /\ moves = 0 /\ moved = {}

Next ==
  \/ \E p \in Procs :
       \/ \E r \in Roles, c \in Configs : Start(p, r, c)
       \/ OpenDirectory(p) \/ CreateDirectory(p) \/ TakeCommonLock(p) \/ Recheck(p)
       \/ LockFirst(p) \/ LockSecond(p) \/ VerifyLocked(p)
       \/ Validate(p) \/ Reserve(p) \/ WriteSchema(p) \/ RemoveReserved(p)
       \/ Connect(p) \/ VerifyAgain(p) \/ OpenStorage(p)
       \/ Bootstrap(p) \/ CreateStorage(p) \/ Reconnect(p) \/ Leave(p)
  \/ \E t \in Trees : BeginMaintenance(t) \/ EndMaintenance(t)
  \/ \E a, b \in Paths : SwapParents(a, b)
  \/ \E k \in Kinds, d, e \in Dirs : MoveEntry(k, d, e)

Spec == Init /\ [][Next]_vars

-----------------------------------------------------------------------------
(***************************************************************************)
(* Properties.                                                             *)
(***************************************************************************)

\* Every variable has its type; a file or tree that exists is in one directory.
CommandsTypeOK ==
  /\ mount \in [Paths -> Dirs] /\ InjectiveOn(mount, Paths)
  /\ entry \in [Kinds -> [Dirs -> Nodes \cup {None}]]
  /\ \A k \in Kinds, d, e \in Dirs : entry[k][d] # None =>
       /\ entry[k][d] \in IF k = "database" THEN Files ELSE Trees
       /\ entry[k][d] = entry[k][e] => d = e
  /\ \A f \in Files : content[f] # "absent" <=> \E d \in Dirs : entry["database"][d] = f
  /\ \A t \in Trees : layout[t] # "absent" <=> \E d \in Dirs : entry["data"][d] = t
  /\ content \in [Files -> Contents] /\ layout \in [Trees -> Layouts]
  /\ pending \subseteq Trees /\ maintained \subseteq Trees
  /\ pc \in [Procs -> Pcs]
  /\ \A p \in Procs : IF pc[p] = "off" THEN role[p] = None /\ config[p] = None
                       ELSE role[p] \in Roles /\ config[p] \in Configs
  /\ DOMAIN role = Procs /\ DOMAIN config = Procs
  /\ handle \in [Procs -> Trees \cup {None}] /\ root \in [Procs -> Trees \cup {None}]
  /\ anchor \in [Procs -> [Kinds -> Dirs \cup {None}]]
  /\ seen \in [Procs -> [Kinds -> Nodes \cup {None}]]
  /\ files \in [Procs -> SUBSET Files]
  /\ starts \in Nat /\ moves \in Nat /\ moved \subseteq Procs

\* No two commands work on one database or one data directory, whichever half
\* their configurations share and whatever was renamed while they started
\* (RuntimeLock, MED-R-005 of docs/feature-inventory-and-tradeoffs.md).
OneWorker ==
  \A p, q \in Procs : p # q =>
    /\ files[p] \cap files[q] = {}
    /\ root[p] # None => root[p] # root[q]

\* What a server works on was initialized to the end, and every connection of
\* its pool is on the same database (validate_existing_configuration,
\* build_state, database_url).
ServesOneInstallation ==
  \A p \in Procs : pc[p] = "working" /\ role[p] \in {"run", "scan"} =>
    \E f \in Files : files[p] = {f} /\ content[f] = "complete" /\ layout[root[p]] = "complete"

\* No command works on a data directory with a maintenance pending, however the
\* check of the mark and the tool that leaves it interleave (the second
\* runtime_allowed in main.rs).  The check goes by the path, so this is about
\* commands under which nothing is renamed.
NoWorkWhilePending ==
  \A p \in Procs \ moved : root[p] # None => root[p] \notin pending

\* An initialized database is never emptied or removed, by an init that is
\* refused or fails either ("initialization never overwrites existing data").
NeverOverwritten ==
  [][\A f \in Files : content[f] = "complete" => content'[f] = "complete"]_vars
=============================================================================
