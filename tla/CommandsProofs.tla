--------------------------- MODULE CommandsProofs ---------------------------
(***************************************************************************)
(* Proofs about Commands, for any number of processes, directories, files  *)
(* and renames and for any configurations.                                 *)
(*                                                                         *)
(* The inductive invariant ties what a process has open to the directory   *)
(* entry below the lock it holds; that locks are exclusive and entries     *)
(* lead to different files does the rest.                                  *)
(***************************************************************************)
EXTENDS Commands, TLAPS

FileTypes ==
  /\ mount \in [Paths -> Dirs] /\ InjectiveOn(mount, Paths)
  /\ entry \in [Kinds -> [Dirs -> Nodes \cup {None}]]
  /\ \A k \in Kinds, d, e \in Dirs : entry[k][d] # None =>
       /\ entry[k][d] \in IF k = "database" THEN Files ELSE Trees
       /\ entry[k][d] = entry[k][e] => d = e
  /\ \A f \in Files : content[f] # "absent" <=> \E d \in Dirs : entry["database"][d] = f
  /\ \A t \in Trees : layout[t] # "absent" <=> \E d \in Dirs : entry["data"][d] = t
  /\ content \in [Files -> Contents] /\ layout \in [Trees -> Layouts]

ProcessTypes ==
  /\ pending \subseteq Trees /\ maintained \subseteq Trees
  /\ pc \in [Procs -> Pcs]
  /\ \A p \in Procs : IF pc[p] = "off" THEN role[p] = None /\ config[p] = None
                       ELSE role[p] \in Roles /\ config[p] \in Configs
  /\ DOMAIN role = Procs /\ DOMAIN config = Procs
  /\ handle \in [Procs -> Trees \cup {None}] /\ root \in [Procs -> Trees \cup {None}]
  /\ anchor \in [Procs -> [Kinds -> Dirs \cup {None}]]
  /\ seen \in [Procs -> [Kinds -> Nodes \cup {None}]]
  /\ files \in [Procs -> SUBSET Files]
  /\ starts \in Nat /\ moves \in Nat /\ moved \subseteq Procs

\* Nobody holds a lock file twice.
Locks ==
  \A p, q \in Procs, k \in Kinds : p # q /\ anchor[p][k] # None => anchor[p][k] # anchor[q][k]

\* Where a process goes by its paths, they lead to the directories it locked.
Settled == \A p \in Procs, k \in Kinds : Unverified(p) => mount[config[p][k]] = anchor[p][k]

Below(p, k) == entry[k][anchor[p][k]]

\* A process has the database below its lock open, and no other.
OpenFiles ==
  \A p \in Procs :
    /\ pc[p] \in {"reserved", "bootstrapped"} => role[p] = "init"
    /\ \/ pc[p] \in {"reserved", "connected"}
       \/ pc[p] \in {"verified", "bootstrapped", "working"} /\ role[p] # "doctor"
       => files[p] # {}
    /\ files[p] # {} =>
         /\ pc[p] \in {"reserved", "connected", "verified", "bootstrapped", "working"}
         /\ anchor[p]["database"] \in Dirs
         /\ Below(p, "database") \in Files /\ files[p] = {Below(p, "database")}
    /\ pc[p] = "reserved" => content[Below(p, "database")] = "reserved"

\* And the data directory below its lock.
OpenRoots ==
  \A p \in Procs :
    /\ root[p] # None => /\ pc[p] = "working" /\ anchor[p]["data"] \in Dirs
                         /\ root[p] = Below(p, "data")
    /\ pc[p] = "working" => root[p] # None

\* Both are complete below a server.
Complete ==
  \A p \in Procs : pc[p] = "working" /\ role[p] \in {"run", "scan"} =>
    content[Below(p, "database")] = "complete" /\ layout[root[p]] = "complete"

\* A common lock is held by a command or by a tool.
Common ==
  \A p \in Procs : pc[p] \notin {"off", "started", "opened"} => handle[p] \notin maintained

\* Unless something was renamed, the path leads to the data directory whose
\* common lock the process holds.
Handles ==
  \A p \in Procs \ moved :
    /\ pc[p] \notin {"off", "started"} =>
         handle[p] \in Trees /\ entry["data"][mount[config[p]["data"]]] = handle[p]
    /\ pc[p] \notin {"off", "started", "opened", "common"} => handle[p] \notin pending
    /\ root[p] # None => root[p] = handle[p]

IInv == /\ FileTypes /\ ProcessTypes /\ Locks /\ Settled /\ OpenFiles /\ OpenRoots
        /\ Complete /\ Common /\ Handles

LEMMA PathLeads ==
  ASSUME FileTypes, ProcessTypes, NEW p \in Procs, NEW k \in Kinds, pc[p] # "off"
  PROVE  /\ config[p] \in [Kinds -> Paths] /\ mount[config[p][k]] \in Dirs
         /\ entry[k][mount[config[p][k]]] \in Nodes \cup {None}
<1>1. config[p] \in [Kinds -> Paths]
  BY CommandsAssumption DEF ProcessTypes
<1>2. QED
  BY <1>1 DEF FileTypes, Kinds

LEMMA FirstIsKind == \A p \in Procs : FirstKind(p) \in Kinds
  BY DEF FirstKind, Kinds

LEMMA LockedTypes ==
  ASSUME FileTypes, ProcessTypes, NEW p \in Procs, NEW k \in Kinds, pc[p] # "off",
         LockLocation(p, k)
  PROVE  /\ anchor' \in [Procs -> [Kinds -> Dirs \cup {None}]]
         /\ seen' \in [Procs -> [Kinds -> Nodes \cup {None}]]
<1> USE DEF LockLocation, ProcessTypes
<1>1. mount[config[p][k]] \in Dirs /\ entry[k][mount[config[p][k]]] \in Nodes \cup {None}
  BY PathLeads
<1>2. anchor[p] \in [Kinds -> Dirs \cup {None}] /\ seen[p] \in [Kinds -> Nodes \cup {None}]
  OBVIOUS
<1>3. QED
  BY <1>1, <1>2

LEMMA EntrySet ==
  ASSUME FileTypes, NEW k \in Kinds, NEW d \in Dirs, NEW x \in Nodes \cup {None},
         entry' = [entry EXCEPT ![k][d] = x]
  PROVE  /\ entry' \in [Kinds -> [Dirs -> Nodes \cup {None}]]
         /\ \A j \in Kinds, e \in Dirs :
              entry'[j][e] = IF j = k /\ e = d THEN x ELSE entry[j][e]
<1>1. entry \in [Kinds -> [Dirs -> Nodes \cup {None}]]
  BY DEF FileTypes
<1>2. QED
  BY <1>1

LEMMA EntriesApart ==
  FileTypes => \A k \in Kinds, d, e \in Dirs :
                 entry[k][d] # None /\ entry[k][d] = entry[k][e] => d = e
  BY DEF FileTypes

LEMMA FilesApart ==
  IInv => \A p, q \in Procs : p # q => files[p] \cap files[q] = {}
<1> SUFFICES ASSUME IInv, NEW p \in Procs, NEW q \in Procs, p # q,
                    NEW f \in files[p], f \in files[q]
             PROVE  FALSE
  OBVIOUS
<1>1. /\ anchor[p]["database"] \in Dirs /\ anchor[q]["database"] \in Dirs
      /\ f = entry["database"][anchor[p]["database"]]
      /\ f = entry["database"][anchor[q]["database"]] /\ f \in Files
  BY DEF IInv, OpenFiles, Below
<1>2. anchor[p]["database"] = anchor[q]["database"]
  BY <1>1, EntriesApart, CommandsAssumption DEF IInv, Kinds, Nodes
<1>3. QED
  BY <1>1, <1>2, CommandsAssumption DEF IInv, Locks, Kinds

LEMMA RootsApart ==
  IInv => \A p, q \in Procs : p # q /\ root[p] # None => root[p] # root[q]
<1> SUFFICES ASSUME IInv, NEW p \in Procs, NEW q \in Procs, p # q, root[p] # None,
                    root[p] = root[q]
             PROVE  FALSE
  OBVIOUS
<1>1. /\ anchor[p]["data"] \in Dirs /\ anchor[q]["data"] \in Dirs
      /\ root[p] = entry["data"][anchor[p]["data"]]
      /\ root[p] = entry["data"][anchor[q]["data"]]
  BY DEF IInv, OpenRoots, Below
<1>2. anchor[p]["data"] = anchor[q]["data"]
  BY <1>1, EntriesApart DEF IInv, Kinds
<1>3. QED
  BY <1>1, <1>2, CommandsAssumption DEF IInv, Locks, Kinds

LEMMA StartKeeps ==
  ASSUME IInv, NEW p \in Procs, NEW r \in Roles, NEW c \in Configs, Start(p, r, c)
  PROVE  IInv'
<1> USE CommandsAssumption DEF Start, Go, process, fileSystem, external, IInv
<1>1. FileTypes'
  BY DEF FileTypes
<1>2. ProcessTypes'
  BY DEF ProcessTypes, Pcs
<1>3. Locks'
  BY DEF Locks, ProcessTypes
<1>4. Settled'
  BY DEF Settled, Unverified, ProcessTypes
<1>5. OpenFiles'
  BY DEF OpenFiles, Below, ProcessTypes
<1>6. OpenRoots'
  BY DEF OpenRoots, Below, ProcessTypes
<1>7. Complete'
  BY DEF Complete, Below, ProcessTypes
<1>8. Common'
  BY DEF Common, ProcessTypes
<1>9. Handles'
  BY DEF Handles, ProcessTypes
<1>10. QED
  BY <1>1, <1>2, <1>3, <1>4, <1>5, <1>6, <1>7, <1>8, <1>9

LEMMA OpenDirectoryKeeps ==
  ASSUME IInv, NEW p \in Procs, OpenDirectory(p)
  PROVE  IInv'
<1> USE CommandsAssumption DEF OpenDirectory, Opened, Resolve, Go, process, fileSystem, external, IInv
<1>1. FileTypes'
  BY DEF FileTypes
<1>2. ProcessTypes'
  BY DEF ProcessTypes, Pcs
<1>3. Locks'
  BY DEF Locks, ProcessTypes
<1>4. Settled'
  BY DEF Settled, Unverified, ProcessTypes
<1>5. OpenFiles'
  BY DEF OpenFiles, Below, ProcessTypes
<1>6. OpenRoots'
  BY DEF OpenRoots, Below, ProcessTypes
<1>7. Complete'
  BY DEF Complete, Below, ProcessTypes
<1>8. Common'
  BY DEF Common, ProcessTypes
<1>9. Handles'
  BY DEF Handles, ProcessTypes, FileTypes, Common, OpenRoots, Kinds, Nodes
<1>10. QED
  BY <1>1, <1>2, <1>3, <1>4, <1>5, <1>6, <1>7, <1>8, <1>9

LEMMA CreateDirectoryKeeps ==
  ASSUME IInv, NEW p \in Procs, CreateDirectory(p)
  PROVE  IInv'
<1> USE CommandsAssumption DEF CreateDirectory, Opened, Resolve, Go, process, fileSystem, external, IInv
<1>1. FileTypes'
  <2>1. PICK t \in Trees :
          /\ Opened(p, t)
          /\ \/ UNCHANGED <<entry, layout>>
             \/ /\ Resolve(p, "data") = None /\ layout[t] = "absent"
                /\ layout' = [layout EXCEPT ![t] = "empty"]
                /\ entry' = [entry EXCEPT !["data"][mount[config[p]["data"]]] = t]
    BY DEF CreateDirectory
  <2>2. CASE UNCHANGED <<entry, layout>>
    BY <2>1, <2>2 DEF FileTypes, Opened
  <2>3. CASE ~UNCHANGED <<entry, layout>>
    <3>1. PICK d \in Dirs : d = mount[config[p]["data"]]
      BY PathLeads DEF Kinds
    <3>2. /\ entry["data"][d] = None /\ layout[t] = "absent"
          /\ layout' = [layout EXCEPT ![t] = "empty"]
          /\ entry' = [entry EXCEPT !["data"][d] = t]
          /\ mount' = mount /\ content' = content
      BY <2>1, <2>3, <3>1 DEF Opened, Resolve
    <3>3. /\ entry' \in [Kinds -> [Dirs -> Nodes \cup {None}]]
          /\ \A j \in Kinds, e \in Dirs :
               entry'[j][e] = IF j = "data" /\ e = d THEN t ELSE entry[j][e]
      <4>1. "data" \in Kinds /\ t \in Nodes \cup {None}
        BY DEF Kinds, Nodes
      <4>2. FileTypes /\ entry' = [entry EXCEPT !["data"][d] = t]
        BY <3>2
      <4> HIDE CommandsAssumption DEF CreateDirectory, Opened, Resolve, Go, process, fileSystem, external, IInv
      <4>3. QED
        BY <4>1, <4>2, EntrySet
    <3>4. \A e \in Dirs : entry["data"][e] # t
      BY <3>2 DEF FileTypes
    <3>5. layout' \in [Trees -> Layouts] /\ \A u \in Trees : layout'[u] = IF u = t THEN "empty" ELSE layout[u]
      BY <3>2 DEF FileTypes, Layouts
    <3>6. QED
      BY <3>2, <3>3, <3>4, <3>5 DEF FileTypes, InjectiveOn, Contents, Kinds, Nodes
  <2>4. QED
    BY <2>2, <2>3
<1>2. ProcessTypes'
  BY DEF ProcessTypes, Pcs
<1>3. Locks'
  BY DEF Locks, ProcessTypes
<1>4. Settled'
  BY DEF Settled, Unverified, ProcessTypes
<1>5. OpenFiles'
  BY DEF OpenFiles, Below, ProcessTypes, FileTypes, Locks, Settled, Kinds, Nodes, Unverified
<1>6. OpenRoots'
  BY DEF OpenRoots, Below, ProcessTypes, FileTypes, Locks, Settled, Kinds, Nodes, Unverified
<1>7. Complete'
  <2>1. PICK t \in Trees :
          /\ Opened(p, t)
          /\ \/ UNCHANGED <<entry, layout>>
             \/ /\ Resolve(p, "data") = None /\ layout[t] = "absent"
                /\ layout' = [layout EXCEPT ![t] = "empty"]
                /\ entry' = [entry EXCEPT !["data"][mount[config[p]["data"]]] = t]
    BY DEF CreateDirectory
  <2>2. entry'["database"] = entry["database"]
    BY <2>1 DEF FileTypes, Kinds
  <2>3. \A u \in Trees : layout[u] = "complete" => layout'[u] = "complete"
    BY <2>1 DEF FileTypes
  <2>4. QED
    BY <2>1, <2>2, <2>3 DEF Complete, Below, OpenRoots, OpenFiles, ProcessTypes, Opened
<1>8. Common'
  BY DEF Common, ProcessTypes
<1>9. Handles'
  <2>1. PICK t \in Trees :
          /\ Opened(p, t)
          /\ \/ Resolve(p, "data") = t /\ UNCHANGED <<entry, layout>>
             \/ /\ Resolve(p, "data") = None
                /\ entry' = [entry EXCEPT !["data"][mount[config[p]["data"]]] = t]
    BY DEF CreateDirectory
  <2>2. CASE UNCHANGED <<entry, layout>> /\ Resolve(p, "data") = t
    BY <2>1, <2>2 DEF Handles, Opened, Resolve, ProcessTypes, OpenRoots
  <2>3. CASE ~(UNCHANGED <<entry, layout>> /\ Resolve(p, "data") = t)
    <3>1. PICK d \in Dirs : d = mount[config[p]["data"]]
      BY PathLeads DEF Kinds
    <3>2. entry["data"][d] = None /\ entry' = [entry EXCEPT !["data"][d] = t]
      BY <2>1, <2>3, <3>1 DEF Resolve
    <3>3. \A j \in Kinds, e \in Dirs :
            entry'[j][e] = IF j = "data" /\ e = d THEN t ELSE entry[j][e]
      BY <3>2, EntrySet DEF Kinds, Nodes
    <3>4. \A q \in Procs : pc[q] # "off" => mount[config[q]["data"]] \in Dirs
      BY PathLeads DEF Kinds
    <3>5. QED
      BY <2>1, <3>1, <3>2, <3>3, <3>4 DEF Handles, Opened, ProcessTypes, OpenRoots, Kinds, Nodes
  <2>4. QED
    BY <2>2, <2>3
<1>10. QED
  BY <1>1, <1>2, <1>3, <1>4, <1>5, <1>6, <1>7, <1>8, <1>9

LEMMA TakeCommonLockKeeps ==
  ASSUME IInv, NEW p \in Procs, TakeCommonLock(p)
  PROVE  IInv'
<1> USE CommandsAssumption DEF TakeCommonLock, CommonFree, HoldsCommon, Go, process, fileSystem, external, IInv
<1>1. FileTypes'
  BY DEF FileTypes
<1>2. ProcessTypes'
  BY DEF ProcessTypes, Pcs
<1>3. Locks'
  BY DEF Locks, ProcessTypes
<1>4. Settled'
  BY DEF Settled, Unverified, ProcessTypes
<1>5. OpenFiles'
  BY DEF OpenFiles, Below, ProcessTypes
<1>6. OpenRoots'
  BY DEF OpenRoots, Below, ProcessTypes
<1>7. Complete'
  BY DEF Complete, Below, ProcessTypes
<1>8. Common'
  BY DEF Common, ProcessTypes
<1>9. Handles'
  BY DEF Handles, ProcessTypes
<1>10. QED
  BY <1>1, <1>2, <1>3, <1>4, <1>5, <1>6, <1>7, <1>8, <1>9

LEMMA RecheckKeeps ==
  ASSUME IInv, NEW p \in Procs, Recheck(p)
  PROVE  IInv'
<1> USE CommandsAssumption DEF Recheck, Resolve, Allowed, Go, process, fileSystem, external, IInv
<1>1. FileTypes'
  BY DEF FileTypes, InjectiveOn, Contents, Layouts, Kinds, Nodes
<1>2. ProcessTypes'
  BY DEF ProcessTypes, Pcs
<1>3. Locks'
  BY DEF Locks, ProcessTypes
<1>4. Settled'
  BY DEF Settled, Unverified, ProcessTypes
<1>5. OpenFiles'
  BY DEF OpenFiles, Below, ProcessTypes
<1>6. OpenRoots'
  BY DEF OpenRoots, Below, ProcessTypes
<1>7. Complete'
  BY DEF Complete, ProcessTypes, FileTypes, Locks, Settled, OpenFiles, OpenRoots, Kinds, Nodes, Unverified, Below
<1>8. Common'
  BY DEF Common, ProcessTypes
<1>9. Handles'
  BY DEF Handles, ProcessTypes
<1>10. QED
  BY <1>1, <1>2, <1>3, <1>4, <1>5, <1>6, <1>7, <1>8, <1>9

LEMMA LockFirstKeeps ==
  ASSUME IInv, NEW p \in Procs, LockFirst(p)
  PROVE  IInv'
<1> USE CommandsAssumption DEF LockFirst, LockLocation, LockFree, Go, process, fileSystem, external, IInv
<1>1. FileTypes'
  BY DEF FileTypes
<1>2. ProcessTypes'
  <2>1. anchor' \in [Procs -> [Kinds -> Dirs \cup {None}]] /\ seen' \in [Procs -> [Kinds -> Nodes \cup {None}]]
    BY FirstIsKind, LockedTypes
  <2>2. QED
    BY <2>1 DEF ProcessTypes, Pcs
<1>3. Locks'
  BY DEF Locks, ProcessTypes
<1>4. Settled'
  BY DEF Settled, Unverified, ProcessTypes
<1>5. OpenFiles'
  BY DEF OpenFiles, Below, ProcessTypes
<1>6. OpenRoots'
  BY DEF OpenRoots, Below, ProcessTypes
<1>7. Complete'
  BY DEF Complete, Below, ProcessTypes
<1>8. Common'
  BY DEF Common, ProcessTypes
<1>9. Handles'
  BY DEF Handles, ProcessTypes
<1>10. QED
  BY <1>1, <1>2, <1>3, <1>4, <1>5, <1>6, <1>7, <1>8, <1>9

LEMMA LockSecondKeeps ==
  ASSUME IInv, NEW p \in Procs, LockSecond(p)
  PROVE  IInv'
<1> USE CommandsAssumption DEF LockSecond, LockLocation, LockFree, Go, process, fileSystem, external, IInv
<1>1. FileTypes'
  BY DEF FileTypes
<1>2. ProcessTypes'
  <2>1. PICK k \in Kinds : LockLocation(p, k)
    OBVIOUS
  <2>2. anchor' \in [Procs -> [Kinds -> Dirs \cup {None}]] /\ seen' \in [Procs -> [Kinds -> Nodes \cup {None}]]
    BY <2>1, LockedTypes
  <2>3. QED
    BY <2>1, <2>2 DEF ProcessTypes, Pcs
<1>3. Locks'
  BY DEF Locks, ProcessTypes
<1>4. Settled'
  BY DEF Settled, Unverified, ProcessTypes
<1>5. OpenFiles'
  BY DEF OpenFiles, Below, ProcessTypes
<1>6. OpenRoots'
  BY DEF OpenRoots, Below, ProcessTypes
<1>7. Complete'
  BY DEF Complete, Below, ProcessTypes
<1>8. Common'
  BY DEF Common, ProcessTypes
<1>9. Handles'
  BY DEF Handles, ProcessTypes
<1>10. QED
  BY <1>1, <1>2, <1>3, <1>4, <1>5, <1>6, <1>7, <1>8, <1>9

LEMMA VerifyLockedKeeps ==
  ASSUME IInv, NEW p \in Procs, VerifyLocked(p)
  PROVE  IInv'
<1> USE CommandsAssumption DEF VerifyLocked, Verified, Go, process, fileSystem, external, IInv
<1>1. FileTypes'
  BY DEF FileTypes
<1>2. ProcessTypes'
  BY DEF ProcessTypes, Pcs
<1>3. Locks'
  BY DEF Locks, ProcessTypes
<1>4. Settled'
  BY DEF Settled, Unverified, ProcessTypes
<1>5. OpenFiles'
  BY DEF OpenFiles, Below, ProcessTypes
<1>6. OpenRoots'
  BY DEF OpenRoots, Below, ProcessTypes
<1>7. Complete'
  BY DEF Complete, Below, ProcessTypes
<1>8. Common'
  BY DEF Common, ProcessTypes
<1>9. Handles'
  BY DEF Handles, ProcessTypes
<1>10. QED
  BY <1>1, <1>2, <1>3, <1>4, <1>5, <1>6, <1>7, <1>8, <1>9

LEMMA ValidateKeeps ==
  ASSUME IInv, NEW p \in Procs, Validate(p)
  PROVE  IInv'
<1> USE CommandsAssumption DEF Validate, Go, process, fileSystem, external, IInv
<1>1. FileTypes'
  BY DEF FileTypes
<1>2. ProcessTypes'
  BY DEF ProcessTypes, Pcs
<1>3. Locks'
  BY DEF Locks, ProcessTypes
<1>4. Settled'
  BY DEF Settled, Unverified, ProcessTypes
<1>5. OpenFiles'
  BY DEF OpenFiles, Below, ProcessTypes
<1>6. OpenRoots'
  BY DEF OpenRoots, Below, ProcessTypes
<1>7. Complete'
  BY DEF Complete, Below, ProcessTypes
<1>8. Common'
  BY DEF Common, ProcessTypes
<1>9. Handles'
  BY DEF Handles, ProcessTypes
<1>10. QED
  BY <1>1, <1>2, <1>3, <1>4, <1>5, <1>6, <1>7, <1>8, <1>9

LEMMA ReserveKeeps ==
  ASSUME IInv, NEW p \in Procs, Reserve(p)
  PROVE  IInv'
<1> USE CommandsAssumption DEF Reserve, Resolve, Go, process, fileSystem, external, IInv
<1>1. FileTypes'
  <2>1. PICK f \in Files :
          /\ content[f] = "absent" /\ content' = [content EXCEPT ![f] = "reserved"]
          /\ entry' = [entry EXCEPT !["database"][mount[config[p]["database"]]] = f]
    OBVIOUS
  <2>2. PICK d \in Dirs : d = mount[config[p]["database"]]
    BY PathLeads DEF Kinds
  <2>3. /\ entry' \in [Kinds -> [Dirs -> Nodes \cup {None}]]
        /\ \A j \in Kinds, e \in Dirs :
             entry'[j][e] = IF j = "database" /\ e = d THEN f ELSE entry[j][e]
    <3>1. entry' = [entry EXCEPT !["database"][d] = f]
      BY <2>1, <2>2
    <3>2. QED
      BY <3>1, EntrySet DEF Kinds, Nodes
  <2>4. \A e \in Dirs : entry["database"][e] # f
    BY <2>1 DEF FileTypes
  <2>5. content' \in [Files -> Contents] /\ \A g \in Files : content'[g] = IF g = f THEN "reserved" ELSE content[g]
    BY <2>1 DEF FileTypes, Contents
  <2>6. entry["database"][d] = None
    BY <2>2
  <2>7. QED
    BY <2>3, <2>4, <2>5, <2>6 DEF FileTypes, InjectiveOn, Layouts, Kinds, Nodes
<1>2. ProcessTypes'
  BY DEF ProcessTypes, Pcs
<1>3. Locks'
  BY DEF Locks, ProcessTypes
<1>4. Settled'
  BY DEF Settled, Unverified, ProcessTypes
<1>5. OpenFiles'
  <2>1. PICK f \in Files :
          /\ content[f] = "absent" /\ content' = [content EXCEPT ![f] = "reserved"]
          /\ entry' = [entry EXCEPT !["database"][mount[config[p]["database"]]] = f]
          /\ files' = [files EXCEPT ![p] = {f}]
    OBVIOUS
  <2>2. PICK d \in Dirs : d = mount[config[p]["database"]] /\ d = anchor[p]["database"]
    BY PathLeads DEF Kinds, Settled, Unverified
  <2>3. \A e \in Dirs : entry'["database"][e] = IF e = d THEN f ELSE entry["database"][e]
    BY <2>1, <2>2, EntrySet DEF Kinds, Nodes
  <2>4. \A g \in Files : content'[g] = IF g = f THEN "reserved" ELSE content[g]
    BY <2>1 DEF FileTypes
  <2>5. entry["database"][d] = None /\ None \notin Files
    BY <2>2 DEF Nodes
  <2> SUFFICES ASSUME NEW q \in Procs PROVE OpenFiles!(q)'
    BY DEF OpenFiles
  <2>6. CASE q = p
    BY <2>1, <2>2, <2>3, <2>4, <2>6 DEF ProcessTypes, Below
  <2>7. CASE q # p
    BY <2>1, <2>2, <2>3, <2>4, <2>5, <2>7 DEF OpenFiles, ProcessTypes, Below
  <2>8. QED
    BY <2>6, <2>7
<1>6. OpenRoots'
  BY DEF OpenRoots, Below, ProcessTypes
<1>7. Complete'
  BY DEF Complete, Below, ProcessTypes, FileTypes, Locks, Settled, Kinds, Nodes, Unverified
<1>8. Common'
  BY DEF Common, ProcessTypes
<1>9. Handles'
  BY DEF Handles, ProcessTypes
<1>10. QED
  BY <1>1, <1>2, <1>3, <1>4, <1>5, <1>6, <1>7, <1>8, <1>9

LEMMA WriteSchemaKeeps ==
  ASSUME IInv, NEW p \in Procs, WriteSchema(p)
  PROVE  IInv'
<1> USE CommandsAssumption DEF WriteSchema, Go, process, fileSystem, external, IInv
<1>1. FileTypes'
  BY DEF FileTypes, OpenFiles, Kinds, Nodes, InjectiveOn, Contents, Layouts
<1>2. ProcessTypes'
  BY DEF ProcessTypes, Pcs
<1>3. Locks'
  BY DEF Locks, ProcessTypes
<1>4. Settled'
  BY DEF Settled, Unverified, ProcessTypes
<1>5. OpenFiles'
  <2>1. \A q \in Procs : q # p => files[q] \cap files[p] = {}
    BY FilesApart DEF IInv
  <2>2. \A f \in Files : f \notin files[p] => content'[f] = content[f]
    OBVIOUS
  <2>3. QED
    BY <2>1, <2>2 DEF OpenFiles, ProcessTypes, Below
<1>6. OpenRoots'
  BY DEF OpenRoots, Below, ProcessTypes
<1>7. Complete'
  <2>1. \A q \in Procs : q # p => files[q] \cap files[p] = {}
    BY FilesApart DEF IInv
  <2>2. \A f \in Files : f \notin files[p] => content'[f] = content[f]
    OBVIOUS
  <2>3. pc[p] # "working" /\ ~(pc'[p] = "working" /\ role'[p] \in {"run", "scan"})
    BY DEF ProcessTypes, OpenFiles
  <2>4. ASSUME NEW q \in Procs, q # p, pc[q] = "working", role[q] \in {"run", "scan"}
        PROVE  Below(q, "database") \notin files[p]
    BY <2>1, <2>4 DEF OpenFiles
  <2>5. ASSUME NEW q \in Procs, pc'[q] = "working", role'[q] \in {"run", "scan"}
        PROVE  content'[Below(q, "database")'] = "complete" /\ layout'[root'[q]] = "complete"
    <3>1. q # p /\ pc[q] = "working" /\ role[q] \in {"run", "scan"}
      BY <2>3, <2>5 DEF ProcessTypes
    <3>2. Below(q, "database") \in Files /\ content[Below(q, "database")] = "complete"
      BY <3>1 DEF Complete, OpenFiles
    <3>3. QED
      BY <2>2, <2>4, <3>1, <3>2 DEF Complete, Below
  <2>6. QED
    BY <2>5 DEF Complete
<1>8. Common'
  BY DEF Common, ProcessTypes
<1>9. Handles'
  BY DEF Handles, ProcessTypes
<1>10. QED
  BY <1>1, <1>2, <1>3, <1>4, <1>5, <1>6, <1>7, <1>8, <1>9

LEMMA RemoveReservedKeeps ==
  ASSUME IInv, NEW p \in Procs, RemoveReserved(p)
  PROVE  IInv'
<1> USE CommandsAssumption DEF RemoveReserved, RemoveDatabase, Reset, Nothing, Go, process, fileSystem, external, IInv
<1>1. FileTypes'
  <2>1. PICK d \in Dirs : d = mount[config[p]["database"]]
    BY PathLeads DEF Kinds
  <2>2. PICK f \in Files : f = entry["database"][d]
    BY <2>1
  <2>3. content' = [content EXCEPT ![f] = "absent"] /\ entry' = [entry EXCEPT !["database"][d] = None]
    BY <2>1, <2>2
  <2>4. /\ entry' \in [Kinds -> [Dirs -> Nodes \cup {None}]]
        /\ \A j \in Kinds, e \in Dirs :
             entry'[j][e] = IF j = "database" /\ e = d THEN None ELSE entry[j][e]
    BY <2>3, EntrySet DEF Kinds, Nodes
  <2>5. \A e \in Dirs : entry["database"][e] = f => e = d
    BY <2>2 DEF FileTypes, Kinds, Nodes
  <2>6. content' \in [Files -> Contents] /\ \A g \in Files : content'[g] = IF g = f THEN "absent" ELSE content[g]
    BY <2>3 DEF FileTypes, Contents
  <2>7. QED
    BY <2>2, <2>4, <2>5, <2>6 DEF FileTypes, InjectiveOn, Layouts, Kinds, Nodes
<1>2. ProcessTypes'
  BY DEF ProcessTypes, Pcs
<1>3. Locks'
  BY DEF Locks, ProcessTypes
<1>4. Settled'
  BY DEF Settled, Unverified, ProcessTypes
<1>5. OpenFiles'
  BY DEF OpenFiles, Below, ProcessTypes, FileTypes, Locks, Settled, Kinds, Nodes, Unverified
<1>6. OpenRoots'
  BY DEF OpenRoots, Below, ProcessTypes
<1>7. Complete'
  BY DEF Complete, ProcessTypes, FileTypes, Locks, Settled, OpenFiles, OpenRoots, Kinds, Nodes, Unverified, Below
<1>8. Common'
  BY DEF Common, ProcessTypes
<1>9. Handles'
  BY DEF Handles, ProcessTypes
<1>10. QED
  BY <1>1, <1>2, <1>3, <1>4, <1>5, <1>6, <1>7, <1>8, <1>9

LEMMA ConnectKeeps ==
  ASSUME IInv, NEW p \in Procs, Connect(p)
  PROVE  IInv'
<1> USE CommandsAssumption DEF Connect, Verified, Anchored, CurrentSchema, Go, process, fileSystem, external, IInv
<1>1. FileTypes'
  BY DEF FileTypes
<1>2. ProcessTypes'
  BY DEF ProcessTypes, Pcs
<1>3. Locks'
  BY DEF Locks, ProcessTypes
<1>4. Settled'
  BY DEF Settled, Unverified, ProcessTypes
<1>5. OpenFiles'
  <2>1. PICK d \in Dirs : d = mount[config[p]["database"]] /\ d = anchor[p]["database"]
    BY PathLeads DEF Kinds
  <2>2. Below(p, "database") \in Files /\ files' = [files EXCEPT ![p] = {Below(p, "database")}]
    BY DEF Below
  <2> SUFFICES ASSUME NEW q \in Procs PROVE OpenFiles!(q)'
    BY DEF OpenFiles
  <2>3. CASE q = p
    BY <2>1, <2>2, <2>3 DEF ProcessTypes, Below
  <2>4. CASE q # p
    BY <2>4 DEF OpenFiles, ProcessTypes, Below
  <2>5. QED
    BY <2>3, <2>4
<1>6. OpenRoots'
  BY DEF OpenRoots, Below, ProcessTypes
<1>7. Complete'
  BY DEF Complete, Below, ProcessTypes
<1>8. Common'
  BY DEF Common, ProcessTypes
<1>9. Handles'
  BY DEF Handles, ProcessTypes
<1>10. QED
  BY <1>1, <1>2, <1>3, <1>4, <1>5, <1>6, <1>7, <1>8, <1>9

LEMMA VerifyAgainKeeps ==
  ASSUME IInv, NEW p \in Procs, VerifyAgain(p)
  PROVE  IInv'
<1> USE CommandsAssumption DEF VerifyAgain, Verified, Go, process, fileSystem, external, IInv
<1>1. FileTypes'
  BY DEF FileTypes
<1>2. ProcessTypes'
  BY DEF ProcessTypes, Pcs
<1>3. Locks'
  BY DEF Locks, ProcessTypes
<1>4. Settled'
  BY DEF Settled, Unverified, ProcessTypes
<1>5. OpenFiles'
  BY DEF OpenFiles, Below, ProcessTypes
<1>6. OpenRoots'
  BY DEF OpenRoots, Below, ProcessTypes
<1>7. Complete'
  BY DEF Complete, Below, ProcessTypes
<1>8. Common'
  BY DEF Common, ProcessTypes
<1>9. Handles'
  BY DEF Handles, ProcessTypes
<1>10. QED
  BY <1>1, <1>2, <1>3, <1>4, <1>5, <1>6, <1>7, <1>8, <1>9

LEMMA OpenStorageKeeps ==
  ASSUME IInv, NEW p \in Procs, OpenStorage(p)
  PROVE  IInv'
<1> USE CommandsAssumption DEF OpenStorage, Resolve, HasStorage, HasAdministrator, Go, process, fileSystem, external, IInv
<1>1. FileTypes'
  BY DEF FileTypes
<1>2. ProcessTypes'
  BY DEF ProcessTypes, Pcs
<1>3. Locks'
  BY DEF Locks, ProcessTypes
<1>4. Settled'
  BY DEF Settled, Unverified, ProcessTypes
<1>5. OpenFiles'
  BY DEF OpenFiles, Below, ProcessTypes
<1>6. OpenRoots'
  <2>1. PICK d \in Dirs : d = mount[config[p]["data"]] /\ d = anchor[p]["data"]
    BY PathLeads DEF Kinds, Settled, Unverified
  <2>2. entry["data"][d] \in Trees /\ root' = [root EXCEPT ![p] = entry["data"][d]]
    BY <2>1
  <2>3. QED
    BY <2>1, <2>2 DEF OpenRoots, ProcessTypes, Below, Nodes
<1>7. Complete'
  BY DEF Complete, ProcessTypes, FileTypes, Locks, Settled, OpenFiles, OpenRoots, Kinds, Nodes, Unverified, Below
<1>8. Common'
  BY DEF Common, ProcessTypes
<1>9. Handles'
  BY DEF Handles, ProcessTypes
<1>10. QED
  BY <1>1, <1>2, <1>3, <1>4, <1>5, <1>6, <1>7, <1>8, <1>9

LEMMA BootstrapKeeps ==
  ASSUME IInv, NEW p \in Procs, Bootstrap(p)
  PROVE  IInv'
<1> USE CommandsAssumption DEF Bootstrap, Go, process, fileSystem, external, IInv
<1>1. FileTypes'
  BY DEF FileTypes, InjectiveOn, Contents, Layouts, Kinds, Nodes
<1>2. ProcessTypes'
  BY DEF ProcessTypes, Pcs
<1>3. Locks'
  BY DEF Locks, ProcessTypes
<1>4. Settled'
  BY DEF Settled, Unverified, ProcessTypes
<1>5. OpenFiles'
  BY DEF OpenFiles, Below, ProcessTypes
<1>6. OpenRoots'
  BY DEF OpenRoots, Below, ProcessTypes
<1>7. Complete'
  BY DEF Complete, ProcessTypes, FileTypes, Locks, Settled, OpenFiles, OpenRoots, Kinds, Nodes, Unverified, Below
<1>8. Common'
  BY DEF Common, ProcessTypes
<1>9. Handles'
  BY DEF Handles, ProcessTypes
<1>10. QED
  BY <1>1, <1>2, <1>3, <1>4, <1>5, <1>6, <1>7, <1>8, <1>9

LEMMA CreateStorageKeeps ==
  ASSUME IInv, NEW p \in Procs, CreateStorage(p)
  PROVE  IInv'
<1> USE CommandsAssumption DEF CreateStorage, Resolve, Go, process, fileSystem, external, IInv
<1>1. FileTypes'
  <2>1. PICK d \in Dirs : d = mount[config[p]["data"]]
    BY PathLeads DEF Kinds
  <2>2. entry["data"][d] \in Trees /\ layout' = [layout EXCEPT ![entry["data"][d]] = "complete"]
    BY <2>1
  <2>3. QED
    BY <2>2 DEF FileTypes, InjectiveOn, Contents, Layouts, Kinds, Nodes
<1>2. ProcessTypes'
  BY DEF ProcessTypes, Pcs
<1>3. Locks'
  BY DEF Locks, ProcessTypes
<1>4. Settled'
  BY DEF Settled, Unverified, ProcessTypes
<1>5. OpenFiles'
  BY DEF OpenFiles, Below, ProcessTypes
<1>6. OpenRoots'
  <2>1. PICK d \in Dirs : d = mount[config[p]["data"]] /\ d = anchor[p]["data"]
    BY PathLeads DEF Kinds, Settled, Unverified
  <2>2. entry["data"][d] \in Trees /\ root' = [root EXCEPT ![p] = entry["data"][d]]
    BY <2>1
  <2>3. QED
    BY <2>1, <2>2 DEF OpenRoots, ProcessTypes, Below, Nodes
<1>7. Complete'
  BY DEF Complete, ProcessTypes, FileTypes, Locks, Settled, OpenFiles, OpenRoots, Kinds, Nodes, Unverified, Below
<1>8. Common'
  BY DEF Common, ProcessTypes
<1>9. Handles'
  BY DEF Handles, ProcessTypes
<1>10. QED
  BY <1>1, <1>2, <1>3, <1>4, <1>5, <1>6, <1>7, <1>8, <1>9

LEMMA ReconnectKeeps ==
  ASSUME IInv, NEW p \in Procs, Reconnect(p)
  PROVE  IInv'
<1> USE CommandsAssumption DEF Reconnect, Anchored, Go, process, fileSystem, external, IInv
<1>1. FileTypes'
  BY DEF FileTypes
<1>2. ProcessTypes'
  BY DEF ProcessTypes, Pcs
<1>3. Locks'
  BY DEF Locks, ProcessTypes
<1>4. Settled'
  BY DEF Settled, Unverified, ProcessTypes
<1>5. OpenFiles'
  BY DEF OpenFiles, Below, ProcessTypes
<1>6. OpenRoots'
  BY DEF OpenRoots, Below, ProcessTypes
<1>7. Complete'
  BY DEF Complete, Below, ProcessTypes
<1>8. Common'
  BY DEF Common, ProcessTypes
<1>9. Handles'
  BY DEF Handles, ProcessTypes
<1>10. QED
  BY <1>1, <1>2, <1>3, <1>4, <1>5, <1>6, <1>7, <1>8, <1>9

LEMMA LeaveKeeps ==
  ASSUME IInv, NEW p \in Procs, Leave(p)
  PROVE  IInv'
<1> USE CommandsAssumption DEF Leave, Reset, Nothing, Go, process, fileSystem, external, IInv
<1>1. FileTypes'
  BY DEF FileTypes
<1>2. ProcessTypes'
  BY DEF ProcessTypes, Pcs
<1>3. Locks'
  BY DEF Locks, ProcessTypes
<1>4. Settled'
  BY DEF Settled, Unverified, ProcessTypes
<1>5. OpenFiles'
  BY DEF OpenFiles, Below, ProcessTypes
<1>6. OpenRoots'
  BY DEF OpenRoots, Below, ProcessTypes
<1>7. Complete'
  BY DEF Complete, Below, ProcessTypes
<1>8. Common'
  BY DEF Common, ProcessTypes
<1>9. Handles'
  BY DEF Handles, ProcessTypes
<1>10. QED
  BY <1>1, <1>2, <1>3, <1>4, <1>5, <1>6, <1>7, <1>8, <1>9

LEMMA BeginMaintenanceKeeps ==
  ASSUME IInv, NEW t \in Trees, BeginMaintenance(t)
  PROVE  IInv'
<1> USE CommandsAssumption DEF BeginMaintenance, CommonFree, HoldsCommon, process, fileSystem, external, IInv
<1>1. FileTypes'
  BY DEF FileTypes
<1>2. ProcessTypes'
  BY DEF ProcessTypes, Pcs
<1>3. Locks'
  BY DEF Locks, ProcessTypes
<1>4. Settled'
  BY DEF Settled, Unverified, ProcessTypes
<1>5. OpenFiles'
  BY DEF OpenFiles, Below, ProcessTypes
<1>6. OpenRoots'
  BY DEF OpenRoots, Below, ProcessTypes
<1>7. Complete'
  BY DEF Complete, Below, ProcessTypes
<1>8. Common'
  BY DEF Common, ProcessTypes
<1>9. Handles'
  BY DEF Handles, ProcessTypes
<1>10. QED
  BY <1>1, <1>2, <1>3, <1>4, <1>5, <1>6, <1>7, <1>8, <1>9

LEMMA EndMaintenanceKeeps ==
  ASSUME IInv, NEW t \in Trees, EndMaintenance(t)
  PROVE  IInv'
<1> USE CommandsAssumption DEF EndMaintenance, process, fileSystem, external, IInv
<1>1. FileTypes'
  BY DEF FileTypes
<1>2. ProcessTypes'
  BY DEF ProcessTypes, Pcs
<1>3. Locks'
  BY DEF Locks, ProcessTypes
<1>4. Settled'
  BY DEF Settled, Unverified, ProcessTypes
<1>5. OpenFiles'
  BY DEF OpenFiles, Below, ProcessTypes
<1>6. OpenRoots'
  BY DEF OpenRoots, Below, ProcessTypes
<1>7. Complete'
  BY DEF Complete, Below, ProcessTypes
<1>8. Common'
  BY DEF Common, ProcessTypes
<1>9. Handles'
  BY DEF Handles, ProcessTypes, FileTypes, Common, OpenRoots, Kinds, Nodes
<1>10. QED
  BY <1>1, <1>2, <1>3, <1>4, <1>5, <1>6, <1>7, <1>8, <1>9

LEMMA SwapParentsKeeps ==
  ASSUME IInv, NEW a \in Paths, NEW b \in Paths, SwapParents(a, b)
  PROVE  IInv'
<1> USE CommandsAssumption DEF SwapParents, MayRename, process, fileSystem, external, IInv
<1>1. FileTypes'
  BY DEF FileTypes, InjectiveOn, Contents, Layouts, Kinds, Nodes
<1>2. ProcessTypes'
  BY DEF ProcessTypes, Pcs
<1>3. Locks'
  BY DEF Locks, ProcessTypes
<1>4. Settled'
  BY DEF Settled, Unverified, ProcessTypes
<1>5. OpenFiles'
  BY DEF OpenFiles, Below, ProcessTypes
<1>6. OpenRoots'
  BY DEF OpenRoots, Below, ProcessTypes
<1>7. Complete'
  BY DEF Complete, Below, ProcessTypes
<1>8. Common'
  BY DEF Common, ProcessTypes
<1>9. Handles'
  BY DEF Handles, ProcessTypes
<1>10. QED
  BY <1>1, <1>2, <1>3, <1>4, <1>5, <1>6, <1>7, <1>8, <1>9

LEMMA MoveEntryKeeps ==
  ASSUME IInv, NEW k \in Kinds, NEW d \in Dirs, NEW e \in Dirs, MoveEntry(k, d, e)
  PROVE  IInv'
<1> USE CommandsAssumption DEF MoveEntry, MayRename, InUse, process, fileSystem, external, IInv
<1>1. FileTypes'
  BY DEF FileTypes
<1>2. ProcessTypes'
  BY DEF ProcessTypes, Pcs
<1>3. Locks'
  BY DEF Locks, ProcessTypes
<1>4. Settled'
  BY DEF Settled, Unverified, ProcessTypes
<1>5. OpenFiles'
  BY DEF OpenFiles, Below, ProcessTypes, FileTypes, Locks, Settled, Kinds, Nodes, Unverified
<1>6. OpenRoots'
  BY DEF OpenRoots, Below, ProcessTypes, FileTypes, Locks, Settled, Kinds, Nodes, Unverified
<1>7. Complete'
  BY DEF Complete, Below, ProcessTypes, FileTypes, Locks, Settled, Kinds, Nodes, Unverified
<1>8. Common'
  BY DEF Common, ProcessTypes
<1>9. Handles'
  BY DEF Handles, ProcessTypes
<1>10. QED
  BY <1>1, <1>2, <1>3, <1>4, <1>5, <1>6, <1>7, <1>8, <1>9

LEMMA Starts == Init => IInv
<1> SUFFICES ASSUME Init PROVE IInv
  OBVIOUS
<1> USE CommandsAssumption DEF Init, Nothing
<1>1. FileTypes
  <2>1. PICK S \in SUBSET Dirs :
          /\ entry \in [Kinds -> [Dirs -> Nodes \cup {None}]]
          /\ \A d \in Dirs : IF d \in S
               THEN entry["database"][d] \in Files /\ entry["data"][d] \in Trees
               ELSE entry["database"][d] = None /\ entry["data"][d] = None
          /\ InjectiveOn(entry["database"], S) /\ InjectiveOn(entry["data"], S)
          /\ content \in [Files -> Contents] /\ layout \in [Trees -> Layouts]
          /\ \A d \in S : <<content[entry["database"][d]], layout[entry["data"][d]]>> \in Stages
          /\ \A f \in Files : (\A d \in S : entry["database"][d] # f) => content[f] = "absent"
          /\ \A t \in Trees : (\A d \in S : entry["data"][d] # t) => layout[t] = "absent"
    OBVIOUS
  <2>2. \A k \in Kinds, d, e \in Dirs : entry[k][d] # None =>
          /\ entry[k][d] \in IF k = "database" THEN Files ELSE Trees
          /\ entry[k][d] = entry[k][e] => d = e
    BY <2>1 DEF Kinds, Nodes, InjectiveOn
  <2>3. \A d \in S : content[entry["database"][d]] # "absent" /\ layout[entry["data"][d]] # "absent"
    BY <2>1 DEF Stages
  <2>4. \A f \in Files : content[f] # "absent" <=> \E d \in Dirs : entry["database"][d] = f
    BY <2>1, <2>3 DEF Nodes
  <2>5. \A t \in Trees : layout[t] # "absent" <=> \E d \in Dirs : entry["data"][d] = t
    BY <2>1, <2>3 DEF Nodes
  <2>6. QED
    BY <2>1, <2>2, <2>4, <2>5 DEF FileTypes
<1>2. ProcessTypes
  BY DEF ProcessTypes, Pcs, Kinds
<1>3. Locks /\ Settled /\ OpenFiles /\ OpenRoots
  BY DEF Locks, Settled, OpenFiles, OpenRoots, Unverified
<1>4. Complete /\ Common /\ Handles
  BY DEF Complete, Common, Handles
<1>5. QED
  BY <1>1, <1>2, <1>3, <1>4 DEF IInv

LEMMA Steps == IInv /\ [Next]_vars => IInv'
<1> SUFFICES ASSUME IInv, [Next]_vars PROVE IInv'
  OBVIOUS
<1>1. CASE UNCHANGED vars
  BY <1>1 DEF vars, fileSystem, external, process, IInv, FileTypes, ProcessTypes, Locks, Settled,
              OpenFiles, OpenRoots, Complete, Common, Handles, Below, Unverified
<1>2. ASSUME NEW p \in Procs, NEW r \in Roles, NEW c \in Configs, Start(p, r, c)
      PROVE  IInv'
  BY <1>2, StartKeeps
<1>3. ASSUME NEW p \in Procs,
             OpenDirectory(p) \/ CreateDirectory(p) \/ TakeCommonLock(p) \/ Recheck(p)
      PROVE  IInv'
  BY <1>3, OpenDirectoryKeeps, CreateDirectoryKeeps, TakeCommonLockKeeps, RecheckKeeps
<1>4. ASSUME NEW p \in Procs,
             LockFirst(p) \/ LockSecond(p) \/ VerifyLocked(p) \/ Validate(p)
      PROVE  IInv'
  BY <1>4, LockFirstKeeps, LockSecondKeeps, VerifyLockedKeeps, ValidateKeeps
<1>5. ASSUME NEW p \in Procs, Reserve(p) \/ WriteSchema(p) \/ RemoveReserved(p)
      PROVE  IInv'
  BY <1>5, ReserveKeeps, WriteSchemaKeeps, RemoveReservedKeeps
<1>6. ASSUME NEW p \in Procs, Connect(p) \/ VerifyAgain(p) \/ OpenStorage(p)
      PROVE  IInv'
  BY <1>6, ConnectKeeps, VerifyAgainKeeps, OpenStorageKeeps
<1>7. ASSUME NEW p \in Procs, Bootstrap(p) \/ CreateStorage(p) \/ Reconnect(p) \/ Leave(p)
      PROVE  IInv'
  BY <1>7, BootstrapKeeps, CreateStorageKeeps, ReconnectKeeps, LeaveKeeps
<1>8. ASSUME NEW t \in Trees, BeginMaintenance(t) \/ EndMaintenance(t)
      PROVE  IInv'
  BY <1>8, BeginMaintenanceKeeps, EndMaintenanceKeeps
<1>9. ASSUME NEW a \in Paths, NEW b \in Paths, SwapParents(a, b)
      PROVE  IInv'
  BY <1>9, SwapParentsKeeps
<1>10. ASSUME NEW k \in Kinds, NEW d \in Dirs, NEW e \in Dirs, MoveEntry(k, d, e)
       PROVE  IInv'
  BY <1>10, MoveEntryKeeps
<1>11. QED
  BY <1>1, <1>2, <1>3, <1>4, <1>5, <1>6, <1>7, <1>8, <1>9, <1>10 DEF Next

LEMMA Invariance == Spec => []IInv
  BY Starts, Steps, PTL DEF Spec

-----------------------------------------------------------------------------
\* Every variable keeps its type, and every file or tree that exists lies in one
\* directory, through every command, refusal, kill and rename.
THEOREM CommandsTyped == Spec => []CommandsTypeOK
<1>1. IInv => CommandsTypeOK
  BY DEF IInv, FileTypes, ProcessTypes, CommandsTypeOK
<1>2. QED
  BY <1>1, Invariance, PTL

\* No two commands work on one database or one data directory (RuntimeLock).
THEOREM WorksAlone == Spec => []OneWorker
<1>1. IInv => OneWorker
  BY FilesApart, RootsApart DEF OneWorker
<1>2. QED
  BY <1>1, Invariance, PTL

\* A server works on one database and one data directory, both complete
\* (validate_existing_configuration, build_state, database_url).
THEOREM ServesComplete == Spec => []ServesOneInstallation
<1>1. IInv => ServesOneInstallation
  <2> SUFFICES ASSUME IInv, NEW p \in Procs, pc[p] = "working", role[p] \in {"run", "scan"}
               PROVE  \E f \in Files : /\ files[p] = {f} /\ content[f] = "complete"
                                       /\ layout[root[p]] = "complete"
    BY DEF ServesOneInstallation
  <2>1. Below(p, "database") \in Files /\ files[p] = {Below(p, "database")}
    BY DEF IInv, OpenFiles
  <2>2. content[Below(p, "database")] = "complete" /\ layout[root[p]] = "complete"
    BY DEF IInv, Complete
  <2>3. QED
    BY <2>1, <2>2
<1>2. QED
  BY <1>1, Invariance, PTL

\* No command works on a data directory with a maintenance pending, unless
\* something was renamed under it (the second runtime_allowed in main.rs).
THEOREM RespectsPending == Spec => []NoWorkWhilePending
<1>1. IInv => NoWorkWhilePending
  BY DEF IInv, OpenRoots, Handles, NoWorkWhilePending
<1>2. QED
  BY <1>1, Invariance, PTL

LEMMA CompleteStays ==
  IInv /\ [Next]_vars => \A f \in Files : content[f] = "complete" => content'[f] = "complete"
<1> SUFFICES ASSUME IInv, [Next]_vars, NEW f \in Files, content[f] = "complete"
             PROVE  content'[f] = "complete"
  OBVIOUS
<1>1. CASE content' = content
  BY <1>1
<1>2. ASSUME NEW p \in Procs, Reserve(p)
      PROVE  content'[f] = "complete"
  BY <1>2 DEF Reserve, IInv, FileTypes
<1>3. ASSUME NEW p \in Procs, WriteSchema(p)
      PROVE  content'[f] = "complete"
  <2>1. f \notin files[p]
    BY <1>3 DEF WriteSchema, IInv, OpenFiles
  <2>2. QED
    BY <1>3, <2>1 DEF WriteSchema
<1>4. ASSUME NEW p \in Procs, RemoveReserved(p)
      PROVE  content'[f] = "complete"
  <2>1. mount[config[p]["database"]] = anchor[p]["database"]
    BY <1>4 DEF RemoveReserved, IInv, Settled, Unverified, Kinds
  <2>2. content[entry["database"][mount[config[p]["database"]]]] = "reserved"
    BY <1>4, <2>1 DEF RemoveReserved, IInv, OpenFiles, Below
  <2>3. QED
    BY <1>4, <2>2 DEF RemoveReserved, RemoveDatabase, IInv, FileTypes
<1>5. ASSUME NEW p \in Procs, Bootstrap(p)
      PROVE  content'[f] = "complete"
  BY <1>5 DEF Bootstrap
<1>6. QED
  <2>1. ASSUME NEW p \in Procs,
               \/ \E r \in Roles, c \in Configs : Start(p, r, c)
               \/ OpenDirectory(p) \/ CreateDirectory(p) \/ TakeCommonLock(p) \/ Recheck(p)
               \/ LockFirst(p) \/ LockSecond(p) \/ VerifyLocked(p)
               \/ Validate(p) \/ Connect(p) \/ VerifyAgain(p) \/ OpenStorage(p)
               \/ CreateStorage(p) \/ Reconnect(p) \/ Leave(p)
        PROVE  content' = content
    BY <2>1 DEF Start, OpenDirectory, CreateDirectory, Opened, TakeCommonLock, Recheck, LockFirst,
                LockSecond, LockLocation, VerifyLocked, Validate, Connect, VerifyAgain, OpenStorage,
                CreateStorage, Reconnect, Leave, fileSystem
  <2>2. ASSUME \/ \E t \in Trees : BeginMaintenance(t) \/ EndMaintenance(t)
               \/ \E a, b \in Paths : SwapParents(a, b)
               \/ \E k \in Kinds, d, e \in Dirs : MoveEntry(k, d, e)
               \/ UNCHANGED vars
        PROVE  content' = content
    BY <2>2 DEF BeginMaintenance, EndMaintenance, SwapParents, MoveEntry, vars, fileSystem
  <2>3. QED
    BY <1>1, <1>2, <1>3, <1>4, <1>5, <2>1, <2>2 DEF Next

\* A database with an administrator stays as it is, whatever init is refused,
\* fails or is repeated.
THEOREM KeepsCompleted == Spec => NeverOverwritten
<1>1. IInv /\ [Next]_vars => [\A f \in Files : content[f] = "complete" => content'[f] = "complete"]_vars
  BY CompleteStays
<1>2. QED
  BY <1>1, Invariance, PTL DEF NeverOverwritten, Spec
=============================================================================
