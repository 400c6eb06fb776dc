------------------------- MODULE PartReceiveProofs -------------------------
(***************************************************************************)
(* The receipt of parts, proved for all sets of uploads, parts and calls   *)
(* and all limits.                                                         *)
(***************************************************************************)
EXTENDS PartReceive, FiniteSetTheorems, TLAPS

\* A call about to set received_at left a whole file at the name of its part.
MarkedIsStored ==
  \A r \in Calls : At(r, {"mark"}) => file[Part(r)] = "good" \/ Part(r) \in damaged

\* The map names the semaphore of every call, and no semaphore twice while it
\* lives.
Registered ==
  /\ \A r \in Calls : Alive(r) => registry[Owner[call[r].upload]] = call[r].semaphore
  /\ \A a, b \in Accounts : registry[a] = registry[b] /\ Strong(registry[a]) => a = b

\* No semaphore gives out more permits than it has.
SemaphoreLimited == \A s \in Semaphores : Cardinality(WritersOf(s)) <= AccountLimit

\* A commit that has begun has every part.
BegunHasAll == \A q \in Slots : status[q[1]] \in {"begun", "settled"} => q \in received

IInv == /\ PartReceiveTypeOK /\ ReceivedStored /\ PartFilesWhole /\ BegunHasAll
        /\ MarkedIsStored /\ Registered /\ SemaphoreLimited

-----------------------------------------------------------------------------
LEMMA InitInvariant == Init => IInv
<1> SUFFICES ASSUME Init PROVE IInv
  OBVIOUS
<1>1. \A r \in Calls : ~Alive(r)
  BY DEF Init, Alive
<1>2. PartReceiveTypeOK
  BY <1>1 DEF Init, PartReceiveTypeOK, Statuses
<1>3. ReceivedStored /\ PartFilesWhole /\ BegunHasAll
  BY DEF Init, ReceivedStored, PartFilesWhole, BegunHasAll, Slots
<1>4. MarkedIsStored /\ Registered
  BY <1>1 DEF MarkedIsStored, Registered, At, Strong
<1>5. SemaphoreLimited
  <2>1. \A s : WritersOf(s) = {}
    BY <1>1 DEF WritersOf, At
  <2> QED BY <2>1, FS_EmptySet, PartReceiveAssumption DEF SemaphoreLimited
<1> QED BY <1>2, <1>3, <1>4, <1>5 DEF IInv

-----------------------------------------------------------------------------
(***************************************************************************)
(* What moving or ending a call does to the rest of the state.             *)
(***************************************************************************)

\* A call that moves on keeps its upload, part and semaphore; the others stay.
LEMMA GoEffect ==
  ASSUME PartReceiveTypeOK, NEW r \in Calls, Alive(r), NEW step \in Steps, Go(r, step)
  PROVE  /\ call' \in [Calls -> Call \cup {None}]
         /\ \A q \in Calls : Alive(q)' =>
              /\ Alive(q)
              /\ call'[q].upload = call[q].upload /\ call'[q].part = call[q].part
              /\ call'[q].semaphore = call[q].semaphore
              /\ call'[q].at = (IF q = r THEN step ELSE call[q].at)
<1>1. call[r] \in Call
  BY DEF PartReceiveTypeOK, Alive
<1>2. [call[r] EXCEPT !.at = step] \in Call
  BY <1>1 DEF Call
<1>3. call' = [call EXCEPT ![r] = [call[r] EXCEPT !.at = step]]
  BY DEF Go
<1>4. \A q \in Calls : call'[q] = IF q = r THEN [call[r] EXCEPT !.at = step] ELSE call[q]
  BY <1>3 DEF PartReceiveTypeOK
<1>5. call' \in [Calls -> Call \cup {None}]
  BY <1>2, <1>3 DEF PartReceiveTypeOK
<1>6. /\ [call[r] EXCEPT !.at = step].upload = call[r].upload
      /\ [call[r] EXCEPT !.at = step].part = call[r].part
      /\ [call[r] EXCEPT !.at = step].semaphore = call[r].semaphore
      /\ [call[r] EXCEPT !.at = step].at = step
  BY <1>1 DEF Call
<1> QED BY <1>4, <1>5, <1>6 DEF Alive

\* A call that ends leaves the others as they are.
LEMMA EndEffect ==
  ASSUME PartReceiveTypeOK, NEW r \in Calls, End(r)
  PROVE  /\ call' \in [Calls -> Call \cup {None}]
         /\ \A q \in Calls : Alive(q)' => Alive(q) /\ q # r /\ call'[q] = call[q]
  BY DEF PartReceiveTypeOK, End, Alive

\* A step of calls in which none is new and none gets a permit of an account.
Quiet ==
  /\ call' \in [Calls -> Call \cup {None}]
  /\ \A q \in Calls : Alive(q)' =>
       /\ Alive(q)
       /\ call'[q].upload = call[q].upload /\ call'[q].part = call[q].part
       /\ call'[q].semaphore = call[q].semaphore
       /\ call'[q].at \in Writing => call[q].at \in Writing

\* Such a step preserves what is said of the semaphores.
LEMMA QuietKeepsSemaphores ==
  ASSUME IInv, Quiet, UNCHANGED registry
  PROVE  Registered' /\ SemaphoreLimited'
<1>1. \A s : Strong(s)' => Strong(s)
  BY DEF Quiet, Strong
<1>2. Registered'
  BY <1>1 DEF Quiet, IInv, Registered
<1>3. \A s : WritersOf(s)' \subseteq WritersOf(s)
  BY DEF Quiet, WritersOf, At
<1>4. ASSUME NEW s \in Semaphores PROVE Cardinality(WritersOf(s)') <= AccountLimit
  <2>1. IsFiniteSet(WritersOf(s))
    BY FS_Subset, PartReceiveAssumption DEF WritersOf
  <2>2. /\ IsFiniteSet(WritersOf(s)')
        /\ Cardinality(WritersOf(s)') <= Cardinality(WritersOf(s))
    BY <1>3, <2>1, FS_Subset
  <2>3. Cardinality(WritersOf(s)) \in Nat /\ Cardinality(WritersOf(s)') \in Nat
    BY <2>1, <2>2, FS_CardinalityType
  <2>4. Cardinality(WritersOf(s)) <= AccountLimit /\ AccountLimit \in Nat
    BY PartReceiveAssumption DEF IInv, SemaphoreLimited
  <2> QED BY <2>2, <2>3, <2>4
<1>5. SemaphoreLimited'
  BY <1>4 DEF SemaphoreLimited
<1> QED BY <1>2, <1>5

\* It preserves what is said of parts too, if it touches no row or file and
\* brings no call to its mark.
LEMMA QuietKeepsParts ==
  ASSUME IInv, Quiet, UNCHANGED <<status, received, file, registry, damaged>>,
         \A q \in Calls : At(q, {"mark"})' =>
           At(q, {"mark"}) \/ file[Part(q)] = "good" \/ Part(q) \in damaged
  PROVE  IInv'
<1>1. \A q \in Calls : Alive(q)' => Alive(q) /\ Part(q)' = Part(q)
  BY DEF Quiet, Part
<1>2. PartReceiveTypeOK'
  BY <1>1 DEF IInv, Quiet, PartReceiveTypeOK, Slots
<1>3. ReceivedStored' /\ PartFilesWhole' /\ BegunHasAll'
  BY DEF IInv, ReceivedStored, PartFilesWhole, BegunHasAll, Slots
<1>4. MarkedIsStored'
  BY <1>1 DEF IInv, MarkedIsStored, At
<1> QED BY <1>2, <1>3, <1>4, QuietKeepsSemaphores DEF IInv

\* Moving a call anywhere but into its body is quiet, and so is ending it.
LEMMA GoIsQuiet ==
  ASSUME PartReceiveTypeOK, NEW r \in Calls, Alive(r), NEW step \in Steps, Go(r, step),
         step \in Writing => At(r, Writing)
  PROVE  Quiet
  BY GoEffect DEF Quiet, At

LEMMA EndIsQuiet ==
  ASSUME PartReceiveTypeOK, NEW r \in Calls, End(r)
  PROVE  Quiet
  BY EndEffect DEF Quiet

-----------------------------------------------------------------------------
(***************************************************************************)
(* Every step.                                                             *)
(***************************************************************************)

\* A new call takes the semaphore the map names for its account, or one that
\* nobody has any more.
LEMMA OpenInvariant ==
  ASSUME IInv, NEW r \in Calls, NEW u \in Uploads, NEW p \in PartsOf[u], Open(r, u, p)
  PROVE  IInv'
<1> DEFINE kept == [a \in Accounts |-> IF Strong(registry[a]) THEN registry[a] ELSE None]
           new(s) == [upload |-> u, part |-> p, semaphore |-> s, at |-> "global"]
<1>1. PICK s \in Semaphores :
        /\ IF kept[Owner[u]] # None THEN s = kept[Owner[u]] ELSE ~Strong(s)
        /\ registry' = [kept EXCEPT ![Owner[u]] = s]
        /\ call' = [call EXCEPT ![r] = new(s)]
  BY Zenon DEF Open
<1>2. /\ ~Alive(r) /\ Owner[u] \in Accounts /\ <<u, p>> \in Slots /\ p \in Parts
      /\ UNCHANGED <<status, received, file, damaged>>
  BY PartReceiveAssumption DEF Open, Slots
<1>3. new(s) \in Call
  BY <1>2 DEF Call, Steps
<1>4. /\ call' \in [Calls -> Call \cup {None}]
      /\ \A q \in Calls : call'[q] = IF q = r THEN new(s) ELSE call[q]
  BY <1>1, <1>3 DEF IInv, PartReceiveTypeOK
<1>5. /\ registry' \in [Accounts -> Semaphores \cup {None}]
      /\ \A a \in Accounts :
           registry'[a] = IF a = Owner[u] THEN s
                          ELSE IF Strong(registry[a]) THEN registry[a] ELSE None
  BY <1>1, <1>2 DEF IInv, PartReceiveTypeOK
<1>6. Strong(s) => registry[Owner[u]] = s
  BY <1>1, <1>2
<1>7. PartReceiveTypeOK'
  <2>1. \A q \in Calls : Alive(q)' => Part(q)' \in Slots
    BY <1>2, <1>4 DEF IInv, PartReceiveTypeOK, Alive, Part
  <2> QED BY <1>2, <1>4, <1>5, <2>1 DEF IInv, PartReceiveTypeOK, Slots
<1>8. ReceivedStored' /\ PartFilesWhole' /\ BegunHasAll'
  BY <1>2 DEF IInv, ReceivedStored, PartFilesWhole, BegunHasAll, Slots
<1>9. MarkedIsStored'
  BY <1>2, <1>4 DEF IInv, MarkedIsStored, At, Alive, Part
<1>10. Registered'
  <2>1. \A t : Strong(t)' <=> Strong(t) \/ (t = s /\ new(s) # None)
    BY <1>2, <1>4 DEF Strong, Alive
  <2>2. ASSUME NEW q \in Calls, Alive(q)'
        PROVE  registry'[Owner[call'[q].upload]] = call'[q].semaphore
    <3>1. CASE q = r
      BY <1>2, <1>4, <1>5, <3>1
    <3>2. CASE q # r
      <4>1. Alive(q) /\ call'[q] = call[q] /\ Strong(call[q].semaphore)
        BY <1>4, <2>2, <3>2 DEF Alive, Strong
      <4>2. Owner[call[q].upload] \in Accounts
        BY <4>1, PartReceiveAssumption DEF IInv, PartReceiveTypeOK, Alive, Call
      <4>3. registry[Owner[call[q].upload]] = call[q].semaphore
        BY <4>1 DEF IInv, Registered
      <4>4. call[q].semaphore # None
        BY <4>1, PartReceiveAssumption DEF IInv, PartReceiveTypeOK, Alive, Call
      <4>5. CASE Owner[call[q].upload] = Owner[u]
        <5>1. Strong(registry[Owner[u]]) /\ registry[Owner[u]] # None
          BY <4>1, <4>3, <4>4, <4>5
        <5>2. s = registry[Owner[u]]
          BY <1>1, <1>2, <5>1
        <5> QED BY <1>2, <1>5, <4>1, <4>3, <4>5, <5>2
      <4>6. CASE Owner[call[q].upload] # Owner[u]
        BY <1>5, <4>1, <4>2, <4>3, <4>6
      <4> QED BY <4>5, <4>6
    <3> QED BY <3>1, <3>2
  <2>3. ASSUME NEW a \in Accounts, NEW b \in Accounts,
               registry'[a] = registry'[b], Strong(registry[a])'
        PROVE  a = b
    <3>1. registry'[a] # None
      <4>1. \A q \in Calls : Alive(q)' => call'[q].semaphore \in Semaphores
        BY <1>4 DEF Alive, Call
      <4> QED BY <2>3, <4>1, PartReceiveAssumption DEF Strong
    <3>2. CASE a # Owner[u] /\ b # Owner[u]
      BY <1>5, <2>3, <3>1, <3>2 DEF IInv, Registered
    <3>3. CASE a = Owner[u] /\ b # Owner[u]
      <4>1. registry[b] = s /\ Strong(registry[b])
        BY <1>5, <2>3, <3>1, <3>3
      <4> QED BY <1>2, <1>6, <3>3, <4>1 DEF IInv, Registered
    <3>4. CASE a # Owner[u] /\ b = Owner[u]
      <4>1. registry[a] = s /\ Strong(registry[a])
        BY <1>5, <2>3, <3>1, <3>4
      <4> QED BY <1>2, <1>6, <3>4, <4>1 DEF IInv, Registered
    <3> QED BY <3>2, <3>3, <3>4
  <2> QED BY <2>2, <2>3 DEF Registered
<1>11. SemaphoreLimited'
  <2>1. \A t : WritersOf(t)' = WritersOf(t)
    BY <1>2, <1>4 DEF WritersOf, At, Alive, Writing
  <2> QED BY <2>1 DEF IInv, SemaphoreLimited
<1> QED BY <1>7, <1>8, <1>9, <1>10, <1>11 DEF IInv

\* A permit of an account is only given out when one is free.
LEMMA GetAccountInvariant ==
  ASSUME IInv, NEW r \in Calls, GetAccount(r) PROVE IInv'
<1> DEFINE s == call[r].semaphore
<1>1. /\ Alive(r) /\ call[r].at = "account" /\ Cardinality(WritersOf(s)) < AccountLimit
      /\ Go(r, "body") /\ UNCHANGED <<status, received, file, registry, damaged>>
  BY DEF GetAccount, At
<1>2. /\ call' \in [Calls -> Call \cup {None}]
      /\ \A q \in Calls : Alive(q)' =>
           /\ Alive(q)
           /\ call'[q].upload = call[q].upload /\ call'[q].part = call[q].part
           /\ call'[q].semaphore = call[q].semaphore
           /\ call'[q].at = (IF q = r THEN "body" ELSE call[q].at)
  BY <1>1, GoEffect DEF IInv, Steps, Writing
<1>3. \A q \in Calls : Alive(q)' => Part(q)' = Part(q)
  BY <1>2 DEF Part
<1>4. PartReceiveTypeOK'
  BY <1>1, <1>2, <1>3 DEF IInv, PartReceiveTypeOK, Slots
<1>5. ReceivedStored' /\ PartFilesWhole' /\ BegunHasAll'
  BY <1>1 DEF IInv, ReceivedStored, PartFilesWhole, BegunHasAll, Slots
<1>6. MarkedIsStored'
  BY <1>1, <1>2, <1>3 DEF IInv, MarkedIsStored, At
<1>7. Registered'
  <2>1. \A t : Strong(t)' => Strong(t)
    BY <1>2 DEF Strong
  <2> QED BY <1>1, <1>2, <2>1 DEF IInv, Registered
<1>8. ASSUME NEW t \in Semaphores PROVE Cardinality(WritersOf(t)') <= AccountLimit
  <2>1. IsFiniteSet(WritersOf(t))
    BY FS_Subset, PartReceiveAssumption DEF WritersOf
  <2>2. Cardinality(WritersOf(t)) \in Nat /\ AccountLimit \in Nat
    BY <2>1, FS_CardinalityType, PartReceiveAssumption
  <2>3. WritersOf(t)' \subseteq (IF t = s THEN WritersOf(t) \cup {r} ELSE WritersOf(t))
    BY <1>2 DEF WritersOf, At
  <2>4. CASE t = s
    <3>1. r \notin WritersOf(t)
      BY <1>1 DEF WritersOf, At, Writing
    <3>2. /\ IsFiniteSet(WritersOf(t) \cup {r})
          /\ Cardinality(WritersOf(t) \cup {r}) = Cardinality(WritersOf(t)) + 1
      BY <2>1, <3>1, FS_AddElement
    <3>3. /\ IsFiniteSet(WritersOf(t)')
          /\ Cardinality(WritersOf(t)') <= Cardinality(WritersOf(t) \cup {r})
      BY <2>3, <2>4, <3>2, FS_Subset
    <3>4. Cardinality(WritersOf(t)') \in Nat
      BY <3>3, FS_CardinalityType
    <3> QED BY <1>1, <2>2, <2>4, <3>2, <3>3, <3>4
  <2>5. CASE t # s
    <3>1. /\ IsFiniteSet(WritersOf(t)')
          /\ Cardinality(WritersOf(t)') <= Cardinality(WritersOf(t))
      BY <2>1, <2>3, <2>5, FS_Subset
    <3>2. Cardinality(WritersOf(t)') \in Nat
      BY <3>1, FS_CardinalityType
    <3>3. Cardinality(WritersOf(t)) <= AccountLimit
      BY DEF IInv, SemaphoreLimited
    <3> QED BY <2>2, <3>1, <3>2, <3>3
  <2> QED BY <2>4, <2>5
<1>9. SemaphoreLimited'
  BY <1>8 DEF SemaphoreLimited
<1> QED BY <1>4, <1>5, <1>6, <1>7, <1>9 DEF IInv

\* Links put whole files where there were none; a part that is there already
\* is marked only if it is whole.
LEMMA LinkInvariant ==
  ASSUME IInv, NEW r \in Calls, Link(r) PROVE IInv'
<1>1. Alive(r) /\ call[r].at = "link" /\ UNCHANGED <<status, received, registry, damaged>>
  BY DEF Link, At
<1>2. CASE file[Part(r)] # "missing" /\ Go(r, "compare") /\ UNCHANGED file
  <2>1. Quiet
    BY <1>1, <1>2, GoIsQuiet DEF IInv, Steps, Writing, At
  <2>2. \A q \in Calls : At(q, {"mark"})' => At(q, {"mark"})
    BY <1>1, <1>2, GoEffect DEF IInv, Steps, Writing, At
  <2>3. \A q \in Calls : At(q, {"mark"})' =>
          At(q, {"mark"}) \/ file[Part(q)] = "good" \/ Part(q) \in damaged
    BY <2>2
  <2> QED BY <1>1, <1>2, <2>1, <2>3, QuietKeepsParts
<1>3. CASE /\ file[Part(r)] = "missing"
           /\ file' = [file EXCEPT ![Part(r)] = "good"]
           /\ Go(r, "mark") \/ End(r)
  <2>1. Quiet
    BY <1>1, <1>3, GoIsQuiet, EndIsQuiet DEF IInv, Steps, Writing, At
  <2>2. \A q \in Calls : Alive(q)' => Alive(q) /\ Part(q)' = Part(q)
    BY <2>1 DEF Quiet, Part
  <2>3. Part(r) \in Slots
    BY <1>1 DEF IInv, PartReceiveTypeOK
  <2>4. /\ file' \in [Slots -> {"missing", "good", "bad"}]
        /\ \A x \in Slots : file'[x] = IF x = Part(r) THEN "good" ELSE file[x]
    BY <1>3, <2>3 DEF IInv, PartReceiveTypeOK
  <2>5. PartReceiveTypeOK'
    BY <1>1, <2>1, <2>2, <2>4 DEF IInv, PartReceiveTypeOK, Quiet, Slots
  <2>6. ReceivedStored' /\ PartFilesWhole' /\ BegunHasAll'
    BY <1>1, <2>4 DEF IInv, PartReceiveTypeOK, ReceivedStored, PartFilesWhole, BegunHasAll, Slots
  <2>7. \A q \in Calls : At(q, {"mark"})' => q = r \/ At(q, {"mark"})
    BY <1>1, <1>3, GoEffect, EndEffect DEF IInv, Steps, Writing, At
  <2>8. \A q \in Calls : Alive(q) => Part(q) \in Slots
    BY DEF IInv, PartReceiveTypeOK
  <2>9. MarkedIsStored'
    BY <1>1, <2>2, <2>4, <2>7, <2>8 DEF IInv, MarkedIsStored, At
  <2> QED BY <1>1, <2>1, <2>5, <2>6, <2>9, QuietKeepsSemaphores DEF IInv
<1> QED BY <1>2, <1>3 DEF Link

LEMMA CompareInvariant ==
  ASSUME IInv, NEW r \in Calls, Compare(r) PROVE IInv'
<1>1. /\ Alive(r) /\ call[r].at = "compare"
      /\ UNCHANGED <<status, received, file, registry, damaged>>
      /\ (file[Part(r)] = "good" /\ Go(r, "mark")) \/ End(r)
  BY DEF Compare, At
<1>2. Quiet
  BY <1>1, GoIsQuiet, EndIsQuiet DEF IInv, Steps, Writing, At
<1>3. \A q \in Calls : At(q, {"mark"})' => At(q, {"mark"}) \/ file[Part(q)] = "good"
  BY <1>1, GoEffect, EndEffect DEF IInv, Steps, Writing, At
<1> QED BY <1>1, <1>2, <1>3, QuietKeepsParts

LEMMA MarkInvariant ==
  ASSUME IInv, NEW r \in Calls, Mark(r) PROVE IInv'
<1>1. /\ At(r, {"mark"}) /\ Alive(r) /\ End(r) /\ UNCHANGED <<status, file, registry, damaged>>
      /\ received' = IF status[call[r].upload] = "deleted" THEN received
                     ELSE received \cup {Part(r)}
  BY DEF Mark, At
<1>2. Quiet
  BY <1>1, EndIsQuiet DEF IInv
<1>3. \A q \in Calls : Alive(q)' => Alive(q) /\ Part(q)' = Part(q)
  BY <1>2 DEF Quiet, Part
<1>4. Part(r) \in Slots /\ Part(r)[1] = call[r].upload
  BY <1>1 DEF IInv, PartReceiveTypeOK, Part
<1>5. PartReceiveTypeOK'
  BY <1>1, <1>2, <1>3, <1>4 DEF IInv, PartReceiveTypeOK, Quiet, Slots
<1>6. ReceivedStored' /\ PartFilesWhole' /\ BegunHasAll'
  BY <1>1 DEF IInv, ReceivedStored, MarkedIsStored, PartFilesWhole, BegunHasAll, Slots
<1>7. MarkedIsStored'
  BY <1>1, <1>3, EndEffect DEF IInv, MarkedIsStored, At
<1> QED BY <1>1, <1>2, <1>5, <1>6, <1>7, QuietKeepsSemaphores DEF IInv

LEMMA CallStepInvariant ==
  ASSUME IInv, NEW r \in Calls, CallStep(r) PROVE IInv'
<1>1. CASE GetGlobal(r) \/ BodyStored(r)
  <2>1. PICK step \in {"account", "link"} :
          /\ Alive(r) /\ Go(r, step) /\ (step = "link" => At(r, Writing))
          /\ UNCHANGED <<status, received, file, registry, damaged>>
    BY <1>1 DEF GetGlobal, BodyStored, At, Writing
  <2>2. Quiet
    BY <2>1, GoIsQuiet DEF IInv, Steps, Writing
  <2>3. \A q \in Calls : At(q, {"mark"})' => At(q, {"mark"})
    BY <2>1, GoEffect DEF IInv, Steps, Writing, At
  <2> QED BY <2>1, <2>2, <2>3, QuietKeepsParts
<1>2. CASE Leave(r)
  <2>1. End(r) /\ UNCHANGED <<status, received, file, registry, damaged>>
    BY <1>2 DEF Leave
  <2>2. \A q \in Calls : At(q, {"mark"})' => At(q, {"mark"})
    BY <2>1, EndEffect DEF IInv, At
  <2> QED BY <2>1, <2>2, EndIsQuiet, QuietKeepsParts DEF IInv
<1> QED
  BY <1>1, <1>2, OpenInvariant, GetAccountInvariant, LinkInvariant, CompareInvariant,
     MarkInvariant DEF CallStep

LEMMA StepInvariant == IInv /\ [Next]_vars => IInv'
<1> SUFFICES ASSUME IInv, [Next]_vars PROVE IInv'
  OBVIOUS
<1> USE DEF IInv
<1>1. ASSUME NEW u \in Uploads,
             \/ BeginCommit(u) \/ Settle(u) \/ DeleteUpload(u)
      PROVE  IInv'
  <2>1. /\ UNCHANGED <<file, call, registry, damaged>>
        /\ status' \in [Uploads -> Statuses] /\ received' \subseteq received
        /\ \A q \in received' : status'[q[1]] # "deleted"
    BY <1>1 DEF BeginCommit, Settle, DeleteUpload, PartReceiveTypeOK, Statuses, Slots
  <2>5. BegunHasAll'
    BY <1>1 DEF BeginCommit, Settle, DeleteUpload, BegunHasAll, PartReceiveTypeOK, Slots
  <2>2. PartReceiveTypeOK'
    BY <2>1 DEF PartReceiveTypeOK, Alive, Part, Slots
  <2>3. ReceivedStored' /\ PartFilesWhole' /\ MarkedIsStored'
    BY <2>1 DEF ReceivedStored, PartFilesWhole, MarkedIsStored, Slots, At, Alive, Part
  <2>4. Registered' /\ SemaphoreLimited'
    BY <2>1 DEF Registered, SemaphoreLimited, Strong, Alive, WritersOf, At
  <2> QED BY <2>2, <2>3, <2>4, <2>5
<1>2. ASSUME NEW u \in Uploads, NEW p \in PartsOf[u], Damage(u, p) PROVE IInv'
  <2>1. /\ UNCHANGED <<status, received, call, registry>> /\ <<u, p>> \in Slots
        /\ damaged' = damaged \cup {<<u, p>>}
        /\ file' = [file EXCEPT ![<<u, p>>] = "bad"]
    BY <1>2, PartReceiveAssumption DEF Damage, Slots
  <2>2. PartReceiveTypeOK'
    BY <2>1 DEF PartReceiveTypeOK, Alive, Part, Slots
  <2>3. ReceivedStored' /\ PartFilesWhole' /\ BegunHasAll'
    BY <2>1 DEF PartReceiveTypeOK, ReceivedStored, PartFilesWhole, BegunHasAll, Slots
  <2>4. MarkedIsStored'
    BY <2>1 DEF PartReceiveTypeOK, MarkedIsStored, Slots, At, Alive, Part
  <2>5. Registered' /\ SemaphoreLimited'
    BY <2>1 DEF Registered, SemaphoreLimited, Strong, Alive, WritersOf, At
  <2> QED BY <2>2, <2>3, <2>4, <2>5
<1>3. CASE Crash
  <2>1. Quiet /\ \A q \in Calls : ~Alive(q)'
    BY <1>3 DEF Crash, Quiet, Alive
  <2>2. registry' \in [Accounts -> Semaphores \cup {None}]
    BY <1>3 DEF Crash
  <2>3. PartReceiveTypeOK'
    BY <1>3, <2>1, <2>2 DEF Crash, Quiet, PartReceiveTypeOK, Slots
  <2>4. ReceivedStored' /\ PartFilesWhole' /\ MarkedIsStored'
    BY <1>3, <2>1 DEF Crash, ReceivedStored, PartFilesWhole, MarkedIsStored, Slots, At
  <2>5. Registered'
    BY <2>1 DEF Registered, Strong
  <2>6. SemaphoreLimited'
    <3>1. \A s : WritersOf(s)' = {}
      BY <2>1 DEF WritersOf, At
    <3>2. Cardinality({}) = 0 /\ 0 <= AccountLimit
      BY FS_EmptySet, PartReceiveAssumption
    <3> QED BY <3>1, <3>2 DEF SemaphoreLimited
  <2>7. BegunHasAll'
    BY <1>3 DEF Crash, BegunHasAll, Slots
  <2> QED BY <2>3, <2>4, <2>5, <2>6, <2>7
<1>4. CASE UNCHANGED vars
  BY <1>4 DEF vars, PartReceiveTypeOK, ReceivedStored, PartFilesWhole, BegunHasAll, MarkedIsStored,
     Registered, SemaphoreLimited, Slots, At, Alive, Part, Strong, WritersOf
<1> QED
  BY <1>1, <1>2, <1>3, <1>4, CallStepInvariant DEF Next, UploadStep

LEMMA Invariance == Spec => []IInv
  BY InitInvariant, StepInvariant, PTL DEF Spec

-----------------------------------------------------------------------------
(***************************************************************************)
(* The theorems.                                                           *)
(***************************************************************************)

\* Every variable keeps its type, and no row of a part outlives its upload.
THEOREM TypeCorrect == Spec => []PartReceiveTypeOK
  BY Invariance, PTL DEF IInv

\* A part with a receipt is on disk, whatever calls raced or crashed.
THEOREM ReceiptsAreStored == Spec => []ReceivedStored
  BY Invariance, PTL DEF IInv

\* Only rot leaves a broken file under the name of a part.
THEOREM FilesAreWhole == Spec => []PartFilesWhole
  BY Invariance, PTL DEF IInv

\* An account never writes more parts at once than its limit allows: all its
\* calls that write have a permit of the one semaphore the map names.
THEOREM AccountsAreLimited == Spec => []AccountLimited
<1>1. ASSUME IInv PROVE AccountLimited
  <2> SUFFICES ASSUME NEW a \in Accounts
               PROVE  Cardinality(WritersFor(a)) <= AccountLimit
    BY DEF AccountLimited
  <2>1. CASE WritersFor(a) = {}
    BY <2>1, FS_EmptySet, PartReceiveAssumption
  <2>2. CASE WritersFor(a) # {}
    <3>1. \A q \in WritersFor(a) : q \in WritersOf(registry[a]) /\ call[q].semaphore = registry[a]
      BY <1>1 DEF IInv, Registered, WritersFor, WritersOf, At
    <3>2. registry[a] \in Semaphores
      <4>1. PICK q \in Calls : q \in WritersFor(a)
        BY <2>2 DEF WritersFor
      <4> QED BY <1>1, <3>1, <4>1 DEF IInv, PartReceiveTypeOK, WritersFor, At, Alive, Call
    <3>3. IsFiniteSet(WritersOf(registry[a]))
      BY FS_Subset, PartReceiveAssumption DEF WritersOf
    <3>4. /\ IsFiniteSet(WritersFor(a))
          /\ Cardinality(WritersFor(a)) <= Cardinality(WritersOf(registry[a]))
      BY <3>1, <3>3, FS_Subset
    <3>5. Cardinality(WritersOf(registry[a])) \in Nat /\ Cardinality(WritersFor(a)) \in Nat
      BY <3>3, <3>4, FS_CardinalityType
    <3>6. Cardinality(WritersOf(registry[a])) <= AccountLimit /\ AccountLimit \in Nat
      BY <1>1, <3>2, PartReceiveAssumption DEF IInv, SemaphoreLimited
    <3> QED BY <3>4, <3>5, <3>6
  <2> QED BY <2>1, <2>2
<1> QED BY <1>1, Invariance, PTL

\* To an upload its parts look as PartLedger says: once a commit has begun no
\* late, doubled or interrupted call changes anything about them.
THEOREM PartsRefineLedger == Spec => ImplementsLedger
<1> DEFINE phase == [u \in Uploads |-> CASE status[u] = "receiving" -> "receiving"
                                         [] status[u] = "deleted" -> "gone"
                                         [] OTHER -> "frozen"]
           have == [u \in Uploads |-> {p \in PartsOf[u] : <<u, p>> \in received}]
<1>1. Init => L!Init
  BY DEF Init, L!Init
<1>2. IInv /\ [Next]_vars => [L!Next]_<<phase, have>>
  <2> SUFFICES ASSUME IInv, [Next]_vars PROVE L!Next \/ UNCHANGED <<phase, have>>
    OBVIOUS
  <2>1. CASE UNCHANGED <<status, received>>
    BY <2>1
  <2>2. ASSUME NEW r \in Calls, Mark(r) PROVE L!Next \/ UNCHANGED <<phase, have>>
    <3>1. PICK u \in Uploads, p \in Parts :
            /\ p \in PartsOf[u] /\ <<u, p>> \in Slots /\ UNCHANGED status
            /\ received' = IF status[u] = "deleted" THEN received
                           ELSE received \cup {<<u, p>>}
      BY <2>2 DEF Mark, At, Part, IInv, PartReceiveTypeOK, Slots, Call, Alive
    <3>2. CASE status[u] = "receiving"
      <4>1. have' = [have EXCEPT ![u] = @ \cup {p}]
        BY <3>1, <3>2
      <4>2. L!Take(u, p)
        BY <3>1, <3>2, <4>1 DEF L!Take
      <4>3. \E v \in Uploads : \E q \in PartsOf[v] : L!Take(v, q)
        BY <3>1, <4>2, Zenon
      <4> QED BY <4>3, Zenon DEF L!Next
    <3>3. CASE status[u] # "receiving"
      <4>1. received' = received
        BY <3>1, <3>3 DEF IInv, BegunHasAll, PartReceiveTypeOK, Statuses
      <4> QED BY <3>1, <4>1
    <3> QED BY <3>2, <3>3
  <2>3. ASSUME NEW u \in Uploads, BeginCommit(u) PROVE L!Freeze(u)
    <3>1. /\ status[u] = "receiving" /\ received' = received
          /\ status' = [status EXCEPT ![u] = "begun"]
      BY <2>3 DEF BeginCommit
    <3>2. have[u] = PartsOf[u]
      BY <2>3 DEF BeginCommit
    <3>3. phase[u] = "receiving" /\ phase' = [phase EXCEPT ![u] = "frozen"]
      BY <3>1 DEF IInv, PartReceiveTypeOK
    <3> QED BY <3>1, <3>2, <3>3 DEF L!Freeze
  <2>4. ASSUME NEW u \in Uploads, Settle(u) PROVE UNCHANGED <<phase, have>>
    BY <2>4 DEF Settle, IInv, PartReceiveTypeOK
  <2>5. ASSUME NEW u \in Uploads, DeleteUpload(u) PROVE L!Forget({u})
    <3>1. /\ status' = [status EXCEPT ![u] = "deleted"]
          /\ received' = {q \in received : q[1] # u}
      BY <2>5 DEF DeleteUpload
    <3>2. phase' = [v \in Uploads |-> IF v \in {u} THEN "gone" ELSE phase[v]]
      BY <3>1 DEF IInv, PartReceiveTypeOK
    <3>3. have' = [v \in Uploads |-> IF v \in {u} THEN {} ELSE have[v]]
      BY <3>1
    <3> QED BY <3>2, <3>3 DEF L!Forget
  <2>6. ASSUME NEW r \in Calls, CallStep(r) PROVE Mark(r) \/ UNCHANGED <<status, received>>
    BY <2>6 DEF CallStep, Open, GetGlobal, GetAccount, Leave, BodyStored, Link, Compare
  <2>7. ASSUME NEW u \in Uploads, NEW p \in PartsOf[u], Damage(u, p)
        PROVE  UNCHANGED <<status, received>>
    BY <2>7 DEF Damage
  <2>8. Crash \/ UNCHANGED vars => UNCHANGED <<status, received>>
    BY DEF Crash, vars
  <2> QED
    BY <2>1, <2>2, <2>3, <2>4, <2>5, <2>6, <2>7, <2>8 DEF Next, UploadStep, L!Next
<1> QED BY <1>1, <1>2, Invariance, PTL DEF Spec, ImplementsLedger, L!Spec
=============================================================================
