------------------------ MODULE LoginAdmissionProofs ------------------------
(***************************************************************************)
(* The rate, the bound on the table and the honesty of denials, for every  *)
(* policy, capacity and number of keys and calls.                          *)
(***************************************************************************)
EXTENDS LoginAdmission, FiniteSetTheorems, TLAPS

-----------------------------------------------------------------------------
(***************************************************************************)
(* Arithmetic.                                                             *)
(***************************************************************************)

\* A full bucket holds at least a token.
LEMMA FullHoldsToken == Full \in Nat /\ Refill \in Nat /\ Refill <= Full /\ 0 < Refill
<1>1. Burst \in Nat /\ Refill \in Nat /\ 1 <= Burst /\ 1 <= Refill
  BY PolicyAssumption
<1>2. ASSUME NEW b \in Nat, NEW r \in Nat, 1 <= b
      PROVE  b * r \in Nat /\ r <= b * r
  BY <1>2
<1>q. QED BY <1>1, <1>2 DEF Full

\* A set of numbers that is not empty has a least one.
LEMMA LeastNumber ==
  ASSUME NEW T, T \subseteq Nat, T # {}
  PROVE  \E x \in T : \A y \in T : x <= y
<1>1. \E x \in T : \A y \in T : ~ (<<y, x>> \in OpToRel(<, Nat))
  BY NatLessThanWellFounded, WFMin, Zenon
<1>2. \E x \in T : \A y \in T : ~ (y < x)
  BY <1>1, Zenon DEF OpToRel
<1>q. QED BY <1>2

-----------------------------------------------------------------------------
(***************************************************************************)
(* What the operators of the table return.                                 *)
(***************************************************************************)

LEMMA ElapsedIsTime ==
  ASSUME LoginTypeOK, NEW k \in Keys, NEW t \in Nat
  PROVE  /\ Elapsed(k, t) \in Nat
         /\ t <= refilled[k] + Elapsed(k, t)
         /\ Elapsed(k, t) <= t
         /\ refilled[k] <= t => t = refilled[k] + Elapsed(k, t)
BY DEF LoginTypeOK, Elapsed

LEMMA TokensAreBounded ==
  ASSUME LoginTypeOK, NEW k \in Keys, NEW t \in Nat
  PROVE  /\ TokensAt(k, t) \in 0 .. Full
         /\ TokensAt(k, t) <= credit[k] + Elapsed(k, t)
         /\ TokensAt(k, t) = Full \/ TokensAt(k, t) = credit[k] + Elapsed(k, t)
BY FullHoldsToken, ElapsedIsTime DEF LoginTypeOK, TokensAt

\* Time only fills a bucket.
LEMMA TokensGrow ==
  ASSUME LoginTypeOK, NEW k \in Keys, NEW t \in Nat, NEW u \in Nat, t <= u
  PROVE  TokensAt(k, t) <= TokensAt(k, u) /\ Elapsed(k, t) <= Elapsed(k, u)
<1>1. Elapsed(k, t) <= Elapsed(k, u) BY DEF LoginTypeOK, Elapsed
<1>q. QED BY <1>1, FullHoldsToken, ElapsedIsTime DEF LoginTypeOK, TokensAt

\* An entry that has expired would be full.
LEMMA ExpiredIsFull ==
  ASSUME LoginTypeOK, NEW k \in Keys, NEW t \in Nat, TTL <= Elapsed(k, t)
  PROVE  TokensAt(k, t) = Full
BY FullHoldsToken, ElapsedIsTime, TTLAssumption, PolicyAssumption DEF LoginTypeOK, TokensAt

LEMMA AvailableIsBounded ==
  ASSUME LoginTypeOK, NEW k \in Keys, NEW t \in Nat
  PROVE  Available(k, t) \in 0 .. Full
BY TokensAreBounded, FullHoldsToken DEF Available

-----------------------------------------------------------------------------
(***************************************************************************)
(* The inductive invariant.  What a bucket holds now and what its key owes *)
(* together stay within a full bucket and the waits of its calls; a key    *)
(* without a bucket owes no more than those waits, which is why it may be  *)
(* given a full one.                                                       *)
(***************************************************************************)
TimesPast ==
  /\ \A k \in Keys : refilled[k] <= clock
  /\ \A c \in Calls : stamp[c] <= clock

Budget == \A k \in Keys :
  /\ k \in entries => TokensAt(k, clock) + owed[k] <= Full + late[k]
  /\ k \notin entries => owed[k] <= late[k]

TableFinite == IsFiniteSet(entries) /\ TableBounded

IInv == LoginTypeOK /\ TimesPast /\ Budget /\ TableFinite

\* What a call may find covers what its key owes.
LEMMA AvailableIsCovered ==
  ASSUME IInv, NEW k \in Keys, NEW t \in Nat, t <= clock
  PROVE  Available(k, t) + owed[k] <= Full + late[k]
<1>0. LoginTypeOK /\ Budget BY DEF IInv
<1>1. /\ clock \in Nat /\ owed[k] \in Nat /\ late[k] \in Nat
      /\ TokensAt(k, t) \in 0 .. Full /\ TokensAt(k, clock) \in 0 .. Full
  BY <1>0, TokensAreBounded DEF LoginTypeOK
<1>2. CASE k \in Kept(t)
  <2>1. TokensAt(k, t) <= TokensAt(k, clock) BY <1>0, <1>1, TokensGrow
  <2>2. k \in entries BY <1>2 DEF Kept
  <2>q. QED BY <1>0, <1>1, <1>2, <2>1, <2>2, FullHoldsToken DEF Budget, Available
<1>3. CASE k \in entries /\ k \notin Kept(t)
  <2>1. TTL <= Elapsed(k, clock)
    BY <1>0, <1>1, <1>3, TokensGrow, ElapsedIsTime, PolicyAssumption DEF Kept
  <2>2. TokensAt(k, clock) = Full BY <1>0, <1>1, <2>1, ExpiredIsFull
  <2>q. QED BY <1>0, <1>1, <1>3, <2>2, FullHoldsToken DEF Budget, Available
<1>4. CASE k \notin entries
  BY <1>0, <1>1, <1>4, FullHoldsToken DEF Budget, Available, Kept
<1>q. QED BY <1>2, <1>3, <1>4 DEF Kept

\* What a call may drop from the map owes no more than its waits.
LEMMA DroppedOwesNothing ==
  ASSUME IInv, NEW k \in Keys, NEW t \in Nat, t <= clock,
         k \in entries, k \notin Kept(t) \/ k \in Replenished(t)
  PROVE  owed[k] <= late[k]
<1>0. LoginTypeOK /\ Budget BY DEF IInv
<1>1. /\ clock \in Nat /\ owed[k] \in Nat /\ late[k] \in Nat
      /\ TokensAt(k, t) \in 0 .. Full /\ TokensAt(k, clock) \in 0 .. Full
  BY <1>0, TokensAreBounded DEF LoginTypeOK
<1>2. TokensAt(k, clock) = Full
  <2>1. CASE k \notin Kept(t)
    <3>1. TTL <= Elapsed(k, clock)
      BY <1>0, <1>1, <2>1, TokensGrow, ElapsedIsTime, PolicyAssumption DEF Kept
    <3>q. QED BY <1>0, <1>1, <3>1, ExpiredIsFull
  <2>2. CASE k \in Replenished(t)
    BY <1>0, <1>1, <2>2, TokensGrow, FullHoldsToken DEF Replenished
  <2>q. QED BY <2>1, <2>2
<1>q. QED BY <1>0, <1>1, <1>2, FullHoldsToken DEF Budget

\* The keys a call leaves in the map: its own, and kept ones.
LEMMA TablesAreSmall ==
  ASSUME IInv, NEW k \in Keys, NEW t \in Nat, NEW S \in Tables(k, t)
  PROVE  /\ k \in S /\ S \subseteq Kept(t) \cup {k}
         /\ \A j \in Kept(t) : j \in S \/ j \in Replenished(t)
         /\ IsFiniteSet(S) /\ Cardinality(S) <= Capacity
<1>0. /\ IsFiniteSet(entries) /\ Cardinality(entries) <= Capacity
      /\ Kept(t) \in SUBSET entries /\ Capacity \in Nat
  BY PolicyAssumption DEF IInv, TableFinite, TableBounded, Kept
<1>1. /\ IsFiniteSet(Kept(t)) /\ Cardinality(Kept(t)) \in Nat
      /\ Cardinality(Kept(t)) <= Capacity
  BY <1>0, FS_Subset, FS_CardinalityType
<1>2. CASE k \in Kept(t)
  BY <1>1, <1>2 DEF Tables
<1>3. CASE k \notin Kept(t) /\ HasRoom(Kept(t))
  <2>1. S = Kept(t) \cup {k} BY <1>3 DEF Tables
  <2>2. IsFiniteSet(S) /\ Cardinality(S) = Cardinality(Kept(t)) + 1
    BY <1>1, <1>3, <2>1, FS_AddElement
  <2>q. QED BY <1>0, <1>1, <1>3, <2>1, <2>2 DEF HasRoom
<1>4. CASE k \notin Kept(t) /\ ~HasRoom(Kept(t))
  <2>1. PICK e \in Evictable(t) : S = (Kept(t) \ {e}) \cup {k}
    BY <1>4 DEF Tables
  <2>2. e \in Kept(t) /\ e \in Replenished(t) BY DEF Evictable, Replenished
  <2>3. IsFiniteSet(Kept(t) \ {e}) /\ Cardinality(Kept(t) \ {e}) = Cardinality(Kept(t)) - 1
    BY <1>1, <2>2, FS_RemoveElement
  <2>4. IsFiniteSet(S) /\ Cardinality(S) = Cardinality(Kept(t))
    <3>1. k \notin Kept(t) \ {e} BY <1>4
    <3>2. /\ IsFiniteSet((Kept(t) \ {e}) \cup {k})
          /\ Cardinality((Kept(t) \ {e}) \cup {k}) = Cardinality(Kept(t) \ {e}) + 1
      BY <2>3, <3>1, FS_AddElement, Zenon
    <3>q. QED BY <1>1, <2>1, <2>3, <3>2
  <2>q. QED BY <1>1, <2>1, <2>2, <2>4
<1>q. QED BY <1>2, <1>3, <1>4

-----------------------------------------------------------------------------
(***************************************************************************)
(* Every step keeps the invariant.                                         *)
(***************************************************************************)

\* A call that leaves its entry with what it found less what it took.
LEMMA LeavingKeepsInvariant ==
  ASSUME IInv, NEW c \in Calls, Judged(c), NEW taken \in Nat,
         taken <= Available(asking[c], stamp[c]),
         LeftWith(c, Available(asking[c], stamp[c]) - taken),
         owed' = [owed EXCEPT ![asking[c]] = @ + taken]
  PROVE  IInv'
<1> DEFINE k == asking[c]
           t == stamp[c]
           x == Available(k, t) - taken
<1>0. /\ LoginTypeOK /\ TimesPast /\ Budget
      /\ k \in Keys /\ t \in Nat /\ t <= clock /\ clock \in Nat /\ clock' = clock
      /\ owed \in [Keys -> Nat] /\ late \in [Keys -> Nat]
  BY DEF IInv, LoginTypeOK, TimesPast, Judged
<1>1. Available(k, t) \in 0 .. Full /\ x \in 0 .. Full /\ Full \in Nat
  BY <1>0, AvailableIsBounded, FullHoldsToken
<1>2. PICK S \in Tables(k, t) :
        Keep(S, [credit EXCEPT ![k] = x], [refilled EXCEPT ![k] = t])
  BY DEF LeftWith
<1>3. /\ k \in S /\ S \subseteq Kept(t) \cup {k} /\ Kept(t) \subseteq entries
      /\ \A j \in Kept(t) : j \in S \/ j \in Replenished(t)
      /\ IsFiniteSet(S) /\ Cardinality(S) <= Capacity
  BY <1>0, TablesAreSmall DEF Kept
<1>4. /\ entries' = S
      /\ credit' = [j \in Keys |-> IF j = k THEN x ELSE IF j \in S THEN credit[j] ELSE 0]
      /\ refilled' = [j \in Keys |-> IF j = k THEN t ELSE IF j \in S THEN refilled[j] ELSE 0]
  BY <1>0, <1>2, <1>3 DEF Keep, LoginTypeOK
<1>5. late' = [late EXCEPT ![k] = @ + (clock - t)] BY DEF Judged
<1>6. LoginTypeOK'
  <2>1. entries' \subseteq Keys BY <1>0, <1>3, <1>4 DEF LoginTypeOK
  <2>2. credit' \in [Keys -> 0 .. Full] /\ refilled' \in [Keys -> Nat]
    BY <1>0, <1>1, <1>4 DEF LoginTypeOK
  <2>3. owed' \in [Keys -> Nat] /\ late' \in [Keys -> Nat]
    BY <1>0, <1>5
  <2>q. QED BY <1>0, <2>1, <2>2, <2>3 DEF LoginTypeOK, Judged
<1>7. TimesPast'
  BY <1>0, <1>4 DEF TimesPast, LoginTypeOK, Judged
<1>8. ASSUME NEW j \in Keys
      PROVE  /\ j \in entries' => TokensAt(j, clock)' + owed'[j] <= Full + late'[j]
             /\ j \notin entries' => owed'[j] <= late'[j]
  <2>1. CASE j = k
    <3>1. /\ credit'[j] = x /\ refilled'[j] = t /\ j \in entries'
          /\ owed'[j] = owed[j] + taken /\ late'[j] = late[j] + (clock - t)
      BY <1>0, <1>3, <1>4, <1>5, <2>1
    <3>2. TokensAt(j, clock)' \in Nat /\ TokensAt(j, clock)' <= x + (clock - t)
      BY <1>0, <1>1, <3>1 DEF TokensAt, Elapsed
    <3>3. Available(j, t) + owed[j] <= Full + late[j]
      BY <1>0, AvailableIsCovered
    <3>q. QED BY <1>0, <1>1, <2>1, <3>1, <3>2, <3>3
  <2>2. CASE j # k /\ j \in S
    <3>1. credit'[j] = credit[j] /\ refilled'[j] = refilled[j] /\ j \in entries
          /\ owed'[j] = owed[j] /\ late'[j] = late[j] /\ j \in entries'
      BY <1>0, <1>3, <1>4, <1>5, <2>2
    <3>2. TokensAt(j, clock)' = TokensAt(j, clock)
      BY <1>0, <3>1 DEF TokensAt, Elapsed
    <3>q. QED BY <1>0, <3>1, <3>2 DEF Budget
  <2>3. CASE j # k /\ j \notin S
    <3>1. owed'[j] = owed[j] /\ late'[j] = late[j] /\ j \notin entries'
      BY <1>0, <1>4, <1>5, <2>3
    <3>2. owed[j] <= late[j]
      <4>1. CASE j \in entries
        BY <1>0, <1>3, <2>3, <4>1, DroppedOwesNothing
      <4>2. CASE j \notin entries
        BY <1>0, <4>2 DEF Budget
      <4>q. QED BY <4>1, <4>2
    <3>q. QED BY <3>1, <3>2
  <2>q. QED BY <2>1, <2>2, <2>3
<1>9. Budget' BY <1>8, <1>0 DEF Budget
<1>10. TableFinite' BY <1>3, <1>4 DEF TableFinite, TableBounded
<1>q. QED BY <1>6, <1>7, <1>9, <1>10 DEF IInv

\* A call that finds no room leaves only what has not expired.
LEMMA NoRoomKeepsInvariant ==
  ASSUME IInv, NEW c \in Calls, NoRoom(c)
  PROVE  IInv'
<1> DEFINE k == asking[c]
           t == stamp[c]
<1>0. /\ LoginTypeOK /\ TimesPast /\ Budget
      /\ k \in Keys /\ t \in Nat /\ t <= clock /\ clock \in Nat /\ clock' = clock
      /\ owed' = owed /\ late \in [Keys -> Nat] /\ owed \in [Keys -> Nat]
      /\ late' = [late EXCEPT ![k] = @ + (clock - t)] /\ Kept(t) \subseteq entries
      /\ Full \in Nat
  BY FullHoldsToken DEF IInv, LoginTypeOK, TimesPast, Judged, NoRoom, Kept
<1>1. /\ entries' = Kept(t)
      /\ credit' = [j \in Keys |-> IF j \in Kept(t) THEN credit[j] ELSE 0]
      /\ refilled' = [j \in Keys |-> IF j \in Kept(t) THEN refilled[j] ELSE 0]
  BY DEF NoRoom, Keep
<1>2. LoginTypeOK'
  <2>1. credit' \in [Keys -> 0 .. Full] /\ refilled' \in [Keys -> Nat]
    BY <1>0, <1>1 DEF LoginTypeOK
  <2>2. late' \in [Keys -> Nat] BY <1>0
  <2>q. QED BY <1>0, <1>1, <2>1, <2>2 DEF LoginTypeOK, NoRoom, Judged
<1>3. TimesPast' BY <1>0, <1>1 DEF TimesPast, LoginTypeOK, NoRoom, Judged
<1>4. ASSUME NEW j \in Keys
      PROVE  /\ j \in entries' => TokensAt(j, clock)' + owed'[j] <= Full + late'[j]
             /\ j \notin entries' => owed'[j] <= late'[j]
  <2>1. late[j] \in Nat /\ late'[j] \in Nat /\ late[j] <= late'[j] /\ owed[j] \in Nat
    BY <1>0
  <2>2. CASE j \in Kept(t)
    <3>1. credit'[j] = credit[j] /\ refilled'[j] = refilled[j] /\ j \in entries
      BY <1>0, <1>1, <2>2
    <3>2. TokensAt(j, clock)' = TokensAt(j, clock) /\ TokensAt(j, clock) \in 0 .. Full
      BY <1>0, <3>1, TokensAreBounded DEF TokensAt, Elapsed
    <3>q. QED BY <1>0, <1>1, <2>1, <2>2, <3>1, <3>2 DEF Budget
  <2>3. CASE j \notin Kept(t)
    <3>1. owed[j] <= late[j]
      BY <1>0, <2>3, DroppedOwesNothing DEF Budget
    <3>q. QED BY <1>0, <1>1, <2>1, <2>3, <3>1
  <2>q. QED BY <2>2, <2>3
<1>5. Budget' BY <1>0, <1>4 DEF Budget
<1>6. TableFinite'
  <2>1. IsFiniteSet(entries) /\ Cardinality(entries) <= Capacity
    BY DEF IInv, TableFinite, TableBounded
  <2>2. /\ IsFiniteSet(Kept(t)) /\ Cardinality(Kept(t)) <= Cardinality(entries)
        /\ Cardinality(Kept(t)) \in Nat /\ Cardinality(entries) \in Nat
    BY <1>0, <2>1, FS_Subset, FS_CardinalityType
  <2>q. QED BY <1>1, <2>1, <2>2, PolicyAssumption DEF TableFinite, TableBounded
<1>q. QED BY <1>2, <1>3, <1>5, <1>6 DEF IInv

\* Time only lets buckets fill and debts shrink.
LEMMA TickKeepsInvariant ==
  ASSUME IInv, Tick
  PROVE  IInv'
<1>0. /\ LoginTypeOK /\ TimesPast /\ Budget /\ clock \in Nat /\ clock' = clock + 1
      /\ owed \in [Keys -> Nat] /\ late \in [Keys -> Nat] /\ Full \in Nat
      /\ entries' = entries /\ credit' = credit /\ refilled' = refilled
      /\ owed' = [k \in Keys |-> IF owed[k] > 0 THEN owed[k] - 1 ELSE 0]
      /\ late' = [k \in Keys |-> IF owed[k] > 1 THEN late[k] ELSE 0]
  BY FullHoldsToken DEF IInv, LoginTypeOK, Tick, tableVars
<1>1. LoginTypeOK'
  <2>1. owed' \in [Keys -> Nat] /\ late' \in [Keys -> Nat] BY <1>0
  <2>q. QED BY <1>0, <2>1 DEF LoginTypeOK, Tick
<1>2. TimesPast' BY <1>0 DEF TimesPast, LoginTypeOK, Tick
<1>3. ASSUME NEW k \in Keys
      PROVE  /\ k \in entries' => TokensAt(k, clock)' + owed'[k] <= Full + late'[k]
             /\ k \notin entries' => owed'[k] <= late'[k]
  <2>1. /\ TokensAt(k, clock) \in 0 .. Full /\ TokensAt(k, clock)' \in 0 .. Full
        /\ TokensAt(k, clock)' <= TokensAt(k, clock) + 1
    BY <1>0 DEF LoginTypeOK, TokensAt, Elapsed, TimesPast
  <2>2. /\ owed[k] \in Nat /\ late[k] \in Nat
        /\ owed'[k] = IF owed[k] > 0 THEN owed[k] - 1 ELSE 0
        /\ late'[k] = IF owed[k] > 1 THEN late[k] ELSE 0
    BY <1>0
  <2>3. /\ k \in entries => TokensAt(k, clock) + owed[k] <= Full + late[k]
        /\ k \notin entries => owed[k] <= late[k]
    BY <1>0 DEF Budget
  <2>q. QED BY <1>0, <2>1, <2>2, <2>3
<1>4. Budget' BY <1>0, <1>3 DEF Budget
<1>5. TableFinite' BY <1>0 DEF IInv, TableFinite, TableBounded
<1>q. QED BY <1>1, <1>2, <1>4, <1>5 DEF IInv

LEMMA InitEstablishesInvariant == Init => IInv
<1> SUFFICES ASSUME Init PROVE IInv
  OBVIOUS
<1>1. LoginTypeOK BY FullHoldsToken DEF Init, LoginTypeOK
<1>2. TimesPast BY DEF Init, TimesPast
<1>3. Budget BY DEF Init, Budget
<1>4. TableFinite BY FS_EmptySet, PolicyAssumption DEF Init, TableFinite, TableBounded
<1>q. QED BY <1>1, <1>2, <1>3, <1>4 DEF IInv

LEMMA NextKeepsInvariant == IInv /\ [Next]_vars => IInv'
<1> SUFFICES ASSUME IInv, [Next]_vars PROVE IInv'
  OBVIOUS
<1> USE DEF IInv
<1>1. CASE UNCHANGED vars
  BY <1>1 DEF vars, tableVars, seenVars, LoginTypeOK, TimesPast, Budget, TableFinite,
              TableBounded, TokensAt, Elapsed
<1>2. ASSUME NEW c \in Calls, NEW k \in Keys, Ask(c, k) PROVE IInv'
  <2>1. LoginTypeOK' BY <1>2 DEF Ask, LoginTypeOK, tableVars, seenVars
  <2>2. TimesPast' BY <1>2 DEF Ask, LoginTypeOK, TimesPast, tableVars
  <2>3. Budget' /\ TableFinite'
    BY <1>2 DEF Ask, Budget, TableFinite, TableBounded, TokensAt, Elapsed,
                tableVars, seenVars
  <2>q. QED BY <2>1, <2>2, <2>3
<1>3. ASSUME NEW c \in Calls, Admit(c) PROVE IInv'
  <2>1. Refill \in Nat /\ Refill <= Available(asking[c], stamp[c])
    BY <1>3, FullHoldsToken DEF Admit, Affords
  <2>q. QED BY <1>3, <2>1, LeavingKeepsInvariant DEF Admit
<1>4. ASSUME NEW c \in Calls, Deny(c) PROVE IInv'
  <2>1. asking[c] \in Keys /\ stamp[c] \in Nat
    BY <1>4 DEF Deny, Judged, LoginTypeOK
  <2>2. Available(asking[c], stamp[c]) \in 0 .. Full
    BY <2>1, AvailableIsBounded
  <2>3. /\ Available(asking[c], stamp[c]) - 0 = Available(asking[c], stamp[c])
        /\ 0 <= Available(asking[c], stamp[c])
    BY <2>2, FullHoldsToken
  <2>4. owed' = [owed EXCEPT ![asking[c]] = @ + 0]
    BY <1>4, <2>1 DEF Deny, LoginTypeOK
  <2>5. Judged(c) /\ LeftWith(c, Available(asking[c], stamp[c]) - 0)
    BY <1>4, <2>3 DEF Deny
  <2>q. QED BY <2>3, <2>4, <2>5, LeavingKeepsInvariant
<1>5. ASSUME NEW c \in Calls, NoRoom(c) PROVE IInv'
  BY <1>5, NoRoomKeepsInvariant
<1>6. CASE Tick
  BY <1>6, TickKeepsInvariant
<1>q. QED BY <1>1, <1>2, <1>3, <1>4, <1>5, <1>6 DEF Next

\* The invariant holds throughout (check_at and everything it calls).
THEOREM Invariance == Spec => []IInv
BY InitEstablishesInvariant, NextKeepsInvariant, PTL DEF Spec

-----------------------------------------------------------------------------
(***************************************************************************)
(* The promises.                                                           *)
(***************************************************************************)

\* Every reachable state is well typed: no bucket overflows or goes below zero.
THEOREM TypeCorrect == Spec => []LoginTypeOK
<1>1. IInv => LoginTypeOK BY DEF IInv
<1>q. QED BY <1>1, Invariance, PTL

\* No key gets more than its burst, the time that has passed and the waits of
\* its own calls allow, whatever is evicted or forgotten.
THEOREM RateIsHeld == Spec => []RateHolds
<1>1. IInv => RateHolds
  <2> SUFFICES ASSUME IInv, NEW k \in Keys PROVE owed[k] <= Full + late[k]
    BY DEF RateHolds
  <2>1. LoginTypeOK /\ Budget /\ clock \in Nat /\ owed[k] \in Nat /\ late[k] \in Nat
    BY DEF IInv, LoginTypeOK
  <2>2. TokensAt(k, clock) \in 0 .. Full /\ Full \in Nat
    BY <2>1, TokensAreBounded, FullHoldsToken
  <2>q. QED BY <2>1, <2>2 DEF Budget
<1>q. QED BY <1>1, Invariance, PTL

\* The table never exceeds its capacity, whoever asks.
THEOREM TableIsBounded == Spec => []TableBounded
<1>1. IInv => TableBounded BY DEF IInv, TableFinite
<1>q. QED BY <1>1, Invariance, PTL

-----------------------------------------------------------------------------
(***************************************************************************)
(* Denials.                                                                *)
(***************************************************************************)

\* Once an entry has expired the map has room.
LEMMA ExpiredLeavesRoom ==
  ASSUME IInv, NEW e \in entries, NEW t \in Nat, e \notin Kept(t)
  PROVE  HasRoom(Kept(t))
<1>1. /\ IsFiniteSet(entries) /\ Cardinality(entries) <= Capacity
      /\ Kept(t) \in SUBSET entries /\ Kept(t) # entries /\ Capacity \in Nat
  BY PolicyAssumption DEF IInv, TableFinite, TableBounded, Kept
<1>2. /\ Cardinality(Kept(t)) <= Cardinality(entries)
      /\ Cardinality(Kept(t)) # Cardinality(entries)
      /\ Cardinality(Kept(t)) \in Nat /\ Cardinality(entries) \in Nat
  BY <1>1, FS_Subset, FS_CardinalityType
<1>q. QED BY <1>1, <1>2 DEF HasRoom

\* Of the full buckets one was used longest ago.
LEMMA FullIsEvictable ==
  ASSUME LoginTypeOK, NEW t \in Nat, Replenished(t) # {}
  PROVE  Evictable(t) # {}
<1> DEFINE Times == {refilled[k] : k \in Replenished(t)}
<1>1. Replenished(t) \subseteq Keys BY DEF LoginTypeOK, Replenished, Kept
<1>2. Times \subseteq Nat /\ Times # {} BY <1>1 DEF LoginTypeOK
<1>3. PICK x \in Times : \A y \in Times : x <= y BY <1>2, LeastNumber
<1>4. PICK k \in Replenished(t) : x = refilled[k] BY <1>3
<1>q. QED BY <1>3, <1>4 DEF Evictable

\* A key without an entry passes as soon as one entry can be spared.
SparedRule == \A k \in Keys, t \in Nat :
  /\ k \notin entries
  /\ \E e \in entries : e \notin Kept(t) \/ TokensAt(e, t) = Full
  => Passes(k, t)

LEMMA SparedLetsIn == IInv => SparedRule
<1> SUFFICES ASSUME IInv, NEW k \in Keys, NEW t \in Nat, k \notin entries,
                    NEW e \in entries, e \notin Kept(t) \/ TokensAt(e, t) = Full
             PROVE  Passes(k, t)
  BY DEF SparedRule
<1>0. LoginTypeOK BY DEF IInv
<1>1. k \notin Kept(t) BY DEF Kept
<1>2. Affords(Available(k, t))
  BY <1>1, FullHoldsToken DEF Available, Affords
<1>3. CASE HasRoom(Kept(t))
  BY <1>1, <1>2, <1>3 DEF Passes, Tables
<1>4. CASE ~HasRoom(Kept(t))
  <2>1. e \in Kept(t) BY <1>4, ExpiredLeavesRoom
  <2>2. e \in Replenished(t) BY <2>1 DEF Replenished
  <2>3. Evictable(t) # {} BY <1>0, <2>2, FullIsEvictable
  <2>q. QED BY <1>1, <1>2, <1>4, <2>3 DEF Passes, Tables
<1>q. QED BY <1>3, <1>4

\* A key with an entry passes once its bucket has a token.
RefilledRule == \A k \in Keys, t \in Nat :
  k \in entries /\ Refill <= credit[k] + Elapsed(k, t) => Passes(k, t)

LEMMA RefilledLetsIn == IInv => RefilledRule
<1> SUFFICES ASSUME IInv, NEW k \in Keys, NEW t \in Nat, k \in entries,
                    Refill <= credit[k] + Elapsed(k, t)
             PROVE  Passes(k, t)
  BY DEF RefilledRule
<1>0. LoginTypeOK BY DEF IInv
<1>1. CASE k \in Kept(t)
  <2>1. Refill <= TokensAt(k, t)
    BY <1>0, TokensAreBounded, FullHoldsToken
  <2>q. QED BY <1>1, <2>1 DEF Passes, Tables, Available, Affords
<1>2. CASE k \notin Kept(t)
  <2>1. HasRoom(Kept(t)) BY <1>2, ExpiredLeavesRoom
  <2>q. QED BY <1>2, <2>1, FullHoldsToken DEF Passes, Tables, Available, Affords
<1>q. QED BY <1>1, <1>2

\* When no entry makes room, the delay is that of one of them.
LEMMA RoomInIsADelay ==
  ASSUME IInv, NEW k \in Keys, NEW t \in Nat, Tables(k, t) = {}
  PROVE  \E e \in Kept(t) : RoomIn(t) = UntilSpared(e, t)
<1> DEFINE Delays == {UntilSpared(e, t) : e \in Kept(t)}
<1>0. LoginTypeOK /\ TTL \in Nat BY PolicyAssumption DEF IInv
<1>1. Kept(t) \subseteq Keys BY <1>0 DEF LoginTypeOK, Kept
<1>2. Kept(t) # {}
  <2>1. ~HasRoom(Kept(t)) BY DEF Tables
  <2>q. QED BY <2>1, FS_EmptySet, PolicyAssumption DEF HasRoom
<1>3. ASSUME NEW e \in Kept(t) PROVE UntilSpared(e, t) \in Nat
  <2>1. TokensAt(e, t) \in 0 .. Full /\ Elapsed(e, t) \in Nat /\ Full \in Nat
    BY <1>0, <1>1, <1>3, TokensAreBounded, ElapsedIsTime, FullHoldsToken
  <2>2. Elapsed(e, t) < TTL BY <1>3 DEF Kept
  <2>q. QED BY <1>0, <2>1, <2>2 DEF UntilSpared
<1>4. Delays \subseteq Nat /\ Delays # {} BY <1>2, <1>3
<1>5. \E d \in Delays : \A y \in Delays : d <= y BY <1>4, LeastNumber
<1>6. \E d \in Delays : \A e \in Kept(t) : d <= UntilSpared(e, t) BY <1>5
<1>7. RoomIn(t) \in Delays BY <1>6 DEF RoomIn
<1>q. QED BY <1>7

\* A delay is a time.
LEMMA DelayIsTime ==
  ASSUME IInv, NEW k \in Keys, NEW t \in Nat,
         Tables(k, t) = {} \/ ~Affords(Available(k, t))
  PROVE  Delay(k, t) \in Nat
<1>0. LoginTypeOK /\ TTL \in Nat /\ Full \in Nat /\ Refill \in Nat
  BY FullHoldsToken, PolicyAssumption DEF IInv
<1>1. CASE Tables(k, t) = {}
  <2>1. PICK e \in Kept(t) : Delay(k, t) = UntilSpared(e, t)
    BY <1>1, RoomInIsADelay DEF Delay
  <2>2. TokensAt(e, t) \in 0 .. Full /\ Elapsed(e, t) \in Nat /\ Elapsed(e, t) < TTL
    BY <1>0, TokensAreBounded, ElapsedIsTime DEF LoginTypeOK, Kept
  <2>q. QED BY <1>0, <2>1, <2>2 DEF UntilSpared
<1>2. CASE Tables(k, t) # {} /\ ~Affords(Available(k, t))
  BY <1>0, <1>2, AvailableIsBounded DEF Delay, Affords
<1>q. QED BY <1>1, <1>2

\* Both rules hold after a step as before it.
LEMMA RulesHoldNext == (IInv => SparedRule /\ RefilledRule)'
BY SparedLetsIn, RefilledLetsIn, PTL

\* A client turned away from an empty bucket comes back to a token.
LEMMA DenyIsHonest ==
  ASSUME IInv, IInv', NEW c \in Calls, Deny(c),
         NEW t \in Nat, clock + Delay(asking[c], stamp[c]) <= t,
         NEW k \in Keys, k = asking[c]
  PROVE  Passes(k, t)'
<1> DEFINE s == stamp[c]
<1>0. /\ LoginTypeOK /\ s \in Nat /\ s <= clock /\ clock \in Nat
      /\ Full \in Nat /\ Refill \in Nat /\ Refill <= Full
  BY FullHoldsToken DEF IInv, LoginTypeOK, TimesPast
<1>1. Available(k, s) \in 0 .. Full /\ Available(k, s) < Refill
  BY <1>0, AvailableIsBounded DEF Deny, Affords
<1>2. k \in Kept(s) BY <1>0, <1>1 DEF Available
<1>3. Tables(k, s) = {Kept(s)} BY <1>2 DEF Tables
<1>4. Delay(k, s) = Refill - Available(k, s) BY <1>3 DEF Delay
<1>5. Keep(Kept(s), [credit EXCEPT ![k] = Available(k, s)], [refilled EXCEPT ![k] = s])
  BY <1>3 DEF Deny, LeftWith
<1>6. k \in entries' /\ credit'[k] = Available(k, s) /\ refilled'[k] = s
  BY <1>0, <1>2, <1>5 DEF Keep, LoginTypeOK
<1>7. Refill <= credit'[k] + Elapsed(k, t)'
  BY <1>0, <1>1, <1>4, <1>6 DEF Elapsed
<1>q. QED BY <1>6, <1>7, RulesHoldNext DEF RefilledRule

\* A client turned away from a full table comes back to one with room.
LEMMA NoRoomIsHonest ==
  ASSUME IInv, IInv', NEW c \in Calls, NoRoom(c),
         NEW t \in Nat, clock + Delay(asking[c], stamp[c]) <= t,
         NEW k \in Keys, k = asking[c]
  PROVE  Passes(k, t)'
<1> DEFINE s == stamp[c]
<1>0. /\ LoginTypeOK /\ TimesPast /\ s \in Nat /\ s <= clock /\ clock \in Nat
      /\ Full \in Nat /\ TTL \in Nat
  BY FullHoldsToken, PolicyAssumption DEF IInv, LoginTypeOK, TimesPast
<1>1. Tables(k, s) = {} BY DEF NoRoom
<1>2. PICK e \in Kept(s) : RoomIn(s) = UntilSpared(e, s)
  BY <1>0, <1>1, RoomInIsADelay
<1>3. Delay(k, s) = UntilSpared(e, s) BY <1>1, <1>2 DEF Delay
<1>4. k \notin Kept(s) BY <1>1 DEF Tables
<1>5. e \in Keys BY <1>0 DEF LoginTypeOK, Kept
<1>6. /\ k \notin entries' /\ e \in entries' /\ entries' = Kept(s)
      /\ credit'[e] = credit[e] /\ refilled'[e] = refilled[e]
  BY <1>4, <1>5 DEF NoRoom, Keep
<1>7. /\ refilled[e] \in Nat /\ refilled[e] <= clock /\ credit[e] \in 0 .. Full
  BY <1>0, <1>5 DEF LoginTypeOK, TimesPast
<1>8. e \notin Kept(t)' \/ TokensAt(e, t)' = Full
  <2>1. CASE Delay(k, s) = TTL - Elapsed(e, s)
    <3>1. TTL <= Elapsed(e, t)'
      BY <1>0, <1>6, <1>7, <2>1 DEF Elapsed
    <3>2. Elapsed(e, t)' \in Nat BY <1>6, <1>7 DEF Elapsed
    <3>q. QED BY <1>0, <3>1, <3>2 DEF Kept
  <2>2. CASE Delay(k, s) = Full - TokensAt(e, s)
    BY <1>0, <1>6, <1>7, <2>2 DEF TokensAt, Elapsed
  <2>q. QED BY <1>3, <2>1, <2>2 DEF UntilSpared
<1>q. QED BY <1>6, <1>8, RulesHoldNext DEF SparedRule

\* A step that answers a call without a token is one of the two denials.
LEMMA TurnedDownIsDenied ==
  ASSUME IInv, Next, NEW c \in Calls, TurnedDown(c)
  PROVE  Deny(c) \/ NoRoom(c)
<1>0. LoginTypeOK /\ Refill \in Nat /\ 0 < Refill BY FullHoldsToken DEF IInv
<1>1. ASSUME NEW d \in Calls, NEW k \in Keys, Ask(d, k) PROVE FALSE
  BY <1>0, <1>1, PolicyAssumption DEF Ask, TurnedDown, LoginTypeOK
<1>2. ASSUME NEW d \in Calls, Admit(d) PROVE FALSE
  BY <1>0, <1>2 DEF Admit, Judged, TurnedDown, LoginTypeOK
<1>3. ASSUME NEW d \in Calls, Deny(d) \/ NoRoom(d) PROVE d = c
  BY <1>0, <1>3 DEF Deny, NoRoom, Judged, TurnedDown, LoginTypeOK
<1>4. CASE Tick BY <1>4 DEF Tick, TurnedDown
<1>q. QED BY <1>1, <1>2, <1>3, <1>4 DEF Next

\* Whoever is turned down may come back when told to: the delay is long enough
\* for a token or for room, even when it was computed for a time already past.
THEOREM DenialsAreHonest == Spec => RetryIsEnough
<1>1. ASSUME IInv, IInv', [Next]_vars, NEW c \in Calls, NEW k \in Keys,
             TurnedDown(c), asking[c] = k,
             NEW t \in clock + Delay(k, stamp[c]) .. clock + TTL
      PROVE  Passes(k, t)'
  <2>1. Next BY <1>1 DEF TurnedDown, vars
  <2>2. Deny(c) \/ NoRoom(c) BY <1>1, <2>1, TurnedDownIsDenied
  <2>3. t \in Nat /\ clock + Delay(asking[c], stamp[c]) <= t
    <3>1. clock \in Nat /\ TTL \in Nat /\ stamp[c] \in Nat
      BY <1>1, PolicyAssumption DEF IInv, LoginTypeOK
    <3>2. Tables(k, stamp[c]) = {} \/ ~Affords(Available(k, stamp[c]))
      BY <1>1, <2>2 DEF Deny, NoRoom
    <3>3. Delay(k, stamp[c]) \in Nat BY <1>1, <3>1, <3>2, DelayIsTime
    <3>q. QED BY <1>1, <3>1, <3>3
  <2>q. QED BY <1>1, <2>2, <2>3, DenyIsHonest, NoRoomIsHonest
<1>2. IInv /\ IInv' /\ [Next]_vars =>
        [\A c \in Calls, k \in Keys : TurnedDown(c) /\ asking[c] = k =>
           \A t \in clock + Delay(k, stamp[c]) .. clock + TTL : Passes(k, t)']_vars
  BY <1>1
<1>q. QED BY <1>2, Invariance, PTL DEF RetryIsEnough, Spec
=============================================================================
