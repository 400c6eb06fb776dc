---------------------------- MODULE LoginAdmission ----------------------------
(***************************************************************************)
(* The token buckets of login_admission.rs that bootstrap asks before it   *)
(* looks a code up: one table of them keyed by source address and one      *)
(* keyed by the code's hash, both instances of this module.                *)
(*                                                                         *)
(* Time is counted in ticks and tokens in the ticks it takes to earn them, *)
(* so one token is Refill.  A call reads the clock before it takes the     *)
(* mutex of the table, so calls may be judged in another order than the    *)
(* one of their times, and later.                                          *)
(***************************************************************************)
EXTENDS Naturals, FiniteSets

CONSTANTS
  Keys,      \* source addresses, or hashes of codes
  Calls,     \* requests that ask at the same time
  Burst,     \* BucketPolicy.burst: tokens of a full bucket
  Refill,    \* BucketPolicy.refill_interval: ticks per token
  Capacity,  \* entries of the table
  TTL,       \* entry_ttl: ticks an entry outlives its last call
  MaxClock,  \* bound: ticks of a behavior
  MaxWait,   \* bound: ticks a call waits for the mutex
  NoKey      \* a call that asks nothing

Full == Burst * Refill

\* BucketPolicy::new and BoundedBuckets::new assert that none is zero.
ASSUME PolicyAssumption ==
  /\ Burst \in Nat \ {0} /\ Refill \in Nat \ {0}
  /\ Capacity \in Nat \ {0} /\ TTL \in Nat \ {0}
  /\ MaxClock \in Nat /\ MaxWait \in Nat /\ NoKey \notin Keys
\* With the constants of the program 16 s and 120 s against 15 minutes.
ASSUME TTLAssumption == Full <= TTL

VARIABLES
  \* --- the table ---
  entries,  \* keys of the map
  credit,   \* tokens of an entry at ...
  refilled, \* ... last_refill, which last_seen always equals
  \* --- time and calls ---
  clock,    \* Instant::now()
  asking,   \* key a call asks for, until it is judged
  stamp,    \* the time it read
  \* --- observations ---
  owed,     \* what a bucket never forgotten would lack of being full
  late      \* time calls of a key waited for the mutex since it last owed nothing

tableVars == <<entries, credit, refilled>>
seenVars  == <<owed, late>>
vars == <<tableVars, clock, asking, stamp, seenVars>>

-----------------------------------------------------------------------------
\* saturating_duration_since: a clock that was read earlier has not gone back.
Elapsed(k, t) == IF t > refilled[k] THEN t - refilled[k] ELSE 0

\* tokens_at
TokensAt(k, t) ==
  IF credit[k] + Elapsed(k, t) < Full THEN credit[k] + Elapsed(k, t) ELSE Full

\* What prune_expired keeps.
Kept(t) == {k \in entries : Elapsed(k, t) < TTL}

Replenished(t) == {k \in Kept(t) : TokensAt(k, t) = Full}

\* Mutant: any entry may make room.
EvictOldest(t) ==
  {k \in Kept(t) : \A j \in Kept(t) : refilled[k] <= refilled[j]}
\* What make_room may evict: a full bucket nobody asked for longer.
Evictable(t) ==
  {k \in Replenished(t) : \A j \in Replenished(t) : refilled[k] <= refilled[j]}

\* Mutant: the capacity is checked after the entry is counted.
HasRoomInclusive(S) == Cardinality(S) <= Capacity
HasRoom(S) == Cardinality(S) < Capacity

\* The keys the map may have once check_at has found an entry for k; none if
\* make_room fails.
Tables(k, t) ==
  IF k \in Kept(t) THEN {Kept(t)}
  ELSE IF HasRoom(Kept(t)) THEN {Kept(t) \cup {k}}
  ELSE {(Kept(t) \ {e}) \cup {k} : e \in Evictable(t)}

\* What the entry for k has once it is refilled; a new one is full.
Available(k, t) == IF k \in Kept(t) THEN TokensAt(k, t) ELSE Full

\* Mutant: part of a token will do.
AffordsPart(tokens) == tokens > 0
\* check_at finds a token.
Affords(tokens) == tokens >= Refill

\* A call for k at time t is let through.
Passes(k, t) == Tables(k, t) # {} /\ Affords(Available(k, t))

\* Mutant: an entry with a token is taken for a full one.
UntilToken(k, t) ==
  IF TokensAt(k, t) < Refill THEN Refill - TokensAt(k, t) ELSE 1
\* When an entry can be spared: it is full, or it has expired.
UntilSpared(k, t) ==
  IF Full - TokensAt(k, t) < TTL - Elapsed(k, t)
  THEN Full - TokensAt(k, t) ELSE TTL - Elapsed(k, t)

\* The delay make_room returns: the first entry to be spared.
RoomIn(t) ==
  CHOOSE d \in {UntilSpared(k, t) : k \in Kept(t)} :
    \A k \in Kept(t) : d <= UntilSpared(k, t)

\* The delay a call for k at time t is turned down with.
Delay(k, t) == IF Tables(k, t) = {} THEN RoomIn(t) ELSE Refill - Available(k, t)

-----------------------------------------------------------------------------
Init ==
  /\ entries = {}
  /\ credit = [k \in Keys |-> 0] /\ refilled = [k \in Keys |-> 0]
  /\ clock = 0
  /\ asking = [c \in Calls |-> NoKey] /\ stamp = [c \in Calls |-> 0]
  /\ owed = [k \in Keys |-> 0] /\ late = [k \in Keys |-> 0]

\* check_source and check_account read the clock before they lock the table.
Ask(c, k) ==
  /\ asking[c] = NoKey
  /\ asking' = [asking EXCEPT ![c] = k]
  /\ stamp' = [stamp EXCEPT ![c] = clock]
  /\ UNCHANGED <<tableVars, clock, seenVars>>

\* The call has been judged.
Judged(c) ==
  /\ asking[c] # NoKey
  /\ asking' = [asking EXCEPT ![c] = NoKey]
  /\ late' = [late EXCEPT ![asking[c]] = @ + (clock - stamp[c])]
  /\ stamp' = [stamp EXCEPT ![c] = 0]
  /\ UNCHANGED clock

\* The map keeps the keys of S; nothing is remembered of the others.
Keep(S, tokens, times) ==
  /\ entries' = S
  /\ credit' = [k \in Keys |-> IF k \in S THEN tokens[k] ELSE 0]
  /\ refilled' = [k \in Keys |-> IF k \in S THEN times[k] ELSE 0]

\* The entry of the call is found or made, refilled and left with tokens.
LeftWith(c, tokens) ==
  \E S \in Tables(asking[c], stamp[c]) :
    Keep(S, [credit EXCEPT ![asking[c]] = tokens],
            [refilled EXCEPT ![asking[c]] = stamp[c]])

\* The call takes a token.
Admit(c) ==
  /\ Judged(c)
  /\ Affords(Available(asking[c], stamp[c]))
  /\ LeftWith(c, Available(asking[c], stamp[c]) - Refill)
  /\ owed' = [owed EXCEPT ![asking[c]] = @ + Refill]

\* There is less than a token; the entry is refilled all the same.
Deny(c) ==
  /\ Judged(c)
  /\ ~Affords(Available(asking[c], stamp[c]))
  /\ LeftWith(c, Available(asking[c], stamp[c]))
  /\ UNCHANGED owed

\* make_room fails; what has expired is gone all the same.
NoRoom(c) ==
  /\ Judged(c)
  /\ Tables(asking[c], stamp[c]) = {}
  /\ Keep(Kept(stamp[c]), credit, refilled)
  /\ UNCHANGED owed

Tick ==
  /\ clock < MaxClock
  /\ \A c \in Calls : asking[c] # NoKey => clock < stamp[c] + MaxWait
  /\ clock' = clock + 1
  /\ owed' = [k \in Keys |-> IF owed[k] > 0 THEN owed[k] - 1 ELSE 0]
  /\ late' = [k \in Keys |-> IF owed[k] > 1 THEN late[k] ELSE 0]
  /\ UNCHANGED <<tableVars, asking, stamp>>

Next ==
  \/ \E c \in Calls, k \in Keys : Ask(c, k)
  \/ \E c \in Calls : Admit(c) \/ Deny(c) \/ NoRoom(c)
  \/ Tick

Spec == Init /\ [][Next]_vars

-----------------------------------------------------------------------------
\* Every variable has its type.
LoginTypeOK ==
  /\ entries \subseteq Keys
  /\ credit \in [Keys -> 0 .. Full] /\ refilled \in [Keys -> Nat]
  /\ clock \in Nat
  /\ asking \in [Calls -> Keys \cup {NoKey}] /\ stamp \in [Calls -> Nat]
  /\ owed \in [Keys -> Nat] /\ late \in [Keys -> Nat]

\* No key is let through more often than its burst and the time that has passed
\* allow, although its bucket is dropped at expiry and evicted for others
\* (prune_expired, make_room).  What calls may gain beyond that is the time they
\* waited for the lock with a clock already read: then last_refill goes back and
\* the same time is credited twice.
RateHolds == \A k \in Keys : owed[k] <= Full + late[k]

\* However many keys ask, the table stays within its capacity (make_room).
TableBounded == Cardinality(entries) <= Capacity

\* A call that is turned down is told the truth: if nobody else asks, its client
\* is let through once the delay has passed, whether its bucket was empty or the
\* table full of others, and however stale the time it was judged by (the errors
\* of check_at and make_room).
TurnedDown(c) == asking[c] # NoKey /\ asking'[c] = NoKey /\ owed' = owed
RetryIsEnough ==
  [][\A c \in Calls, k \in Keys : TurnedDown(c) /\ asking[c] = k =>
       \A t \in clock + Delay(k, stamp[c]) .. clock + TTL : Passes(k, t)']_vars
=============================================================================
