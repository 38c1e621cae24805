---------------------------- MODULE RateLimitProofs ----------------------------
(***************************************************************************)
(* The two halves of RedisRateLimiter.  For any requests, limit and window *)
(* and for any attempts, threshold and delays, with and without outages:   *)
(* how many requests FixedWindow lets through; who may lack the expiry of  *)
(* the failure counter of LoginBackoff, and who may undo a block.          *)
(***************************************************************************)
EXTENDS FixedWindow, LoginBackoff, FiniteSetTheorems, TLAPS

------------------------------------------------------------------------------
(* FixedWindow *)

\* The requests that took one of the Limit places of an incarnation.
Taken(g) == {r \in Requests : key[r] = g /\ stage[r] \in {"first", "admitted", "unexpired"}}

\* Whoever has counted has counted in an incarnation there was, and the request
\* that is to set the expiry finds the counter it created still without one.
KeyPart(r) ==
    /\ key[r] <= keys
    /\ key[r] = 0 <=> stage[r] = "idle"
    /\ stage[r] = "first" => key[r] = keys /\ hits > 0 /\ left = NoExpiry

FirstPart == \A r, s \in Requests : stage[r] = "first" /\ stage[s] = "first" => r = s

\* The counter says how many places of its incarnation are taken, until there
\* are none left.
CountPart ==
    /\ hits = 0 => left = NoExpiry
    /\ hits > 0 => keys > 0 /\ Cardinality(Taken(keys)) = IF hits < Limit THEN hits ELSE Limit

LimitPart == \A g \in 1..keys : Cardinality(Taken(g)) <= Limit

\* Whoever was let through by an earlier incarnation will be a window old when
\* the present one ends, and is by the time the next one begins.
AgePart(r) ==
    stage[r] = "admitted" =>
        /\ key[r] < keys /\ left # NoExpiry => age[r] + left >= Period
        /\ key[r] < keys /\ hits = 0 => age[r] = Period
        /\ key[r] + 1 < keys => age[r] = Period

WindowInv == /\ FWTypeOK
             /\ \A r \in Requests : KeyPart(r) /\ AgePart(r)
             /\ FirstPart /\ CountPart /\ LimitPart /\ RefusedOverLimit

------------------------------------------------------------------------------
\* What is counted are requests, of which there are finitely many.
LEMMA RequestSets ==
    ASSUME NEW S \in SUBSET Requests
    PROVE  IsFiniteSet(S) /\ Cardinality(S) \in Nat
BY FWAssumption, FS_Subset, FS_CardinalityType

\* A set of requests is no larger than one that contains it.
LEMMA SmallerSet ==
    ASSUME NEW S \in SUBSET Requests, NEW T \in SUBSET S
    PROVE  Cardinality(T) <= Cardinality(S)
BY RequestSets, FS_Subset

\* The limit over what was let through is the limit over what was admitted.
LEMMA LimitFollows == WindowInv => LimitPerWindow
<1> SUFFICES ASSUME WindowInv, NEW g \in 1..keys
             PROVE  Cardinality({r \in Requests : key[r] = g /\ stage[r] = "admitted"}) <= Limit
  BY DEF LimitPerWindow
<1> DEFINE S == {r \in Requests : key[r] = g /\ stage[r] = "admitted"}
<1>1. S \in SUBSET Taken(g) /\ Taken(g) \in SUBSET Requests
  BY DEF Taken
<1>2. Cardinality(S) <= Cardinality(Taken(g))
  BY <1>1, SmallerSet
<1>3. Cardinality(Taken(g)) <= Limit
  BY DEF WindowInv, LimitPart
<1>4. Cardinality(S) \in Nat /\ Cardinality(Taken(g)) \in Nat
  BY <1>1, RequestSets
<1>5. QED
  BY <1>2, <1>3, <1>4, FWAssumption

\* Whoever was let through less than a window ago counted in the present
\* incarnation or in the one before it.
LEMMA BurstFollows == WindowInv => BurstBounded
<1> SUFFICES ASSUME WindowInv PROVE BurstBounded
  OBVIOUS
<1> USE FWAssumption DEF WindowInv, FWTypeOK
<1> DEFINE S == {r \in Requests : stage[r] = "admitted" /\ age[r] < Period}
           A == Taken(keys)
           B == Taken(keys - 1)
<1>1. S \in SUBSET (A \cup B)
  <2> SUFFICES ASSUME NEW r \in Requests, stage[r] = "admitted", age[r] < Period
               PROVE  r \in A \cup B
    OBVIOUS
  <2>1. key[r] <= keys /\ ~(key[r] + 1 < keys)
    BY DEF KeyPart, AgePart
  <2>2. key[r] = keys \/ key[r] = keys - 1
    BY <2>1
  <2>3. QED
    BY <2>2 DEF Taken
<1>2. A \in SUBSET Requests /\ B \in SUBSET Requests
  BY DEF Taken
<1>3. Cardinality(A) <= Limit
  <2>1. CASE keys = 0
    <3>1. A = {}
      BY <2>1 DEF Taken, KeyPart
    <3>2. QED
      BY <3>1, FS_EmptySet
  <2>2. CASE keys # 0
    BY <2>2 DEF LimitPart
  <2>3. QED
    BY <2>1, <2>2
<1>4. Cardinality(B) <= Limit
  <2>1. CASE keys - 1 \notin 1..keys
    <3>1. B = {}
      BY <2>1 DEF Taken, KeyPart
    <3>2. QED
      BY <3>1, FS_EmptySet
  <2>2. CASE keys - 1 \in 1..keys
    BY <2>2 DEF LimitPart
  <2>3. QED
    BY <2>1, <2>2
<1>5. Cardinality(A \cup B) <= 2 * Limit
  <2>1. /\ Cardinality(A \cup B) = Cardinality(A) + Cardinality(B) - Cardinality(A \cap B)
        /\ Cardinality(A \cap B) \in Nat
    BY <1>2, RequestSets, FS_Union
  <2>2. Cardinality(A) \in Nat /\ Cardinality(B) \in Nat
    BY <1>2, RequestSets
  <2>3. QED
    BY <1>3, <1>4, <2>1, <2>2
<1>6. Cardinality(S) <= Cardinality(A \cup B)
  BY <1>1, <1>2, SmallerSet
<1>7. Cardinality(S) \in Nat /\ Cardinality(A \cup B) \in Nat
  BY <1>1, <1>2, RequestSets
<1>8. QED
  BY <1>5, <1>6, <1>7 DEF BurstBounded

\* Before the first request there is no counter.
LEMMA WindowInit == FWInit => WindowInv
BY FWAssumption
DEF FWInit, WindowInv, FWTypeOK, KeyPart, AgePart, FirstPart, CountPart, LimitPart, NoExpiry,
    RefusedOverLimit

\* A second brings every age and the end of the counter closer.
LEMMA SecondStep == ASSUME WindowInv, Second PROVE WindowInv'
<1> USE FWAssumption DEF WindowInv, FWTypeOK, Second, NoExpiry
<1>1. FWTypeOK'
  OBVIOUS
<1>2. \A r \in Requests : KeyPart(r)' /\ AgePart(r)'
  <2> TAKE r \in Requests
  <2> USE DEF KeyPart
  <2>1. KeyPart(r)'
    BY DEF CountPart
  <2>2. AgePart(r)'
    BY DEF AgePart, CountPart
  <2>3. QED
    BY <2>1, <2>2
<1>3. FirstPart'
  BY DEF FirstPart
<1>4. CountPart'
  BY DEF CountPart, Taken
<1>5. LimitPart'
  BY DEF LimitPart, Taken
<1>6. RefusedOverLimit'
  BY DEF RefusedOverLimit
<1>7. QED
  BY <1>1, <1>2, <1>3, <1>4, <1>5, <1>6

\* INCR: a new incarnation with one request in it, or one request more in the
\* present one, let through as long as the limit is not passed.
LEMMA IncrStep == ASSUME WindowInv, NEW r \in Requests, Incr(r) PROVE WindowInv'
<1> USE FWAssumption DEF WindowInv, FWTypeOK, Incr
<1>1. FWTypeOK'
  OBVIOUS
<1>2. /\ key' = [key EXCEPT ![r] = keys'] /\ key[r] = 0 /\ keys' > 0
      /\ \A s \in Requests \ {r} : stage'[s] = stage[s] /\ key'[s] = key[s]
  BY DEF KeyPart, CountPart
<1>3. \A s \in Requests : KeyPart(s)'
  BY <1>2 DEF KeyPart, CountPart
<1>4. \A s \in Requests : AgePart(s)'
  BY <1>2 DEF AgePart, CountPart, KeyPart
<1>5. FirstPart'
  BY <1>2 DEF FirstPart, KeyPart
<1>6. \A g \in Nat : Taken(g) \in SUBSET Requests
  BY DEF Taken
<1>7. ASSUME hits = 0 PROVE Taken(keys)' = {r} /\ Cardinality(Taken(keys)') = 1
  <2>1. Taken(keys)' = {r}
    BY <1>2, <1>7 DEF Taken, KeyPart
  <2>2. QED
    BY <2>1, FS_Singleton
<1>8. ASSUME hits > 0, hits + 1 <= Limit
      PROVE  keys' = keys /\ Cardinality(Taken(keys)') = hits + 1
  <2>1. keys' = keys /\ Taken(keys)' = Taken(keys) \cup {r} /\ r \notin Taken(keys)
    BY <1>2, <1>8 DEF Taken
  <2>2. Cardinality(Taken(keys)) = hits
    BY <1>8 DEF CountPart
  <2>3. QED
    BY <1>6, <2>1, <2>2, RequestSets, FS_AddElement
<1>9. ASSUME hits > 0, hits + 1 > Limit
      PROVE  keys' = keys /\ Taken(keys)' = Taken(keys) /\ Cardinality(Taken(keys)) = Limit
  <2>1. keys' = keys /\ Taken(keys)' = Taken(keys)
    BY <1>2, <1>9 DEF Taken
  <2>2. Cardinality(Taken(keys)) = Limit
    BY <1>9 DEF CountPart
  <2>3. QED
    BY <2>1, <2>2
<1>10. CountPart'
  <2>1. CASE hits = 0
    BY <1>2, <1>7, <2>1 DEF CountPart
  <2>2. CASE hits > 0 /\ hits + 1 <= Limit
    BY <1>2, <1>8, <2>2 DEF CountPart
  <2>3. CASE hits > 0 /\ hits + 1 > Limit
    BY <1>2, <1>9, <2>3 DEF CountPart
  <2>4. QED
    BY <2>1, <2>2, <2>3
<1>11. \A g \in 1..keys : g # keys' => Taken(g)' = Taken(g)
  BY <1>2 DEF Taken
<1>12. LimitPart'
  <2> SUFFICES ASSUME NEW g \in 1..keys' PROVE Cardinality(Taken(g)') <= Limit
    BY DEF LimitPart
  <2>1. CASE g # keys'
    BY <1>11, <2>1 DEF LimitPart
  <2>2. CASE g = keys'
    BY <1>7, <1>8, <1>9, <2>2
  <2>3. QED
    BY <2>1, <2>2
<1>13. RefusedOverLimit'
  <2> SUFFICES ASSUME NEW s \in Requests, stage'[s] \in {"over", "limited"}
               PROVE  Cardinality(Taken(key[s])') >= Limit
    BY DEF RefusedOverLimit, Taken
  <2>1. CASE s = r
    <3>1. hits > 0 /\ hits + 1 > Limit /\ key'[s] = keys
      BY <1>2, <2>1
    <3>2. QED
      BY <1>9, <3>1
  <2>2. CASE s # r
    <3>1. key'[s] = key[s] /\ key[s] \in 1..keys /\ stage[s] \in {"over", "limited"}
      BY <1>2, <2>2 DEF KeyPart
    <3>2. Cardinality(Taken(key[s])) >= Limit
      BY <3>1 DEF RefusedOverLimit, Taken
    <3>3. CASE key[s] # keys'
      BY <1>11, <3>1, <3>2, <3>3
    <3>4. CASE key[s] = keys'
      <4>1. hits > 0 /\ keys' = keys
        BY <3>1, <3>4
      <4>2. CASE hits + 1 > Limit
        BY <1>9, <3>1, <3>4, <4>1, <4>2
      <4>3. CASE hits + 1 <= Limit
        <5>1. Cardinality(Taken(keys)) = hits
          BY <4>1, <4>3 DEF CountPart
        <5>2. QED
          BY <3>2, <3>4, <4>1, <4>3, <5>1
      <4>4. QED
        BY <4>2, <4>3
    <3>5. QED
      BY <3>3, <3>4
  <2>3. QED
    BY <2>1, <2>2
<1>14. QED
  BY <1>1, <1>3, <1>4, <1>5, <1>10, <1>12, <1>13

\* EXPIRE gives the present incarnation a window from now on.
LEMMA ExpireStep == ASSUME WindowInv, NEW r \in Requests, Expire(r) PROVE WindowInv'
<1> USE FWAssumption DEF WindowInv, FWTypeOK, Expire, NoExpiry
<1>1. FWTypeOK'
  OBVIOUS
<1>2. hits > 0 /\ key[r] = keys /\ \A s \in Requests \ {r} : stage[s] # "first"
  BY DEF KeyPart, FirstPart
<1>3. \A s \in Requests : KeyPart(s)' /\ AgePart(s)'
  BY <1>2 DEF KeyPart, AgePart
<1>4. FirstPart'
  BY DEF FirstPart
<1>5. \A g \in Nat : Taken(g)' = Taken(g)
  BY DEF Taken
<1>6. CountPart' /\ LimitPart'
  BY <1>2, <1>5 DEF CountPart, LimitPart
<1>7. RefusedOverLimit'
  <2> SUFFICES ASSUME NEW s \in Requests, stage'[s] \in {"over", "limited"}
               PROVE  Cardinality(Taken(key[s])') >= Limit
    BY DEF RefusedOverLimit, Taken
  <2>1. Cardinality(Taken(key[s])) >= Limit
    BY DEF RefusedOverLimit, Taken
  <2>2. QED
    BY <1>5, <2>1
<1>8. QED
  BY <1>1, <1>3, <1>4, <1>6, <1>7

\* A request that is refused or breaks off is let through no more.
LEMMA EndStep == ASSUME WindowInv, NEW r \in Requests, Refuse(r) \/ BreakOff(r) PROVE WindowInv'
<1> USE FWAssumption DEF WindowInv, FWTypeOK, Refuse, BreakOff
<1>1. FWTypeOK'
  OBVIOUS
<1>2. /\ UNCHANGED <<hits, left, key, keys, age>>
      /\ \A s \in Requests \ {r} : stage'[s] = stage[s]
      /\ stage[r] \in {"first", "over"} /\ stage'[r] \in {"limited", "unexpired", "broken"}
  OBVIOUS
<1>3. \A s \in Requests : KeyPart(s)' /\ AgePart(s)'
  BY <1>2 DEF KeyPart, AgePart
<1>4. FirstPart'
  BY <1>2 DEF FirstPart
<1>5. \A g \in Nat : Taken(g)' = Taken(g)
  BY DEF Taken
<1>6. CountPart' /\ LimitPart'
  BY <1>2, <1>5 DEF CountPart, LimitPart
<1>7. RefusedOverLimit'
  <2> SUFFICES ASSUME NEW s \in Requests, stage'[s] \in {"over", "limited"}
               PROVE  Cardinality(Taken(key[s])') >= Limit
    BY DEF RefusedOverLimit, Taken
  <2>1. stage[s] \in {"over", "limited"} /\ key'[s] = key[s]
    BY <1>2
  <2>2. Cardinality(Taken(key[s])) >= Limit
    BY <2>1 DEF RefusedOverLimit, Taken
  <2>3. QED
    BY <1>5, <2>1, <2>2
<1>8. QED
  BY <1>1, <1>3, <1>4, <1>6, <1>7

\* Every step of a request and every second keep the invariant.
LEMMA WindowStep == WindowInv /\ [FWNext]_FWvars => WindowInv'
<1> SUFFICES ASSUME WindowInv, [FWNext]_FWvars PROVE WindowInv'
  OBVIOUS
<1>1. CASE UNCHANGED FWvars
  BY <1>1 DEF FWvars, WindowInv, FWTypeOK, KeyPart, AgePart, FirstPart, CountPart, LimitPart,
              RefusedOverLimit, Taken
<1>2. QED
  BY <1>1, SecondStep, IncrStep, ExpireStep, EndStep DEF FWNext

\* The inductive invariant of the fixed window.
THEOREM WindowInvariance == FWSpec => []WindowInv
<1>1. QED
  BY WindowInit, WindowStep, PTL DEF FWSpec

\* Counter, expiry and requests keep to their types.
THEOREM WindowTyping == FWSpec => []FWTypeOK
<1>1. WindowInv => FWTypeOK
  BY DEF WindowInv
<1>2. QED
  BY <1>1, WindowInvariance, PTL

\* No incarnation of the counter lets more than Limit requests through, however
\* many requests interleave with each other, with the clock and with outages.
THEOREM LimitHolds == FWSpec => []LimitPerWindow
<1>1. QED
  BY LimitFollows, WindowInvariance, PTL

\* Nobody is refused unless Limit others took the places of the incarnation that
\* refuses.
THEOREM RefusalsJust == FWSpec => []RefusedOverLimit
<1>1. WindowInv => RefusedOverLimit
  BY DEF WindowInv
<1>2. QED
  BY <1>1, WindowInvariance, PTL

\* Within one window at most twice the limit is let through, whatever the limit
\* and the window are.
THEOREM BurstHolds == FWSpec => []BurstBounded
<1>1. QED
  BY BurstFollows, WindowInvariance, PTL

\* The request that created the incarnation without an expiry is still to set
\* one, or failed before it could.
ExpiryInv ==
    /\ hits > 0 /\ left = NoExpiry =>
         \E r \in Requests : stage[r] \in {"first", "unexpired"} /\ key[r] = keys
    /\ (\E r \in Requests : stage[r] = "unexpired") => MayFail

\* A counter that has lost nobody's EXPIRE goes away by itself.
THEOREM ExpirySet == FWSpec => []OnlyBrokenStays
<1>1. FWInit => ExpiryInv
  BY DEF FWInit, ExpiryInv
<1>2. WindowInv /\ ExpiryInv /\ [FWNext]_FWvars => ExpiryInv'
  <2> SUFFICES ASSUME WindowInv, ExpiryInv, [FWNext]_FWvars PROVE ExpiryInv'
    OBVIOUS
  <2> USE FWAssumption DEF WindowInv, FWTypeOK, ExpiryInv, NoExpiry
  <2>1. CASE Second
    BY <2>1 DEF Second
  <2>2. ASSUME NEW r \in Requests, Incr(r) PROVE ExpiryInv'
    <3>1. \A s \in Requests \ {r} : stage'[s] = stage[s] /\ key'[s] = key[s]
      BY <2>2 DEF Incr
    <3>2. CASE hits = 0
      BY <2>2, <3>1, <3>2 DEF Incr
    <3>3. CASE hits > 0
      BY <2>2, <3>1, <3>3 DEF Incr
    <3>4. QED
      BY <3>2, <3>3
  <2>3. ASSUME NEW r \in Requests, Expire(r) PROVE ExpiryInv'
    <3>1. hits > 0
      BY <2>3 DEF Expire, KeyPart
    <3>2. QED
      BY <2>3, <3>1 DEF Expire
  <2>4. ASSUME NEW r \in Requests, Refuse(r) \/ BreakOff(r) PROVE ExpiryInv'
    BY <2>4 DEF Refuse, BreakOff
  <2>5. CASE UNCHANGED FWvars
    BY <2>5 DEF FWvars
  <2>6. QED
    BY <2>1, <2>2, <2>3, <2>4, <2>5 DEF FWNext
<1>3. ExpiryInv => OnlyBrokenStays
  BY DEF ExpiryInv, OnlyBrokenStays, BrokeOff
<1>4. QED
  BY <1>1, <1>2, <1>3, WindowInvariance, PTL DEF FWSpec

------------------------------------------------------------------------------
(* LoginBackoff *)

\* An attempt that has been let in and may still write to Redis.
Active == {"stale", "verify", "incr", "expire", "mark", "clear"}

\* Only blocks that had been set by then were looked at, and whoever was let in
\* and has seen the last one found it over.
SeenPart(a) == /\ seen[a] <= era
               /\ pc[a] \in Active /\ seen[a] = era => block <= 0

\* An attempt that marks its failure has counted it, so that its delay is one.
TriesPart(a) == pc[a] \in {"expire", "mark"} => tries[a] >= 1

BackInv == /\ TypeOK
           /\ OnlyBrokenImmortal
           /\ \A a \in Attempts : SeenPart(a) /\ TriesPart(a)

------------------------------------------------------------------------------
\* The powers of two that the delay is made of are whole numbers.
LEMMA PowerOfTwo == ASSUME NEW n \in Nat PROVE 2 ^ n \in Nat
<1>1. IsFiniteSet(1..n) /\ Cardinality(1..n) = n
  BY FS_Interval
<1>2. IsFiniteSet(SUBSET (1..n)) /\ Cardinality(SUBSET (1..n)) = 2 ^ n
  BY <1>1, FS_SUBSET
<1>3. QED
  BY <1>2, FS_CardinalityType

\* The delay that record_backoff_failure computes lies within its cap.
LEMMA DelayCapped ==
    ASSUME NEW n \in Nat, n >= Threshold PROVE Delay(n) \in 0..MaxDelay
<1>1. n - Threshold \in Nat
  BY ConstantsAssumption
<1>2. DEFINE p == 2 ^ (n - Threshold)
<1>3. p \in Nat
  BY <1>1, PowerOfTwo
<1>4. BaseDelay * p \in Nat
  <2> HIDE DEF p
  <2>1. QED
    BY <1>3, ConstantsAssumption
<1>5. QED
  BY <1>4, ConstantsAssumption DEF Delay

\* Before the first attempt there is nothing in Redis.
LEMMA BackoffInit == Init => BackInv
BY ConstantsAssumption
DEF Init, BackInv, TypeOK, OnlyBrokenImmortal, SeenPart, TriesPart, Active, NoTTL, NoBlock

\* Every Redis command, the password check, an outage and the clock keep it.
LEMMA BackoffStep == BackInv /\ [Next]_vars => BackInv'
<1> SUFFICES ASSUME BackInv, [Next]_vars PROVE BackInv'
  OBVIOUS
<1> USE ConstantsAssumption
    DEF BackInv, TypeOK, SeenPart, TriesPart, Active, NoTTL, NoBlock, Goto, redis
<1>1. CASE Tick
  <2> USE <1>1 DEF Tick
  <2>1. TypeOK'
    OBVIOUS
  <2>2. OnlyBrokenImmortal'
    BY DEF OnlyBrokenImmortal
  <2>3. \A a \in Attempts : SeenPart(a)' /\ TriesPart(a)'
    OBVIOUS
  <2>4. QED
    BY <2>1, <2>2, <2>3
<1>2. ASSUME NEW b \in Attempts, CheckGet(b) PROVE BackInv'
  <2> USE <1>2 DEF CheckGet
  <2>1. TypeOK'
    OBVIOUS
  <2>2. OnlyBrokenImmortal'
    BY DEF OnlyBrokenImmortal
  <2>3. \A a \in Attempts : SeenPart(a)' /\ TriesPart(a)'
    OBVIOUS
  <2>4. QED
    BY <2>1, <2>2, <2>3
<1>3. ASSUME NEW b \in Attempts, CheckDelete(b) PROVE BackInv'
  <2> USE <1>3 DEF CheckDelete
  <2>1. TypeOK'
    OBVIOUS
  <2>2. OnlyBrokenImmortal'
    BY DEF OnlyBrokenImmortal
  <2>3. \A a \in Attempts : SeenPart(a)' /\ TriesPart(a)'
    OBVIOUS
  <2>4. QED
    BY <2>1, <2>2, <2>3
<1>4. ASSUME NEW b \in Attempts, Verify(b) PROVE BackInv'
  <2> USE <1>4 DEF Verify
  <2>1. TypeOK'
    OBVIOUS
  <2>2. OnlyBrokenImmortal'
    BY DEF OnlyBrokenImmortal
  <2>3. \A a \in Attempts : SeenPart(a)' /\ TriesPart(a)'
    OBVIOUS
  <2>4. QED
    BY <2>1, <2>2, <2>3
<1>5. ASSUME NEW b \in Attempts, RecordIncr(b) PROVE BackInv'
  <2> USE <1>5 DEF RecordIncr
  <2>1. TypeOK'
    OBVIOUS
  <2>2. OnlyBrokenImmortal'
    <3>1. CASE count = 0
      <4>1. tries'[b] = 1 /\ pc'[b] = "expire"
        BY <3>1
      <4>2. QED
        BY <4>1 DEF OnlyBrokenImmortal
    <3>2. CASE count # 0
      BY <3>2 DEF OnlyBrokenImmortal
    <3>3. QED
      BY <3>1, <3>2
  <2>3. \A a \in Attempts : SeenPart(a)' /\ TriesPart(a)'
    OBVIOUS
  <2>4. QED
    BY <2>1, <2>2, <2>3
<1>6. ASSUME NEW b \in Attempts, RecordExpire(b) PROVE BackInv'
  <2> USE <1>6 DEF RecordExpire
  <2>1. TypeOK'
    OBVIOUS
  <2>2. OnlyBrokenImmortal'
    BY DEF OnlyBrokenImmortal
  <2>3. \A a \in Attempts : SeenPart(a)' /\ TriesPart(a)'
    OBVIOUS
  <2>4. QED
    BY <2>1, <2>2, <2>3
<1>7. ASSUME NEW b \in Attempts, RecordUnblock(b) PROVE BackInv'
  <2> USE <1>7 DEF RecordUnblock
  <2>1. TypeOK'
    OBVIOUS
  <2>2. OnlyBrokenImmortal'
    BY DEF OnlyBrokenImmortal
  <2>3. \A a \in Attempts : SeenPart(a)' /\ TriesPart(a)'
    OBVIOUS
  <2>4. QED
    BY <2>1, <2>2, <2>3
<1>8. ASSUME NEW b \in Attempts, RecordBlock(b) PROVE BackInv'
  <2> USE <1>8 DEF RecordBlock
  <2>1. Delay(tries[b]) \in 0..MaxDelay
    BY DelayCapped
  <2>2. TypeOK'
    BY <2>1
  <2>3. OnlyBrokenImmortal'
    BY DEF OnlyBrokenImmortal
  <2>4. \A a \in Attempts : SeenPart(a)' /\ TriesPart(a)'
    OBVIOUS
  <2>5. QED
    BY <2>2, <2>3, <2>4
<1>9. ASSUME NEW b \in Attempts, Clear(b) PROVE BackInv'
  <2> USE <1>9 DEF Clear
  <2>1. TypeOK'
    OBVIOUS
  <2>2. OnlyBrokenImmortal'
    BY DEF OnlyBrokenImmortal
  <2>3. \A a \in Attempts : SeenPart(a)' /\ TriesPart(a)'
    OBVIOUS
  <2>4. QED
    BY <2>1, <2>2, <2>3
<1>10. ASSUME NEW b \in Attempts, Break(b) PROVE BackInv'
  <2> USE <1>10 DEF Break
  <2>1. TypeOK'
    OBVIOUS
  <2>2. OnlyBrokenImmortal'
    BY DEF OnlyBrokenImmortal
  <2>3. \A a \in Attempts : SeenPart(a)' /\ TriesPart(a)'
    OBVIOUS
  <2>4. QED
    BY <2>1, <2>2, <2>3
<1>11. CASE UNCHANGED vars
  <2> USE <1>11 DEF vars
  <2>1. TypeOK' /\ \A a \in Attempts : SeenPart(a)' /\ TriesPart(a)'
    OBVIOUS
  <2>2. OnlyBrokenImmortal'
    BY DEF OnlyBrokenImmortal
  <2>3. QED
    BY <2>1, <2>2
<1>12. QED
  BY <1>1, <1>2, <1>3, <1>4, <1>5, <1>6, <1>7, <1>8, <1>9, <1>10, <1>11 DEF Next, AttemptStep

\* The inductive invariant of the backoff.
THEOREM BackoffInvariance == Spec => []BackInv
<1>1. QED
  BY BackoffInit, BackoffStep, PTL DEF Spec

\* Counter, block and attempts keep to their types; in particular no delay
\* exceeds the cap.
THEOREM BackoffTyping == Spec => []TypeOK
<1>1. BackInv => TypeOK
  BY DEF BackInv
<1>2. QED
  BY <1>1, BackoffInvariance, PTL

\* A failure counter lacks an expiry only on behalf of an attempt between INCR
\* and EXPIRE, or stopped there.
THEOREM CounterExpires == Spec => []OnlyBrokenImmortal
<1>1. BackInv => OnlyBrokenImmortal
  BY DEF BackInv
<1>2. QED
  BY <1>1, BackoffInvariance, PTL

\* A running block is undone only by an attempt that had looked before it was
\* set, however many attempts interleave.
THEOREM BlockHolds == Spec => LiftedOnlyByEarlier
<1>1. BackInv /\ [Next]_vars =>
        [block > 0 /\ block' < block /\ pc' # pc
            => \E a \in Attempts : pc'[a] # pc[a] /\ seen[a] < era]_vars
  <2> SUFFICES ASSUME BackInv, [Next]_vars, block > 0, block' < block, pc' # pc
               PROVE  \E a \in Attempts : pc'[a] # pc[a] /\ seen[a] < era
    OBVIOUS
  <2> USE DEF BackInv, TypeOK, SeenPart, Active, Goto
  <2>1. PICK a \in Attempts : CheckDelete(a) \/ RecordUnblock(a) \/ RecordBlock(a) \/ Clear(a)
    BY ConstantsAssumption DEF Next, AttemptStep, vars, redis, Tick, CheckGet, Verify,
       RecordIncr, RecordExpire, Break, NoBlock
  <2>2. pc[a] \in Active /\ pc'[a] # pc[a]
    BY <2>1 DEF CheckDelete, RecordUnblock, RecordBlock, Clear
  <2>3. seen[a] < era
    BY <2>2, ConstantsAssumption DEF NoBlock
  <2>4. QED
    BY <2>2, <2>3
<1>2. QED
  BY <1>1, BackoffInvariance, PTL DEF Spec, LiftedOnlyByEarlier
=============================================================================
