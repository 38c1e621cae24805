---------------------------- MODULE FixedWindow ----------------------------
(***************************************************************************)
(* RedisRateLimiter.enforce_fixed_window (core/rate_limits.py) for one     *)
(* scope and one client: requests share a counter in Redis that is meant   *)
(* to disappear a window after the first of them.  Every Redis command is  *)
(* a step: the request is suspended while it waits for the answer.         *)
(***************************************************************************)
EXTENDS Naturals, FiniteSets

CONSTANTS Requests,  \* requests of the client, each served once
          Limit,     \* limit
          Period,    \* window_seconds
          MayFail    \* whether the process or Redis may fail in a request

ASSUME FWAssumption ==
    /\ Limit \in Nat \ {0} /\ Period \in Nat \ {0}
    /\ MayFail \in BOOLEAN
    /\ IsFiniteSet(Requests)

NoExpiry == Period + 1   \* what a key without an expiry has for a TTL

\* FW marks the names that LoginBackoff, the other half of the class, has too.
VARIABLES hits,   \* the counter, 0 when the key does not exist
          left,   \* seconds the key has left, NoExpiry if it never expires
          stage,  \* progress of each request
          key,    \* key[r]: which incarnation of the key r has counted in
          keys,   \* incarnations of the key so far
          age     \* age[r]: seconds since the INCR of a request let through, up to Period

FWvars == <<hits, left, stage, key, keys, age>>

FWInit == /\ hits = 0 /\ left = NoExpiry /\ keys = 0
          /\ stage = [r \in Requests |-> "idle"]
          /\ key   = [r \in Requests |-> 0]
          /\ age   = [r \in Requests |-> 0]

\* A second passes; Redis drops the key at the end of its TTL.
Second ==
    /\ \/ /\ left = NoExpiry
          /\ UNCHANGED <<hits, left>>
       \/ /\ left \in 2..Period
          /\ left' = left - 1
          /\ UNCHANGED hits
       \/ /\ left = 1
          /\ left' = NoExpiry /\ hits' = 0
    /\ age' = [r \in Requests |-> IF stage[r] \in {"first", "admitted"} /\ age[r] < Period
                                  THEN age[r] + 1 ELSE age[r]]
    /\ UNCHANGED <<stage, key, keys>>

\* Slips of Incr: one request too many is let through; or one too few.
IncrOneTooMany(r) ==
    /\ stage[r] = "idle"
    /\ hits'  = hits + 1
    /\ keys'  = IF hits = 0 THEN keys + 1 ELSE keys
    /\ key'   = [key EXCEPT ![r] = keys']
    /\ stage' = [stage EXCEPT ![r] = IF hits = 0 THEN "first"
                                    ELSE IF hits > Limit THEN "over" ELSE "admitted"]
    /\ UNCHANGED <<left, age>>

IncrOneTooFew(r) ==
    /\ stage[r] = "idle"
    /\ hits'  = hits + 1
    /\ keys'  = IF hits = 0 THEN keys + 1 ELSE keys
    /\ key'   = [key EXCEPT ![r] = keys']
    /\ stage' = [stage EXCEPT ![r] = IF hits = 0 THEN "first"
                                      ELSE IF hits + 1 >= Limit THEN "over" ELSE "admitted"]
    /\ UNCHANGED <<left, age>>

\* INCR creates the key without a TTL if it does not exist; the first to count
\* goes on to set one, a request within the limit is let through.
Incr(r) ==
    /\ stage[r] = "idle"
    /\ hits'  = hits + 1
    /\ keys'  = IF hits = 0 THEN keys + 1 ELSE keys
    /\ key'   = [key EXCEPT ![r] = keys']
    /\ stage' = [stage EXCEPT ![r] = IF hits = 0 THEN "first"
                                    ELSE IF hits + 1 > Limit THEN "over" ELSE "admitted"]
    /\ UNCHANGED <<left, age>>

\* Slips of Expire: a window of one second; no expiry before the limit is passed.
ExpireTooSoon(r) ==
    /\ stage[r] = "first"
    /\ left'  = IF hits > 0 THEN 1 ELSE left
    /\ stage' = [stage EXCEPT ![r] = "admitted"]
    /\ UNCHANGED <<hits, key, keys, age>>

ExpireWhenOver(r) ==
    /\ stage[r] = "first"
    /\ left'  = IF hits > Limit THEN Period ELSE left
    /\ stage' = [stage EXCEPT ![r] = "admitted"]
    /\ UNCHANGED <<hits, key, keys, age>>

\* EXPIRE does nothing to a key that is gone.  The first request is within any
\* limit and is let through.
Expire(r) ==
    /\ stage[r] = "first"
    /\ left'  = IF hits > 0 THEN Period ELSE left
    /\ stage' = [stage EXCEPT ![r] = "admitted"]
    /\ UNCHANGED <<hits, key, keys, age>>

\* TTL is read for the message and the request is refused.
Refuse(r) ==
    /\ stage[r] = "over"
    /\ stage' = [stage EXCEPT ![r] = "limited"]
    /\ UNCHANGED <<hits, left, key, keys, age>>

\* The process dies or the connection to Redis fails before the next command.
BreakOff(r) ==
    /\ MayFail
    /\ stage[r] \in {"first", "over"}
    /\ stage' = [stage EXCEPT ![r] = IF @ = "first" THEN "unexpired" ELSE "broken"]
    /\ UNCHANGED <<hits, left, key, keys, age>>

FWNext == Second \/ \E r \in Requests : Incr(r) \/ Expire(r) \/ Refuse(r) \/ BreakOff(r)

\* Time passes, and a request that has begun goes on.
FWFairness == WF_FWvars(Second) /\ \A r \in Requests : WF_FWvars(Expire(r)) /\ WF_FWvars(Refuse(r))

FWSpec == FWInit /\ [][FWNext]_FWvars /\ FWFairness

------------------------------------------------------------------------------
\* Every variable keeps to its values.
FWTypeOK ==
    /\ hits \in Nat /\ keys \in Nat
    /\ left \in 1..NoExpiry
    /\ stage \in [Requests -> {"idle", "first", "admitted", "over", "limited", "unexpired", "broken"}]
    /\ key \in [Requests -> Nat]
    /\ age \in [Requests -> 0..Period]

\* One incarnation of the counter lets at most Limit requests through, however
\* they interleave with each other and with the clock.
LimitPerWindow ==
    \A g \in 1..keys : Cardinality({r \in Requests : key[r] = g /\ stage[r] = "admitted"}) <= Limit

\* Over any Period seconds at most twice the Limit is let through: the end of
\* one incarnation and the beginning of the next.
BurstBounded ==
    Cardinality({r \in Requests : stage[r] = "admitted" /\ age[r] < Period}) <= 2 * Limit

\* Nobody is turned away early: the incarnation that refuses a request has let
\* Limit others through or lost them to an outage, however they interleave.
RefusedOverLimit ==
    \A r \in Requests : stage[r] \in {"over", "limited"} =>
        Cardinality({s \in Requests : key[s] = key[r]
                        /\ stage[s] \in {"first", "admitted", "unexpired"}}) >= Limit

\* The request that created the counter failed before it could set the expiry.
BrokeOff == \E r \in Requests : stage[r] = "unexpired" /\ key[r] = keys

\* A counter has no expiry only while the request that created it is about to
\* set one, or because that request failed there: later requests, which leave
\* the expiry alone, are never the reason.
OnlyBrokenStays ==
    hits > 0 /\ left = NoExpiry =>
        (\E r \in Requests : stage[r] = "first" /\ key[r] = keys) \/ (BrokeOff /\ MayFail)

\* "Try again in {retry_after} seconds": a client over the limit does not stay
\* there for good, the counter goes away unless an outage made it immortal.
WindowEnds == hits > 0 ~> hits = 0 \/ BrokeOff
=============================================================================
