---------------------------- MODULE LoginBackoff ----------------------------
(***************************************************************************)
(* The delay after failed sign-ins: AuthService.login around the backoff   *)
(* half of RedisRateLimiter (core/rate_limits.py).  All attempts for one   *)
(* email share a failure counter and a block in Redis; no endpoint passes  *)
(* an address, so that the email is the only identifier of an attempt.     *)
(* Every Redis command is a step, because the attempt is suspended while   *)
(* it waits for the answer; so is the password check.                      *)
(***************************************************************************)
EXTENDS Integers

CONSTANTS Attempts,   \* POST /auth/login requests for the email, each served once
          Threshold,  \* RATE_LIMIT_AUTH_FAILURE_BACKOFF_THRESHOLD
          BaseDelay, MaxDelay,  \* .._BASE_SECONDS, .._MAX_SECONDS
          Window,     \* .._WINDOW_SECONDS
          Faults      \* {"outage"} when the process or Redis may fail in an attempt

ASSUME ConstantsAssumption ==
    /\ Threshold \in Nat \ {0} /\ Window \in Nat \ {0}
    /\ BaseDelay \in Nat \ {0} /\ MaxDelay \in Nat \ {0}
    /\ Faults \subseteq {"outage"}

NoTTL == Window + 1    \* the counter's TTL when it has none
NoBlock == -1          \* there is no block key

VARIABLES count,  \* the failure counter, 0 when there is no key
          ttl,    \* seconds the counter has left
          block,  \* seconds until blocked_until, 0 when it has just passed
          era,    \* blocks set so far
          pc,     \* progress of each attempt
          tries,  \* tries[a]: what INCR returned to a
          seen    \* seen[a]: era when a looked at the block

vars == <<count, ttl, block, era, pc, tries, seen>>
redis == <<count, ttl, block, era>>

Init == /\ count = 0 /\ ttl = NoTTL /\ block = NoBlock /\ era = 0
        /\ pc = [a \in Attempts |-> "check"]
        /\ tries = [a \in Attempts |-> 0]
        /\ seen = [a \in Attempts |-> 0]

\* A slip in how a block is set, without ex=: the key outlives its time.
TickKeepsBlock ==
    /\ ttl'   = IF ttl \in {1, NoTTL} THEN NoTTL ELSE ttl - 1
    /\ count' = IF ttl = 1 THEN 0 ELSE count
    /\ block' = IF block > 0 THEN block - 1 ELSE block
    /\ UNCHANGED <<era, pc, tries, seen>>

\* A second passes; Redis drops the counter and the block when their time is up.
Tick ==
    /\ ttl'   = IF ttl \in {1, NoTTL} THEN NoTTL ELSE ttl - 1
    /\ count' = IF ttl = 1 THEN 0 ELSE count
    /\ block' = IF block = NoBlock THEN NoBlock ELSE block - 1
    /\ UNCHANGED <<era, pc, tries, seen>>

Goto(a, from, to) == pc[a] = from /\ pc' = [pc EXCEPT ![a] = to]

------------------------------------------------------------------------------
(* ensure_backoff_clear *)

\* A slip of CheckGet: the comparison with the present is turned round.
CheckGetInverted(a) ==
    /\ \/ block > 0 /\ Goto(a, "check", "stale")
       \/ block = 0 /\ Goto(a, "check", "refused")
       \/ block = NoBlock /\ Goto(a, "check", "verify")
    /\ seen' = [seen EXCEPT ![a] = era]
    /\ UNCHANGED <<redis, tries>>

\* GET on the block key: refused, the block's time is up, or there is none.
CheckGet(a) ==
    /\ \/ block > 0 /\ Goto(a, "check", "refused")
       \/ block = 0 /\ Goto(a, "check", "stale")
       \/ block = NoBlock /\ Goto(a, "check", "verify")
    /\ seen' = [seen EXCEPT ![a] = era]
    /\ UNCHANGED <<redis, tries>>

\* DEL of the block that was found to be over.
CheckDelete(a) ==
    /\ Goto(a, "stale", "verify")
    /\ block' = NoBlock
    /\ UNCHANGED <<count, ttl, era, tries, seen>>

\* The user is looked up and the password verified: right or wrong.
Verify(a) ==
    /\ Goto(a, "verify", "clear") \/ Goto(a, "verify", "incr")
    /\ UNCHANGED <<redis, tries, seen>>

------------------------------------------------------------------------------
(* record_backoff_failure *)

\* A slip of RecordIncr: the expiry is left to the failure at the threshold.
IncrExpiresLater(a) ==
    /\ Goto(a, "incr", IF count + 1 = Threshold THEN "expire" ELSE "mark")
    /\ count' = count + 1
    /\ tries' = [tries EXCEPT ![a] = count + 1]
    /\ UNCHANGED <<ttl, block, era, seen>>

RecordIncr(a) ==
    /\ Goto(a, "incr", IF count = 0 THEN "expire" ELSE "mark")
    /\ count' = count + 1
    /\ tries' = [tries EXCEPT ![a] = count + 1]
    /\ UNCHANGED <<ttl, block, era, seen>>

\* EXPIRE does nothing to a counter that is gone.
RecordExpire(a) ==
    /\ Goto(a, "expire", "mark")
    /\ ttl' = IF count > 0 THEN Window ELSE ttl
    /\ UNCHANGED <<count, block, era, tries, seen>>

\* Below the threshold the block key is deleted.
RecordUnblock(a) ==
    /\ tries[a] < Threshold
    /\ Goto(a, "mark", "denied")
    /\ block' = NoBlock
    /\ UNCHANGED <<count, ttl, era, tries, seen>>

Delay(n) == LET d == BaseDelay * 2 ^ (n - Threshold) IN IF d < MaxDelay THEN d ELSE MaxDelay

\* From the threshold on a block is set that expires by itself.
RecordBlock(a) ==
    /\ tries[a] >= Threshold
    /\ Goto(a, "mark", "denied")
    /\ block' = Delay(tries[a])
    /\ era'   = era + 1
    /\ UNCHANGED <<count, ttl, tries, seen>>

\* clear_backoff_state deletes both keys, then the tokens are issued.
Clear(a) ==
    /\ Goto(a, "clear", "in")
    /\ count' = 0 /\ ttl' = NoTTL /\ block' = NoBlock
    /\ UNCHANGED <<era, tries, seen>>

\* The process dies or Redis or the database fails, wherever the attempt is:
\* "unexpired" is where it matters, between INCR and EXPIRE.
Break(a) ==
    /\ "outage" \in Faults
    /\ pc[a] \notin {"in", "refused", "denied", "broken", "unexpired"}
    /\ pc' = [pc EXCEPT ![a] = IF @ = "expire" THEN "unexpired" ELSE "broken"]
    /\ UNCHANGED <<redis, tries, seen>>

AttemptStep(a) == CheckGet(a) \/ CheckDelete(a) \/ Verify(a) \/ RecordIncr(a) \/ RecordExpire(a)
                  \/ RecordUnblock(a) \/ RecordBlock(a) \/ Clear(a)

Next == Tick \/ \E a \in Attempts : AttemptStep(a) \/ Break(a)

\* Time passes; no attempt has to go on.
Spec == Init /\ [][Next]_vars /\ WF_vars(Tick)

------------------------------------------------------------------------------
\* Every variable keeps to its values.
TypeOK ==
    /\ count \in Nat /\ ttl \in 1..NoTTL
    /\ block \in NoBlock..MaxDelay /\ era \in Nat
    /\ pc \in [Attempts -> {"check", "stale", "verify", "incr", "expire", "mark", "clear",
                            "in", "refused", "denied", "broken", "unexpired"}]
    /\ tries \in [Attempts -> Nat]
    /\ seen \in [Attempts -> Nat]

\* A block that is still running is lifted or shortened only by an attempt that
\* had looked at the block key before the block was set: whoever looks at a
\* running block is turned away and cannot touch it, in whatever order the
\* commands of concurrent attempts reach Redis.
LiftedOnlyByEarlier ==
    [][block > 0 /\ block' < block /\ pc' # pc
          => \E a \in Attempts : pc'[a] # pc[a] /\ seen[a] < era]_vars

\* A failure counter without a TTL has an attempt on its way to set one, or one
\* that an outage stopped between INCR and EXPIRE, and nowhere else; sign-ins
\* that clear the counter in between do not lose the expiry of the next one.
OnlyBrokenImmortal ==
    count > 0 /\ ttl = NoTTL
        => \E a \in Attempts : tries[a] = 1 /\ pc[a] \in {"expire", "unexpired"}

\* "Please try again in {remaining} seconds": every block comes to an end, also
\* when nobody signs in any more and whatever attempt broke off.
BlockEnds == block # NoBlock ~> block = NoBlock
=============================================================================
