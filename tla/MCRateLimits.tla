---------------------------- MODULE MCRateLimits ----------------------------
(***************************************************************************)
(* Both halves of core/rate_limits.py on one Redis.  They share no key and *)
(* no request looks at what the other half has written, so that TLC looks  *)
(* at behaviours in which clients meet one of them: a step of either side  *)
(* leaves the other as it was in the beginning.                            *)
(***************************************************************************)
EXTENDS FixedWindow, LoginBackoff

RLvars == <<FWvars, vars>>

RLNext == \/ FWNext /\ (\A a \in Attempts : pc[a] = "check") /\ UNCHANGED vars
          \/ Next /\ (\A r \in Requests : stage[r] = "idle") /\ UNCHANGED FWvars

RLInit == FWInit /\ Init

RLSpec == RLInit /\ [][RLNext]_RLvars /\ FWFairness /\ WF_vars(Tick)
=============================================================================
