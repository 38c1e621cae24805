----------------------------- MODULE MCDatabase -----------------------------
(***************************************************************************)
(* The two ways to the database.  The pool does not see the schema and a   *)
(* migration does not use the pool, so that TLC looks at behaviours of one *)
(* of them: a step of either side leaves the other as it was in the        *)
(* beginning.                                                              *)
(***************************************************************************)
EXTENDS ConnectionPool, Migrations

CONSTANTS p1, m1, w1, c1, c2, u1, u2, u3

DBvars == <<vars, MGvars>>

DBNext == \/ Next /\ rev = 0 /\ Idle /\ api = "stopped" /\ crashes = 0 /\ UNCHANGED MGvars
          \/ MGNext /\ (\A r \in Requests : pc[r] = "idle") /\ UNCHANGED vars

DBInit == Init /\ MGInit

\* No start is due: the container may be out of the way, but not a migration.
DBSpec == DBInit /\ [][DBNext]_DBvars /\ Fairness /\ GoesOn
=============================================================================
