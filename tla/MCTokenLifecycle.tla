-------------------------- MODULE MCTokenLifecycle --------------------------
(* Small instances of TokenLifecycle for TLC. *)
EXTENDS TokenLifecycle, TLC

CONSTANTS a1, a2, a3, f1, f2, f3, p1, v1, q1, q2

MCKind == [t \in Tokens |-> CASE t \in {a1, a2, a3} -> "access"
                              [] t \in {f1, f2, f3} -> "refresh"
                              [] t = p1 -> "reset"
                              [] OTHER -> "verify"]
\* A short-lived access token and a longer refresh token, as in the settings.
MCLife == [k \in Kinds |-> IF k = "access" THEN 1 ELSE 2]

\* Tokens of one kind are interchangeable, and so are requests.
Symmetry == Permutations(Requests) \cup Permutations({t \in Tokens : Kind[t] = "access"})
                                   \cup Permutations({t \in Tokens : Kind[t] = "refresh"})
=============================================================================
