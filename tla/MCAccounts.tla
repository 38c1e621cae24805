----------------------------- MODULE MCAccounts -----------------------------
(* Small instances of Accounts for TLC. *)
EXTENDS Accounts, TLC

CONSTANTS e1, e2, g1, g2

\* Two Google accounts share an address: a recycled one.
MCGoogleEmail == [g \in Subjects |-> e1]

Symmetry == Permutations(Requests) \cup Permutations(Subjects)
=============================================================================
