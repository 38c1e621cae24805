------------------------ MODULE MCDocumentLifecycle ------------------------
(* Small instances of DocumentLifecycle for TLC. *)
EXTENDS DocumentLifecycle, TLC

CONSTANTS d1, d2, u1, u2, r1, r2

MCOwner == [d \in Docs |-> IF d = d1 THEN u1 ELSE u2]
=============================================================================
