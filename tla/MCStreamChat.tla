---------------------------- MODULE MCStreamChat ----------------------------
(* A small instance of StreamChat for TLC: the user has two documents, with two
   chunks and one, somebody else has one. *)
EXTENDS StreamChat

CONSTANTS u1, u2, d1, d2, d3, k1, k2, k3, k4

MCOwner == [d \in {d1, d2, d3} |-> IF d = d3 THEN u2 ELSE u1]
MCDocOf == [k \in {k1, k2, k3, k4} |-> IF k \in {k1, k2} THEN d1 ELSE IF k = k3 THEN d2 ELSE d3]
MCContent == [k \in {k1, k2, k3, k4} |-> IF k = k3 THEN {"sorry"} ELSE {"fact", "toxic"}]
MCIntroduction == <<"name">>
MCApology == <<"sorry">>
MCFallback == <<"rephrase">>
=============================================================================
