--------------------------- MODULE MCChatSession ---------------------------
(* Small instances of ChatSession for TLC. *)
EXTENDS ChatSession

CONSTANTS s1, s2, c1, c2, p1, t1, t2, NewResearchChat

\* c1 asks something, c2 asks "New research chat".
MCTitleFrom == [c \in Chats |-> IF c = c1 THEN t1 ELSE NewResearchChat]
MCNewTitle  == [r \in Renames |-> t2]
=============================================================================
