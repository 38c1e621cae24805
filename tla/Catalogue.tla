------------------------------ MODULE Catalogue ------------------------------
(***************************************************************************)
(* What a user may rely on about documents, with no store, no request and  *)
(* no task in sight: where a document stands, whether it is listed, and    *)
(* whether a question may find passages of it.  DocumentLifecycle          *)
(* implements this (ImplementsCatalogue there).                            *)
(***************************************************************************)
CONSTANT Docs

VARIABLES shelf,   \* where the document stands
          listed,  \* whether GET /documents shows it
          found    \* whether retrieval can come upon it

vars == <<shelf, listed, found>>

Init == /\ shelf  = [d \in Docs |-> "absent"]
        /\ listed = [d \in Docs |-> FALSE]
        /\ found  = [d \in Docs |-> FALSE]

\* The upload is answered and the document listed as being processed.
Accept(d) == /\ shelf[d] = "absent"
             /\ shelf'  = [shelf EXCEPT ![d] = "processing"]
             /\ listed' = [listed EXCEPT ![d] = TRUE]
             /\ UNCHANGED found

\* Only background processing makes a document findable.  It does so too when
\* a delete has overtaken it ("doomed"): nobody tells the task.
Index(d) == /\ shelf[d] \in {"processing", "doomed"}
            /\ found' = [found EXCEPT ![d] = TRUE]
            /\ UNCHANGED <<shelf, listed>>

\* Processing ends once, and its verdict agrees with what can be found.
Settle(d) ==
    /\ \/ shelf[d] = "processing" /\ found[d]  /\ shelf' = [shelf EXCEPT ![d] = "searchable"]
       \/ shelf[d] = "processing" /\ ~found[d] /\ shelf' = [shelf EXCEPT ![d] = "failed"]
       \/ shelf[d] = "processing" /\ shelf' = [shelf EXCEPT ![d] = "unsure"]
       \/ shelf[d] = "doomed"     /\ shelf' = [shelf EXCEPT ![d] = "withdrawn"]
    /\ UNCHANGED <<listed, found>>

\* The process or the database fails under the processing of some documents.
Interrupt(S) ==
    /\ \A d \in S : shelf[d] \in {"processing", "doomed"}
    /\ shelf' = [d \in Docs |-> IF d \notin S THEN shelf[d]
                                ELSE IF shelf[d] = "doomed" THEN "withdrawn" ELSE "abandoned"]
    /\ UNCHANGED <<listed, found>>

\* A delete begins: the document can no longer be found, unless the vector
\* store refused; another delete may still put that right.
Withdraw(d) ==
    /\ shelf[d] # "absent"
    /\ shelf' = [shelf EXCEPT ![d] = IF @ \in {"processing", "doomed"} THEN "doomed"
                                     ELSE "withdrawn"]
    /\ found' \in {found, [found EXCEPT ![d] = FALSE]}
    /\ UNCHANGED listed

\* A delete is answered: the document is off the list, for good.
Unlist(d) == /\ shelf[d] \in {"doomed", "withdrawn"}
             /\ listed' = [listed EXCEPT ![d] = FALSE]
             /\ UNCHANGED <<shelf, found>>

Next == \/ \E d \in Docs : Accept(d) \/ Index(d) \/ Settle(d) \/ Withdraw(d) \/ Unlist(d)
        \/ \E S \in SUBSET Docs : Interrupt(S)

Spec == Init /\ [][Next]_vars
=============================================================================
