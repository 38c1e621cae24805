--------------------------- MODULE ResearchGraph ---------------------------
(***************************************************************************)
(* The workflow that agents/graph/workflow.py compiles: the nodes in their *)
(* order, over the state of agents/graph/state.py.  Nothing in the program *)
(* invokes it; stream_chat has a pipeline of its own (StreamChat), which   *)
(* has to do the same.                                                     *)
(***************************************************************************)
EXTENDS AgentNodes

VARIABLES node,    \* the node to run next
          req,     \* the question
          needs,   \* needs_retrieval
          chunks,  \* retrieved_chunks
          answer, citations,
          passed,  \* guardrail_passed
          graded   \* the answer that faithfulness and relevance are about

vars == <<node, req, needs, chunks, answer, citations, passed, graded>>

Init == /\ node = "planner"
        /\ req \in Questions
        /\ needs = FALSE
        /\ chunks = <<>> /\ answer = <<>> /\ citations = <<>>
        /\ passed = TRUE
        /\ graded = <<>>

\* The conditional edge leads past the retriever.
Planner ==
    /\ node = "planner"
    /\ needs' = NeedsRetrieval(req)
    /\ node' = IF needs' THEN "retriever" ELSE "generator"
    /\ UNCHANGED <<req, chunks, answer, citations, passed, graded>>

Retriever ==
    /\ node = "retriever"
    /\ chunks' \in Retrievals(req)
    /\ node' = "generator"
    /\ UNCHANGED <<req, needs, answer, citations, passed, graded>>

\* Whatever the model returns.
Generator ==
    /\ node = "generator"
    /\ answer' \in Text
    /\ citations' = Citations(chunks)
    /\ node' = "guardrail"
    /\ UNCHANGED <<req, needs, chunks, passed, graded>>

Guardrail ==
    /\ node = "guardrail"
    /\ passed' = Passes(req, chunks, answer)
    /\ node' = "evaluator"
    /\ UNCHANGED <<req, needs, chunks, answer, citations, graded>>

Evaluator ==
    /\ node = "evaluator"
    /\ graded' = answer
    /\ node' = "END"
    /\ UNCHANGED <<req, needs, chunks, answer, citations, passed>>

Next == Planner \/ Retriever \/ Generator \/ Guardrail \/ Evaluator

Spec == Init /\ [][Next]_vars
=============================================================================
