----------------------------- MODULE StreamChat -----------------------------
(***************************************************************************)
(* One run of ResearchService.stream_chat between the commit of the        *)
(* question and the background task that stores the answer: the pipeline   *)
(* of the agent nodes, written out in line because its tokens go to the    *)
(* client as they come - before the guardrail has seen the answer.         *)
(*                                                                         *)
(* Sessions, history and the storing itself are ChatSession's.             *)
(***************************************************************************)
EXTENDS AgentNodes

CONSTANTS Introduction,  \* the answer to a question for the name
          Apology,       \* "Sorry, I couldn't generate a response just now. ..."
          Fallback,      \* GUARDRAIL_FALLBACK_MESSAGE
          MaxTokens,     \* bound on the tokens of an answer
          NotStored

ASSUME TextsAssumption ==
    /\ Introduction \in Text /\ Apology \in Text /\ Fallback \in Text
    /\ MaxTokens \in Nat

VARIABLES pc, req, needs, chunks, answer, citations, passed, graded,
          prompt,       \* the numbered chunks in the messages to the model
          accumulated,  \* the tokens received so far
          shown,        \* the text the client has been sent
          alerted,      \* the client has been sent guardrail_blocked
          cited,        \* the citations event the client has been sent
          left,         \* the client has gone
          stored        \* what _persist_assistant_turn is called with

state == <<req, needs, chunks, answer, citations, passed, graded>>
stream == <<prompt, accumulated, shown, alerted, cited>>
vars == <<pc, state, stream, left, stored>>

Messages == [text : Text, citations : Seq([doc : Docs, chunk : Chunks]), passed : BOOLEAN, graded : Text]

Init == /\ pc = "begun"
        /\ req \in Questions
        /\ needs = FALSE
        /\ chunks = <<>> /\ answer = <<>> /\ citations = <<>>
        /\ passed = TRUE
        /\ graded = <<>>
        /\ prompt = {} /\ accumulated = <<>> /\ shown = <<>>
        /\ alerted = FALSE /\ cited = <<>>
        /\ left = FALSE
        /\ stored = NotStored

Goto(from, to) == ~left /\ pc = from /\ pc' = to

\* The final answer and citations, after the guardrail's verdict.
Final == IF passed THEN [text |-> answer, citations |-> citations]
                   ELSE [text |-> Fallback, citations |-> <<>>]

------------------------------------------------------------------------------
\* A question for the assistant's name is answered without the pipeline.
Introduce ==
    /\ req.identity
    /\ Goto("begun", "introduced")
    /\ answer' = Introduction /\ shown' = Introduction
    /\ UNCHANGED <<req, needs, chunks, citations, passed, graded,
                   prompt, accumulated, alerted, cited, left, stored>>

Plan ==
    /\ ~req.identity
    /\ Goto("begun", "planned")
    /\ needs' = NeedsRetrieval(req)
    /\ UNCHANGED <<req, chunks, answer, citations, passed, graded, stream, left, stored>>

\* A slip of Retrieve: the planner is not asked.
RetrieveAlways ==
    /\ Goto("planned", "streaming")
    /\ chunks' \in Retrievals(req)
    /\ prompt' = Context(chunks')
    /\ UNCHANGED <<req, needs, answer, citations, passed, graded,
                   accumulated, shown, alerted, cited, left, stored>>

\* retriever_node is always called and returns nothing if it is not needed;
\* then the messages are built.
Retrieve ==
    /\ Goto("planned", "streaming")
    /\ chunks' \in IF needs THEN Retrievals(req) ELSE {<<>>}
    /\ prompt' = Context(chunks')
    /\ UNCHANGED <<req, needs, answer, citations, passed, graded,
                   accumulated, shown, alerted, cited, left, stored>>

StreamToken ==
    /\ ~left /\ pc = "streaming" /\ Len(accumulated) < MaxTokens
    /\ \E w \in Words \cup {Blank} : /\ accumulated' = Append(accumulated, w)
                                     /\ shown' = Append(shown, w)
    /\ UNCHANGED <<pc, state, prompt, alerted, cited, left, stored>>

\* The state gets the answer and its citations, the stream has ended.
TakeAnswer(text) ==
    /\ answer' = text
    /\ citations' = Citations(chunks)
    /\ UNCHANGED <<req, needs, chunks, passed, graded>>

StreamEnd ==
    /\ Goto("streaming", "answered")
    /\ TakeAnswer(accumulated)
    /\ UNCHANGED <<stream, left, stored>>

\* A slip of StreamFails: the apology replaces the tokens that have come.
ApologyAlways ==
    /\ Goto("streaming", "answered")
    /\ accumulated' = Apology
    /\ shown' = shown \o Apology
    /\ TakeAnswer(accumulated')
    /\ UNCHANGED <<prompt, alerted, cited, left, stored>>

\* The provider raises; tokens that have come are taken for the answer, and
\* if there is none an apology is.
StreamFails ==
    /\ Goto("streaming", "answered")
    /\ accumulated' = IF accumulated = <<>> THEN Apology ELSE accumulated
    /\ shown' = IF accumulated = <<>> THEN Apology ELSE shown
    /\ TakeAnswer(accumulated')
    /\ UNCHANGED <<prompt, alerted, cited, left, stored>>

Guard ==
    /\ Goto("answered", "guarded")
    /\ passed' = Passes(req, chunks, answer)
    /\ UNCHANGED <<req, needs, chunks, answer, citations, graded, stream, left, stored>>

\* The answer is graded as it was generated, blocked or not.
Evaluate ==
    /\ Goto("guarded", "evaluated")
    /\ graded' = answer
    /\ UNCHANGED <<req, needs, chunks, answer, citations, passed, stream, left, stored>>

Alert ==
    /\ ~passed /\ ~alerted
    /\ ~left /\ pc = "evaluated"
    /\ alerted' = TRUE
    /\ UNCHANGED <<pc, state, prompt, accumulated, shown, cited, left, stored>>

\* The citations event.
Cite ==
    /\ \/ Goto("evaluated", "cited") /\ (passed \/ alerted) /\ cited' = Final.citations
       \/ Goto("introduced", "cited") /\ cited' = <<>>
    /\ UNCHANGED <<state, prompt, accumulated, shown, alerted, left, stored>>

\* [DONE], and the client comes back for more.
Done == Goto("cited", "done") /\ UNCHANGED <<state, stream, left, stored>>

Store ==
    /\ Goto("done", "stored")
    /\ stored' = [text |-> Final.text, citations |-> Final.citations,
                  passed |-> passed, graded |-> graded]
    /\ UNCHANGED <<state, stream, left>>

\* The client goes at a yield, or while the model is awaited.
Leave ==
    /\ ~left /\ pc # "stored"
    /\ left' = TRUE
    /\ UNCHANGED <<pc, state, stream, stored>>

Next == \/ Introduce \/ Plan \/ Retrieve \/ StreamToken \/ StreamEnd \/ StreamFails
        \/ Guard \/ Evaluate \/ Alert \/ Cite \/ Done \/ Store \/ Leave

Spec == Init /\ [][Next]_vars

------------------------------------------------------------------------------
\* Every variable keeps to its values.
TypeOK ==
    /\ pc \in {"begun", "introduced", "planned", "streaming", "answered", "guarded",
               "evaluated", "cited", "done", "stored"}
    /\ req \in Questions
    /\ needs \in BOOLEAN /\ passed \in BOOLEAN /\ alerted \in BOOLEAN /\ left \in BOOLEAN
    /\ answer \in Text /\ accumulated \in Text /\ shown \in Text /\ graded \in Text
    /\ chunks \in Seq(Chunks) /\ Len(chunks) <= TopK
    /\ prompt \subseteq (1..TopK) \X Chunks
    /\ citations \in Seq([doc : Docs, chunk : Chunks])
    /\ cited \in Seq([doc : Docs, chunk : Chunks])
    /\ stored \in Messages \cup {NotStored}

\* What is stored is what the client has read and the citations it was sent; if
\* not, the client was told so and the fallback is stored.  True of a stream
\* that breaks off with some tokens sent or with none.
StoredWasShown ==
    stored # NotStored =>
        /\ \/ stored.text = shown
           \/ alerted /\ stored.text = Fallback
        /\ stored.citations = cited

\* The number [n] the model was given for a chunk is its place in the citations
\* the client gets and in those that are stored.
CitationsMatchPrompt ==
    \A list \in {cited} \cup (IF stored = NotStored THEN {} ELSE {stored.citations}) :
        list # <<>> => prompt = {<<i, list[i].chunk>> : i \in DOMAIN list}

\* The model is told, and the client is cited, only what is in the user's own
\* documents and, if some were named, in those: also when somebody else's is.
OwnScopeOnly ==
    \A p \in prompt : /\ Owner[DocOf[p[2]]] = User
                      /\ req.docs # {} => DocOf[p[2]] \in req.docs

\* The pipeline does what the compiled workflow does.  The two part in form:
\* the retriever is called although it is not needed, the answer comes in
\* tokens and may be the apology, and the fallback is not part of the state.
Node == CASE pc \in {"begun", "introduced"} -> "planner"
          [] pc = "planned" -> IF needs THEN "retriever" ELSE "generator"
          [] pc = "streaming" -> "generator"
          [] pc = "answered" -> "guardrail"
          [] pc = "guarded" -> "evaluator"
          [] OTHER -> IF req.identity THEN "planner" ELSE "END"

Generated == IF req.identity THEN <<>> ELSE answer

Graph == INSTANCE ResearchGraph WITH node <- Node, answer <- Generated

ImplementsGraph == Graph!Spec
=============================================================================
