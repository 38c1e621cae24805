-------------------------- MODULE StreamChatProofs --------------------------
(***************************************************************************)
(* For any documents, chunks and words, any number of chunks retrieved and *)
(* any answer: the type invariant of StreamChat, that what is stored is    *)
(* what was shown, that nothing out of the user's scope is told or cited,  *)
(* and that the pipeline implements the compiled workflow ResearchGraph.   *)
(***************************************************************************)
EXTENDS StreamChat, SequenceTheorems, TLAPS

Answered == {"answered", "guarded", "evaluated", "cited", "done", "stored"}
Ending == {"cited", "done", "stored"}

\* Which questions get where, and what has been found by then.
StagePart ==
    /\ pc = "introduced" => req.identity
    /\ pc \in {"planned", "streaming", "answered", "guarded", "evaluated"} => ~req.identity
    /\ pc \in {"begun", "introduced", "planned"} => chunks = <<>>
    /\ req.identity => passed /\ chunks = <<>>
    /\ \A i \in DOMAIN chunks : chunks[i] \in Matches(req)
    /\ prompt = Context(chunks)

\* The client has read what has come, and that becomes the answer.
TextPart ==
    /\ ~req.identity => shown = accumulated
    /\ pc = "begun" => shown = <<>>
    /\ pc \in Answered \cup {"introduced"} => answer = shown
    /\ citations # <<>> => citations = Citations(chunks) /\ pc \in Answered
    /\ req.identity => citations = <<>>

\* The verdict decides what is cited and stored.
EndPart ==
    /\ pc \in Ending => (passed \/ alerted) /\ cited = Final.citations
    /\ pc \notin Ending => cited = <<>>
    /\ IF pc = "stored"
       THEN stored = [text |-> Final.text, citations |-> Final.citations,
                      passed |-> passed, graded |-> graded]
       ELSE stored = NotStored

PipeInv == TypeOK /\ StagePart /\ TextPart /\ EndPart

------------------------------------------------------------------------------
\* What is retrieved is a short sequence of chunks in scope, and nothing is.
LEMMA RetrievalsType ==
  ASSUME NEW q \in Questions, NEW f \in Retrievals(q)
  PROVE  f \in Seq(Chunks) /\ Len(f) <= TopK /\ \A i \in DOMAIN f : f[i] \in Matches(q)
<1>1. PICK n \in 0..TopK : f \in [1..n -> Matches(q)]
  BY DEF Retrievals
<1>2. n \in Nat /\ n <= TopK
  BY <1>1, ConstantsAssumption
<1>3. Matches(q) \subseteq Chunks
  BY DEF Matches
<1>4. f \in [1..n -> Chunks]
  BY <1>1, <1>3
<1>5. f \in Seq(Chunks)
  BY <1>2, <1>4, SeqDef
<1>6. Len(f) = n
  BY <1>2, <1>4, <1>5, LenProperties
<1> QED
  BY <1>1, <1>2, <1>5, <1>6

\* The citations of a sequence of chunks are one link for each, in its order.
LEMMA CitationsType ==
  ASSUME NEW s \in Seq(Chunks)
  PROVE  /\ Citations(s) \in Seq([doc : Docs, chunk : Chunks])
         /\ DOMAIN Citations(s) = DOMAIN s
         /\ \A i \in DOMAIN s : Citations(s)[i].chunk = s[i]
<1>1. DOMAIN s = 1..Len(s) /\ Len(s) \in Nat
  BY LenProperties
<1>2. \A i \in DOMAIN s : s[i] \in Chunks
  BY <1>1, ElementOfSeq
<1>3. \A i \in DOMAIN s : [doc |-> DocOf[s[i]], chunk |-> s[i]] \in [doc : Docs, chunk : Chunks]
  BY <1>2, ConstantsAssumption
<1>4. \A R : (\A i \in DOMAIN s : [doc |-> DocOf[s[i]], chunk |-> s[i]] \in R) => Citations(s) \in Seq(R)
  <2> SUFFICES ASSUME NEW R, \A i \in DOMAIN s : [doc |-> DocOf[s[i]], chunk |-> s[i]] \in R
               PROVE  Citations(s) \in Seq(R)
    OBVIOUS
  <2>1. Citations(s) \in [1..Len(s) -> R]
    BY <1>1 DEF Citations
  <2> QED
    BY <1>1, <2>1, SeqDef
<1>5. Citations(s) \in Seq([doc : Docs, chunk : Chunks])
  BY <1>3, <1>4
<1> QED
  BY <1>1, <1>5 DEF Citations

\* The context numbers the chunks from 1.
LEMMA ContextType ==
  ASSUME NEW s \in Seq(Chunks), Len(s) <= TopK
  PROVE  Context(s) \subseteq (1..TopK) \X Chunks
<1>1. DOMAIN s = 1..Len(s) /\ Len(s) \in Nat
  BY LenProperties
<1>2. \A i \in DOMAIN s : s[i] \in Chunks /\ i \in 1..TopK
  BY <1>1, ElementOfSeq, ConstantsAssumption
<1> QED
  BY <1>2 DEF Context

\* There is nothing in the empty sequence.
LEMMA Nothing ==
  /\ <<>> \in Text /\ <<>> \in Seq(Chunks) /\ Len(<<>>) = 0 /\ DOMAIN <<>> = {}
  /\ <<>> \in Seq([doc : Docs, chunk : Chunks])
  /\ Context(<<>>) = {}
<1>1. <<>> \in Text /\ <<>> \in Seq(Chunks) /\ <<>> \in Seq([doc : Docs, chunk : Chunks])
  BY EmptySeq DEF Text
<1>2. Len(<<>>) = 0
  BY EmptySeq
<1>3. DOMAIN <<>> = {}
  BY <1>1, <1>2, LenProperties
<1> QED
  BY <1>1, <1>2, <1>3 DEF Context

------------------------------------------------------------------------------
\* Nothing has been found, sent or stored when the question is committed.
LEMMA InvInit == Init => PipeInv
<1> SUFFICES ASSUME Init PROVE PipeInv
  OBVIOUS
<1>1. TypeOK
  <2>1. <<>> \in Text /\ <<>> \in Seq(Chunks) /\ Len(<<>>) <= TopK
    BY Nothing, ConstantsAssumption
  <2>2. <<>> \in Seq([doc : Docs, chunk : Chunks])
    BY Nothing
  <2> QED
    BY <2>1, <2>2 DEF Init, TypeOK
<1>2. StagePart
  BY Nothing DEF Init, StagePart
<1>3. TextPart
  BY DEF Init, TextPart
<1>4. EndPart
  BY DEF Init, EndPart, Ending
<1> QED
  BY <1>1, <1>2, <1>3, <1>4 DEF PipeInv

\* Every step keeps the invariant, action by action and part by part.
LEMMA InvStep == PipeInv /\ [Next]_vars => PipeInv'
<1> SUFFICES ASSUME PipeInv, [Next]_vars PROVE PipeInv'
  OBVIOUS
<1>a. TypeOK /\ StagePart /\ TextPart /\ EndPart
  BY DEF PipeInv
<1>t. Introduction \in Text /\ Apology \in Text /\ Fallback \in Text
  BY TextsAssumption
<1>r. ASSUME Retrieve
      PROVE  /\ chunks' \in Seq(Chunks) /\ Len(chunks') <= TopK
             /\ \A i \in DOMAIN chunks' : chunks'[i] \in Matches(req)
  <2>1. req \in Questions /\ 0 <= TopK
    BY <1>a, ConstantsAssumption DEF TypeOK
  <2>2. CASE needs
    BY <1>r, <2>1, <2>2, RetrievalsType DEF Retrieve
  <2>3. CASE ~needs
    <3>1. chunks' = <<>>
      BY <1>r, <2>3 DEF Retrieve
    <3> QED
      BY <2>1, <3>1, Nothing
  <2> QED
    BY <2>2, <2>3
<1>1. CASE Introduce
  <2>1. TypeOK'
    BY <1>a, <1>1, <1>t DEF Introduce, Goto, TypeOK, state, stream
  <2>2. StagePart'
    BY <1>a, <1>1 DEF Introduce, Goto, StagePart, state, stream
  <2>3. TextPart'
    BY <1>a, <1>1 DEF Introduce, Goto, StagePart, TextPart, Answered, state, stream
  <2>4. EndPart'
    BY <1>a, <1>1 DEF Introduce, Goto, EndPart, Ending, Final, state, stream
  <2> QED
    BY <2>1, <2>2, <2>3, <2>4 DEF PipeInv
<1>2. CASE Plan
  <2>1. TypeOK'
    <3>1. NeedsRetrieval(req) \in BOOLEAN
      BY DEF NeedsRetrieval
    <3> QED
      BY <1>a, <1>2, <3>1 DEF Plan, Goto, TypeOK, stream
  <2>2. StagePart'
    BY <1>a, <1>2 DEF Plan, Goto, StagePart, state, stream
  <2>3. TextPart'
    BY <1>a, <1>2 DEF Plan, Goto, StagePart, TextPart, Answered, state, stream
  <2>4. EndPart'
    BY <1>a, <1>2 DEF Plan, Goto, EndPart, Ending, Final, state, stream
  <2> QED
    BY <2>1, <2>2, <2>3, <2>4 DEF PipeInv
<1>3. CASE Retrieve
  <2>1. TypeOK'
    <3>1. chunks' \in Seq(Chunks) /\ Len(chunks') <= TopK
      BY <1>a, <1>3, <1>r
    <3>2. prompt' \subseteq (1..TopK) \X Chunks
      BY <3>1, <1>3, ContextType DEF Retrieve
    <3> QED
      BY <1>a, <1>3, <3>1, <3>2 DEF Retrieve, Goto, TypeOK
  <2>2. StagePart'
    BY <1>a, <1>3, <1>r DEF Retrieve, Goto, StagePart, TypeOK
  <2>3. TextPart'
    BY <1>a, <1>3 DEF Retrieve, Goto, StagePart, TextPart, Answered, state, stream
  <2>4. EndPart'
    BY <1>a, <1>3 DEF Retrieve, Goto, EndPart, Ending, Final, state, stream
  <2> QED
    BY <2>1, <2>2, <2>3, <2>4 DEF PipeInv
<1>4. CASE StreamToken
  <2>1. TypeOK'
    <3>1. \A t \in Text, w \in Words \cup {Blank} : Append(t, w) \in Text
      BY AppendProperties DEF Text
    <3>2. accumulated' \in Text /\ shown' \in Text
      BY <1>a, <1>4, <3>1 DEF StreamToken, TypeOK
    <3> QED
      BY <1>a, <1>4, <3>2 DEF StreamToken, TypeOK, state
  <2>2. StagePart'
    BY <1>a, <1>4 DEF StreamToken, Goto, StagePart, state, stream
  <2>3. TextPart'
    BY <1>a, <1>4 DEF StreamToken, Goto, StagePart, TextPart, Answered, state, stream
  <2>4. EndPart'
    BY <1>a, <1>4 DEF StreamToken, Goto, EndPart, Ending, Final, state, stream
  <2> QED
    BY <2>1, <2>2, <2>3, <2>4 DEF PipeInv
<1>5. CASE StreamEnd
  <2>1. TypeOK'
    <3>1. Citations(chunks) \in Seq([doc : Docs, chunk : Chunks])
      BY <1>a, CitationsType DEF TypeOK
    <3> QED
      BY <1>a, <1>5, <3>1 DEF StreamEnd, TakeAnswer, Goto, TypeOK, stream
  <2>2. StagePart'
    BY <1>a, <1>5 DEF StreamEnd, TakeAnswer, Goto, StagePart, state, stream
  <2>3. TextPart'
    BY <1>a, <1>5 DEF StreamEnd, TakeAnswer, Goto, StagePart, TextPart, Answered, state, stream
  <2>4. EndPart'
    BY <1>a, <1>5 DEF StreamEnd, TakeAnswer, Goto, EndPart, Ending, Final, state, stream, StagePart
  <2> QED
    BY <2>1, <2>2, <2>3, <2>4 DEF PipeInv
<1>6. CASE StreamFails
  <2>1. TypeOK'
    <3>1. Citations(chunks) \in Seq([doc : Docs, chunk : Chunks])
      BY <1>a, CitationsType DEF TypeOK
    <3>2. accumulated' \in Text /\ shown' \in Text
      BY <1>a, <1>6, <1>t DEF StreamFails, TypeOK
    <3> QED
      BY <1>a, <1>6, <3>1, <3>2 DEF StreamFails, TakeAnswer, Goto, TypeOK
  <2>2. StagePart'
    BY <1>a, <1>6 DEF StreamFails, TakeAnswer, Goto, StagePart, state, stream
  <2>3. TextPart'
    BY <1>a, <1>6 DEF StreamFails, TakeAnswer, Goto, StagePart, TextPart, Answered, state, stream
  <2>4. EndPart'
    BY <1>a, <1>6 DEF StreamFails, TakeAnswer, Goto, EndPart, Ending, Final, state, stream, StagePart
  <2> QED
    BY <2>1, <2>2, <2>3, <2>4 DEF PipeInv
<1>7. CASE Guard
  <2>1. TypeOK'
    <3>1. Passes(req, chunks, answer) \in BOOLEAN
      BY DEF Passes
    <3> QED
      BY <1>a, <1>7, <3>1 DEF Guard, Goto, TypeOK, stream
  <2>2. StagePart'
    BY <1>a, <1>7 DEF Guard, Goto, StagePart, state, stream
  <2>3. TextPart'
    BY <1>a, <1>7 DEF Guard, Goto, StagePart, TextPart, Answered, state, stream
  <2>4. EndPart'
    BY <1>a, <1>7 DEF Guard, Goto, EndPart, Ending, Final, state, stream
  <2> QED
    BY <2>1, <2>2, <2>3, <2>4 DEF PipeInv
<1>8. CASE Evaluate
  <2>1. TypeOK'
    BY <1>a, <1>8 DEF Evaluate, Goto, TypeOK, state, stream
  <2>2. StagePart'
    BY <1>a, <1>8 DEF Evaluate, Goto, StagePart, state, stream
  <2>3. TextPart'
    BY <1>a, <1>8 DEF Evaluate, Goto, StagePart, TextPart, Answered, state, stream
  <2>4. EndPart'
    BY <1>a, <1>8 DEF Evaluate, Goto, EndPart, Ending, Final, state, stream
  <2> QED
    BY <2>1, <2>2, <2>3, <2>4 DEF PipeInv
<1>9. CASE Alert
  <2>1. TypeOK'
    BY <1>a, <1>9 DEF Alert, Goto, TypeOK, state, stream
  <2>2. StagePart'
    BY <1>a, <1>9 DEF Alert, Goto, StagePart, state, stream
  <2>3. TextPart'
    BY <1>a, <1>9 DEF Alert, Goto, StagePart, TextPart, Answered, state, stream
  <2>4. EndPart'
    BY <1>a, <1>9 DEF Alert, Goto, EndPart, Ending, Final, state, stream
  <2> QED
    BY <2>1, <2>2, <2>3, <2>4 DEF PipeInv
<1>10. CASE Cite
  <2>1. TypeOK'
    <3>1. Final.citations \in Seq([doc : Docs, chunk : Chunks])
      BY <1>a, Nothing DEF Final, TypeOK
    <3>2. cited' \in Seq([doc : Docs, chunk : Chunks])
      BY <1>10, <3>1, Nothing DEF Cite
    <3> QED
      BY <1>a, <1>10, <3>2 DEF Cite, Goto, TypeOK, state
  <2>2. StagePart'
    BY <1>a, <1>10 DEF Cite, Goto, StagePart, state, stream
  <2>3. TextPart'
    BY <1>a, <1>10 DEF Cite, Goto, StagePart, TextPart, Answered, state, stream
  <2>4. EndPart'
    BY <1>a, <1>10 DEF Cite, Goto, StagePart, TextPart, EndPart, Ending, Final, state
  <2> QED
    BY <2>1, <2>2, <2>3, <2>4 DEF PipeInv
<1>11. CASE Done
  <2>1. TypeOK'
    BY <1>a, <1>11 DEF Done, Goto, TypeOK, state, stream
  <2>2. StagePart'
    BY <1>a, <1>11 DEF Done, Goto, StagePart, state, stream
  <2>3. TextPart'
    BY <1>a, <1>11 DEF Done, Goto, StagePart, TextPart, Answered, state, stream
  <2>4. EndPart'
    BY <1>a, <1>11 DEF Done, Goto, EndPart, Ending, Final, state, stream
  <2> QED
    BY <2>1, <2>2, <2>3, <2>4 DEF PipeInv
<1>12. CASE Store
  <2>1. TypeOK'
    <3>1. Final.text \in Text /\ Final.citations \in Seq([doc : Docs, chunk : Chunks])
      BY <1>a, <1>t, Nothing DEF Final, TypeOK
    <3>2. stored' \in Messages
      BY <1>a, <1>12, <3>1 DEF Store, Messages, TypeOK
    <3> QED
      BY <1>a, <1>12, <3>2 DEF Store, Goto, TypeOK, state, stream
  <2>2. StagePart'
    BY <1>a, <1>12 DEF Store, Goto, StagePart, state, stream
  <2>3. TextPart'
    BY <1>a, <1>12 DEF Store, Goto, StagePart, TextPart, Answered, state, stream
  <2>4. EndPart'
    BY <1>a, <1>12 DEF Store, Goto, EndPart, Ending, Final, state, stream
  <2> QED
    BY <2>1, <2>2, <2>3, <2>4 DEF PipeInv
<1>13. CASE Leave
  <2>1. TypeOK'
    BY <1>a, <1>13 DEF Leave, Goto, TypeOK, state, stream
  <2>2. StagePart'
    BY <1>a, <1>13 DEF Leave, Goto, StagePart, state, stream
  <2>3. TextPart'
    BY <1>a, <1>13 DEF Leave, Goto, StagePart, TextPart, Answered, state, stream
  <2>4. EndPart'
    BY <1>a, <1>13 DEF Leave, Goto, EndPart, Ending, Final, state, stream
  <2> QED
    BY <2>1, <2>2, <2>3, <2>4 DEF PipeInv
<1>14. CASE UNCHANGED vars
  BY <1>a, <1>14 DEF PipeInv, TypeOK, StagePart, TextPart, EndPart, Final, vars, state, stream
<1> QED
  BY <1>1, <1>2, <1>3, <1>4, <1>5, <1>6, <1>7, <1>8, <1>9, <1>10, <1>11, <1>12, <1>13, <1>14 DEF Next

\* In every reachable state the run is where its texts and lists say it is.
THEOREM Invariance == Spec => []PipeInv
<1> QED
  BY InvInit, InvStep, PTL DEF Spec

\* Type correctness of StreamChat.
THEOREM Typing == Spec => []TypeOK
<1>1. PipeInv => TypeOK
  BY DEF PipeInv
<1> QED
  BY <1>1, Invariance, PTL

\* The answer in the history is the one the client read, or the client was told
\* that it was replaced; its citations are those it was sent.
THEOREM ShownIsStored == Spec => []StoredWasShown
<1>1. PipeInv => StoredWasShown
  <2> SUFFICES ASSUME PipeInv, stored # NotStored PROVE StoredWasShown
    BY DEF StoredWasShown
  <2>1. pc = "stored" /\ pc \in Ending /\ pc \in Answered
    BY DEF PipeInv, EndPart, Ending, Answered
  <2>2. stored.text = Final.text /\ stored.citations = Final.citations
    BY <2>1 DEF PipeInv, EndPart
  <2>3. cited = Final.citations /\ (passed \/ alerted)
    BY <2>1 DEF PipeInv, EndPart
  <2>4. Final.text = IF passed THEN answer ELSE Fallback
    BY DEF Final
  <2>5. answer = shown
    BY <2>1 DEF PipeInv, TextPart
  <2> QED
    BY <2>2, <2>3, <2>4, <2>5 DEF StoredWasShown
<1> QED
  BY <1>1, Invariance, PTL

\* The model is told and the client is cited nothing that is out of the user's
\* scope.
THEOREM ScopeSound == Spec => []OwnScopeOnly
<1>1. PipeInv => OwnScopeOnly
  <2> SUFFICES ASSUME PipeInv, NEW p \in prompt
               PROVE  Owner[DocOf[p[2]]] = User /\ (req.docs # {} => DocOf[p[2]] \in req.docs)
    BY DEF OwnScopeOnly
  <2>1. PICK i \in DOMAIN chunks : p = <<i, chunks[i]>>
    BY DEF PipeInv, StagePart, Context
  <2>2. chunks[i] \in Matches(req)
    BY DEF PipeInv, StagePart
  <2> QED
    BY <2>1, <2>2 DEF Matches
<1> QED
  BY <1>1, Invariance, PTL

\* The n-th citation is the chunk the model knows as [n].
THEOREM CitationsAgree == Spec => []CitationsMatchPrompt
<1>1. PipeInv => CitationsMatchPrompt
  <2> SUFFICES ASSUME PipeInv,
                      NEW list \in {cited} \cup (IF stored = NotStored THEN {} ELSE {stored.citations}),
                      list # <<>>
               PROVE  prompt = {<<i, list[i].chunk>> : i \in DOMAIN list}
    BY DEF CitationsMatchPrompt
  <2>1. cited = <<>> \/ cited = Final.citations
    BY DEF PipeInv, EndPart
  <2>2. stored # NotStored => stored.citations = Final.citations
    BY DEF PipeInv, EndPart
  <2>3. Final.citations = <<>> \/ Final.citations = citations
    BY DEF Final
  <2>4. list = Citations(chunks)
    BY <2>1, <2>2, <2>3 DEF PipeInv, TextPart
  <2>5. DOMAIN list = DOMAIN chunks /\ \A i \in DOMAIN chunks : list[i].chunk = chunks[i]
    BY <2>4, CitationsType DEF PipeInv, TypeOK
  <2>6. prompt = {<<i, chunks[i]>> : i \in DOMAIN chunks}
    BY DEF PipeInv, StagePart, Context
  <2> QED
    BY <2>5, <2>6
<1> QED
  BY <1>1, Invariance, PTL

------------------------------------------------------------------------------
\* Every step of the pipeline is one of the workflow or changes nothing of it.
LEMMA GraphStep == PipeInv /\ [Next]_vars => [Graph!Next]_(Graph!vars)
<1> SUFFICES ASSUME PipeInv, [Next]_vars PROVE [Graph!Next]_(Graph!vars)
  OBVIOUS
<1> USE DEF Graph!vars
<1>1. CASE Introduce
  BY <1>1 DEF Introduce, Goto, Node, Generated
<1>2. CASE Plan
  <2>1. Graph!Planner
    BY <1>2 DEF Plan, Goto, Node, Generated, Graph!Planner, NeedsRetrieval, Graph!NeedsRetrieval
  <2> QED
    BY <2>1 DEF Graph!Next
<1>3. CASE Retrieve
  <2>1. CASE needs
    <3>1. Graph!Retriever
      BY <1>3, <2>1 DEF Retrieve, Goto, Node, Generated, Graph!Retriever,
                        Retrievals, Graph!Retrievals, Matches, Graph!Matches
    <3> QED
      BY <3>1 DEF Graph!Next
  <2>2. CASE ~needs
    <3>1. chunks' = chunks
      BY <1>3, <2>2 DEF Retrieve, Goto, PipeInv, StagePart
    <3> QED
      BY <1>3, <2>2, <3>1 DEF Retrieve, Goto, Node, Generated
  <2> QED
    BY <2>1, <2>2
<1>4. CASE StreamToken
  BY <1>4 DEF StreamToken, Node, Generated, state
<1>5. CASE StreamEnd
  <2>1. Graph!Generator
    BY <1>5 DEF StreamEnd, TakeAnswer, Goto, Node, Generated, Graph!Generator, PipeInv, TypeOK,
                StagePart, Citations, Graph!Citations, Text, Graph!Text
  <2> QED
    BY <2>1 DEF Graph!Next
<1>6. CASE StreamFails
  <2>1. accumulated' \in Text
    BY <1>6, TextsAssumption DEF StreamFails, PipeInv, TypeOK
  <2>2. Graph!Generator
    BY <1>6, <2>1 DEF StreamFails, TakeAnswer, Goto, Node, Generated, Graph!Generator, PipeInv,
                      StagePart, Citations, Graph!Citations, Text, Graph!Text
  <2> QED
    BY <2>2 DEF Graph!Next
<1>7. CASE Guard
  <2>1. Passes(req, chunks, answer) = Graph!Passes(req, chunks, answer)
    <3>1. WordsOf(answer) = Graph!WordsOf(answer)
      BY DEF WordsOf, Graph!WordsOf
    <3>2. Sources(chunks) = Graph!Sources(chunks)
      BY DEF Sources, Graph!Sources
    <3>3. \A S : Cardinality(S) = Graph!Cardinality(S)
      BY Zenon DEF Cardinality, Graph!Cardinality
    <3>4. Grounded(chunks, answer) <=> Graph!Grounded(chunks, answer)
      BY <3>1, <3>2, <3>3 DEF Grounded, Graph!Grounded
    <3> QED
      BY <3>1, <3>4 DEF Passes, Graph!Passes
  <2>2. Generated = answer
    BY <1>7 DEF Guard, Goto, Generated, PipeInv, StagePart
  <2>3. Graph!Guardrail
    BY <1>7, <2>1, <2>2 DEF Guard, Goto, Node, Generated, Graph!Guardrail
  <2> QED
    BY <2>3 DEF Graph!Next
<1>8. CASE Evaluate
  <2>1. Graph!Evaluator
    BY <1>8 DEF Evaluate, Goto, Node, Generated, Graph!Evaluator, PipeInv, StagePart
  <2> QED
    BY <2>1 DEF Graph!Next
<1>9. CASE Alert
  BY <1>9 DEF Alert, Node, Generated, state
<1>10. CASE Cite
  BY <1>10 DEF Cite, Goto, Node, Generated, PipeInv, StagePart, state
<1>11. CASE Done
  BY <1>11 DEF Done, Goto, Node, Generated, state
<1>12. CASE Store
  BY <1>12 DEF Store, Goto, Node, Generated, state
<1>13. CASE Leave
  BY <1>13 DEF Leave, Node, Generated, state
<1>14. CASE UNCHANGED vars
  BY <1>14 DEF vars, Node, Generated, state
<1> QED
  BY <1>1, <1>2, <1>3, <1>4, <1>5, <1>6, <1>7, <1>8, <1>9, <1>10, <1>11, <1>12, <1>13, <1>14 DEF Next

\* The pipeline that stream_chat inlines implements the compiled workflow.
THEOREM Refinement == Spec => ImplementsGraph
<1>1. Init => Graph!Init
  BY DEF Init, Graph!Init, Node, Generated, Questions, Graph!Questions
<1> QED
  BY <1>1, Invariance, GraphStep, PTL DEF Spec, Graph!Spec, ImplementsGraph
=============================================================================
