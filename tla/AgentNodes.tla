----------------------------- MODULE AgentNodes -----------------------------
(***************************************************************************)
(* What the nodes of agents/graph/nodes compute, for one question of User. *)
(* A text is a sequence of words and white space; a chunk of a document is *)
(* known by the words in it.  Which chunks score well and what the model   *)
(* answers is left open.                                                   *)
(***************************************************************************)
EXTENDS Integers, Sequences, FiniteSets

CONSTANTS User,        \* who asks
          Docs, Owner, \* indexed documents, Owner[d]
          Chunks, DocOf, Content, \* their chunks, DocOf[c], Content[c]: its words
          Words,
          Blank,       \* white space
          Flagged,     \* words of an injection pattern or a toxic term
          MinOverlap,  \* words an answer must share with its sources
          TopK         \* chunks retrieved at most

ASSUME ConstantsAssumption ==
    /\ DocOf \in [Chunks -> Docs]
    /\ Content \in [Chunks -> SUBSET Words]
    /\ Blank \notin Words /\ Flagged \subseteq Words
    /\ MinOverlap \in Nat /\ TopK \in Nat

\* document_ids, a retrieval keyword in the query, an injection pattern in the
\* query, a question for the assistant's name.
Questions == [docs : SUBSET Docs, hint : BOOLEAN, suspicious : BOOLEAN, identity : BOOLEAN]

Text == Seq(Words \cup {Blank})

\* planner_node
NeedsRetrieval(q) == q.docs # {} \/ q.hint

\* A slip of Matches: documents that are named need not be the user's.
NamedOnly(q) == {c \in Chunks : IF q.docs = {} THEN Owner[DocOf[c]] = User ELSE DocOf[c] \in q.docs}

\* The where clause of VectorStore.query; no document named means all of them.
Matches(q) == {c \in Chunks : Owner[DocOf[c]] = User /\ (q.docs # {} => DocOf[c] \in q.docs)}

\* retriever_node: the best matches that are relevant enough, in the order of
\* their scores; nothing when the embedding or the search fails.
Retrievals(q) == {f \in UNION {[1..n -> Matches(q)] : n \in 0..TopK} :
                    \A i, j \in DOMAIN f : f[i] = f[j] => i = j}

\* A slip of Context: the numbers start again in the section of each document.
NumberedBySection(chunks) ==
    {<<Cardinality({j \in 1..i : DocOf[chunks[j]] = DocOf[chunks[i]]}), chunks[i]>> : i \in DOMAIN chunks}

\* build_messages: the context lists the chunks under their documents, each
\* with the number it was retrieved at.
Context(chunks) == {<<i, chunks[i]>> : i \in DOMAIN chunks}

\* build_citations: a title and a link for each chunk.
Citations(chunks) == [i \in DOMAIN chunks |-> [doc |-> DocOf[chunks[i]], chunk |-> chunks[i]]]

WordsOf(text) == {text[i] : i \in DOMAIN text} \ {Blank}

\* The words of the retrieved chunks.
Sources(chunks) == UNION {Content[chunks[i]] : i \in DOMAIN chunks}

\* _is_grounded
Grounded(chunks, answer) ==
    chunks = <<>> \/ Cardinality(WordsOf(answer) \cap Sources(chunks)) >= MinOverlap

\* guardrail_node
Passes(q, chunks, answer) ==
    /\ WordsOf(answer) # {}
    /\ ~q.suspicious
    /\ WordsOf(answer) \cap Flagged = {}
    /\ Grounded(chunks, answer)
=============================================================================
