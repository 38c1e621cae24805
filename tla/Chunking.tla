------------------------------ MODULE Chunking ------------------------------
(***************************************************************************)
(* What the background task makes of a document before it embeds it:       *)
(* agents/rag/parser.py keeps the pages that have text and their numbers,  *)
(* agents/rag/chunking.py cuts every page into overlapping chunks of words *)
(* and numbers the chunks through the document.  A chunk is the interval   *)
(* from .. to - 1 of the words of a page; a step is one pass of a loop.    *)
(***************************************************************************)
EXTENDS Integers, Sequences

CONSTANTS ChunkSize, Overlap,  \* chunk_pages's parameters, in characters
          WordsPerChunk,       \* approx_words_per_chunk
          OverlapWords,        \* overlap_words
          MaxPages,            \* bound on the pages of a document
          PageSizes            \* numbers of words a page may have

AtLeast(a, b) == IF a >= b THEN a ELSE b

\* max(chunk_size // 6, 50) and max(overlap // 6, 10).
ASSUME SizesAssumption ==
    /\ ChunkSize \in Nat /\ Overlap \in Nat
    /\ WordsPerChunk = AtLeast(ChunkSize \div 6, 50)
    /\ OverlapWords = AtLeast(Overlap \div 6, 10)

\* Both are only ever called with the defaults 1000 and 150.
ASSUME OverlapAssumption ==
    /\ WordsPerChunk \in Nat /\ OverlapWords \in Nat
    /\ OverlapWords < WordsPerChunk

ASSUME DocumentAssumption == MaxPages \in Nat /\ PageSizes \subseteq Nat

VARIABLES words,   \* words[p]: words of page p, 0 when no text comes out of it
          page,    \* the page being cut
          start,   \* _split_text's start
          chunks   \* the chunks made so far

vars == <<words, page, start, chunks>>

Init == /\ words \in UNION {[1..n -> PageSizes] : n \in 0..MaxPages}
        /\ page = 1
        /\ start = 0
        /\ chunks = <<>>

\* A slip of SkipBlank: the loop goes on without going to the next page.
SkipNone ==
    /\ page <= Len(words)
    /\ words[page] = 0
    /\ UNCHANGED vars

\* A page without text is not among extract_pages's pages.
SkipBlank ==
    /\ page <= Len(words)
    /\ words[page] = 0
    /\ page' = page + 1
    /\ UNCHANGED <<words, start, chunks>>

End == IF start + WordsPerChunk <= words[page] THEN start + WordsPerChunk ELSE words[page]

\* Slips of CutChunk: the overlap is skipped instead of repeated; it is one word
\* short.
CutWithGap ==
    /\ page <= Len(words)
    /\ start < words[page]
    /\ chunks' = Append(chunks, [page |-> page, index |-> Len(chunks), from |-> start, to |-> End])
    /\ IF End = words[page]
       THEN page' = page + 1 /\ start' = 0
       ELSE page' = page /\ start' = End + OverlapWords
    /\ UNCHANGED words

CutShortOverlap ==
    /\ page <= Len(words)
    /\ start < words[page]
    /\ chunks' = Append(chunks, [page |-> page, index |-> Len(chunks), from |-> start, to |-> End])
    /\ IF End = words[page]
       THEN page' = page + 1 /\ start' = 0
       ELSE page' = page /\ start' = End - OverlapWords + 1
    /\ UNCHANGED words

\* A slip of CutChunk: the loop does not break at the end of the page.
CutWithoutBreak ==
    /\ page <= Len(words)
    /\ start < words[page]
    /\ chunks' = Append(chunks, [page |-> page, index |-> Len(chunks), from |-> start, to |-> End])
    /\ start' = End - OverlapWords
    /\ UNCHANGED <<words, page>>

CutChunk ==
    /\ page <= Len(words)
    /\ start < words[page]
    /\ chunks' = Append(chunks, [page |-> page, index |-> Len(chunks), from |-> start, to |-> End])
    /\ IF End = words[page]
       THEN page' = page + 1 /\ start' = 0
       ELSE page' = page /\ start' = End - OverlapWords
    /\ UNCHANGED words

Next == SkipBlank \/ CutChunk

\* Nothing suspends the loop.
Spec == Init /\ [][Next]_vars /\ WF_vars(Next)

------------------------------------------------------------------------------
Finished == page > Len(words)

TypeOK == /\ words \in Seq(Nat)
          /\ page \in 1..Len(words) + 1
          /\ start \in Nat
          /\ chunks \in Seq([page : 1..Len(words), index : Nat, from : Nat, to : Nat])

\* Every word of every page ends up in some chunk of that page.
EveryWordCovered ==
    Finished => \A p \in 1..Len(words) : \A w \in 0..words[p] - 1 :
                  \E k \in 1..Len(chunks) : /\ chunks[k].page = p
                                            /\ chunks[k].from <= w /\ w < chunks[k].to

\* The chunk indexes count through the document without gap or repetition: the
\* collection's ids, made of the document id and the index, are distinct.
IndexIsPosition == \A k \in 1..Len(chunks) : chunks[k].index = k - 1

\* Within a page a chunk repeats exactly the last OverlapWords words of the one
\* before and always adds to it; a page's first chunk starts at its first word.
ChunksAdvance ==
    \A k \in 1..Len(chunks) :
      IF k > 1 /\ chunks[k - 1].page = chunks[k].page
      THEN /\ chunks[k].from = chunks[k - 1].to - OverlapWords
           /\ chunks[k].to > chunks[k - 1].to
      ELSE chunks[k].from = 0

\* No chunk is empty, longer than the limit, or reaches beyond its page.
ChunkBounded ==
    \A k \in 1..Len(chunks) : /\ chunks[k].from < chunks[k].to
                              /\ chunks[k].to <= chunks[k].from + WordsPerChunk
                              /\ chunks[k].to <= words[chunks[k].page]

\* Until every page is cut there is something to do on the present one: it is
\* blank, or words of it are left from start on.
WordsLeft == page <= Len(words) => words[page] = 0 \/ start < words[page]

\* Every pass ends a page or goes on further in it and not past its end: the
\* overlap never sends _split_text's start back to where it has been.
PassAdvances ==
    [][\/ page' = page + 1 /\ start' = 0
       \/ page' = page /\ start < start' /\ start' < words[page]]_vars

\* The loop ends on every document.
Terminates == <>Finished
=============================================================================
