--------------------------- MODULE ChunkingProofs ---------------------------
(***************************************************************************)
(* For documents of any length, and any chunk and overlap sizes with the   *)
(* overlap below the chunk: the chunks cover every word, their indexes are *)
(* positions, neighbours overlap as configured and no chunk is oversized.  *)
(***************************************************************************)
EXTENDS Chunking, TLAPS

Chunk == [page : Nat, index : Nat, from : Nat, to : Nat]

\* How far the page being cut is covered.
Reached == IF start = 0 THEN 0 ELSE start + OverlapWords

Covers(c, p, w) == c.page = p /\ c.from <= w /\ w < c.to
Covered(p, n) == \A w \in Nat : w < n => \E k \in 1..Len(chunks) : Covers(chunks[k], p, w)

Types == /\ words \in Seq(Nat)
         /\ page \in Nat /\ 1 <= page /\ page <= Len(words) + 1
         /\ start \in Nat
         /\ chunks \in Seq(Chunk)

\* The loop stands at the first word of a page no chunk is of, or OverlapWords
\* before the end of the last chunk.
LoopPart ==
    /\ page = Len(words) + 1 => start = 0
    /\ start > 0 => /\ start + OverlapWords < words[page]
                    /\ Len(chunks) > 0
                    /\ chunks[Len(chunks)].page = page
                    /\ chunks[Len(chunks)].to = start + OverlapWords
    /\ start = 0 => \A k \in 1..Len(chunks) : chunks[k].page < page

PagePart == \A k \in 1..Len(chunks) : 1 <= chunks[k].page /\ chunks[k].page <= page
                                      /\ chunks[k].page <= Len(words)

CoverPart == /\ \A p \in 1..Len(words) : p < page => Covered(p, words[p])
             /\ Covered(page, Reached)

ChunkInv == Types /\ LoopPart /\ PagePart /\ CoverPart /\ IndexIsPosition /\ ChunksAdvance /\ ChunkBounded

\* The fields of a chunk of the sequence are numbers.
LEMMA ChunkFields ==
  ASSUME chunks \in Seq(Chunk), NEW k \in 1..Len(chunks)
  PROVE  chunks[k].page \in Nat /\ chunks[k].from \in Nat /\ chunks[k].to \in Nat
<1>1. chunks[k] \in Chunk
  OBVIOUS
<1>2. QED
  BY <1>1 DEF Chunk

\* The invariant holds before the first page is read (chunk_pages' locals).
LEMMA InitInv == Init => ChunkInv
<1> SUFFICES ASSUME Init PROVE ChunkInv
  OBVIOUS
<1> USE DocumentAssumption
<1>1. words \in Seq(Nat) /\ Len(words) \in Nat
  <2>1. PICK n \in 0..MaxPages : words \in [1..n -> PageSizes]
    BY DEF Init
  <2>2. n \in Nat
    BY <2>1
  <2>3. \A i \in 1..n : words[i] \in Nat
    BY <2>1
  <2>4. words \in [1..n -> Nat]
    BY <2>1, <2>3, Zenon
  <2>5. words \in Seq(Nat) /\ Len(words) = n
    BY <2>2, <2>4
  <2>6. QED
    BY <2>2, <2>5
<1>2. QED
  BY <1>1 DEF Init, ChunkInv, Types, LoopPart, PagePart, CoverPart, Covered, Reached,
              IndexIsPosition, ChunksAdvance, ChunkBounded, Chunk

\* A page without words leaves the invariant alone: nothing is cut from it.
LEMMA SkipInv == ChunkInv /\ SkipBlank => ChunkInv'
<1> SUFFICES ASSUME ChunkInv, SkipBlank PROVE ChunkInv'
  OBVIOUS
<1> USE DEF ChunkInv, Types, LoopPart, SkipBlank
<1>1. start = 0 /\ page \in 1..Len(words)
  BY OverlapAssumption
<1>2. Types' /\ PagePart'
  <2>1. page' = page + 1 /\ UNCHANGED <<words, start, chunks>> /\ Len(words) \in Nat
    OBVIOUS
  <2>2. Types'
    BY <1>1, <2>1
  <2>3. \A k \in 1..Len(chunks) : chunks[k].page \in Nat
    BY ChunkFields
  <2>4. PagePart'
    BY <1>1, <2>1, <2>3 DEF PagePart
  <2>5. QED
    BY <2>2, <2>4
<1>3. LoopPart'
  <2>1. \A k \in 1..Len(chunks) : chunks[k].page \in Nat
    BY ChunkFields
  <2>2. QED
    BY <1>1, <2>1 DEF PagePart
<1>4. CoverPart'
  <2>1. ASSUME NEW p \in 1..Len(words), p < page' PROVE Covered(p, words[p])'
    BY <1>1, <2>1 DEF CoverPart, Covered
  <2>2. Covered(page, Reached)'
    BY <1>1 DEF Covered, Reached
  <2>3. QED
    BY <2>1, <2>2 DEF CoverPart
<1>5. IndexIsPosition' /\ ChunksAdvance' /\ ChunkBounded'
  BY DEF IndexIsPosition, ChunksAdvance, ChunkBounded
<1>6. QED
  BY <1>2, <1>4, <1>5, <1>3

\* Cutting one chunk, at the end of a page or inside it, preserves the invariant.
LEMMA CutInv == ChunkInv /\ CutChunk => ChunkInv'
<1> SUFFICES ASSUME ChunkInv, CutChunk PROVE ChunkInv'
  OBVIOUS
<1> DEFINE new == [page |-> page, index |-> Len(chunks), from |-> start, to |-> End]
<1> USE OverlapAssumption
<1>1. /\ page \in 1..Len(words) /\ words[page] \in Nat /\ start < words[page]
      /\ start \in Nat /\ chunks \in Seq(Chunk) /\ Len(chunks) \in Nat
  BY DEF ChunkInv, Types, CutChunk
<1>2. End \in Nat /\ start < End /\ End <= start + WordsPerChunk /\ End <= words[page]
  BY <1>1 DEF End
<1>3. End < words[page] => End = start + WordsPerChunk
  BY <1>1 DEF End
<1>4. new \in Chunk
  BY <1>1, <1>2 DEF Chunk
<1>5. chunks' = Append(chunks, new) /\ words' = words
  BY DEF CutChunk
<1> HIDE DEF new
<1>6. /\ Len(chunks') = Len(chunks) + 1
      /\ chunks' \in Seq(Chunk)
      /\ chunks'[Len(chunks')] = new
      /\ \A k \in 1..Len(chunks) : chunks'[k] = chunks[k]
  BY <1>1, <1>4, <1>5
<1>7. new.page = page /\ new.index = Len(chunks) /\ new.from = start /\ new.to = End
  BY DEF new
<1>8. \/ End = words[page] /\ page' = page + 1 /\ start' = 0
      \/ End < words[page] /\ page' = page /\ start' = End - OverlapWords /\ start' \in Nat /\ start' > 0
  BY <1>1, <1>2, <1>3 DEF CutChunk
<1>9. \A k \in 1..Len(chunks) : chunks[k].page \in Nat /\ chunks[k].to \in Nat /\ chunks[k].from \in Nat
  BY <1>1, ChunkFields
<1>10. \A k \in 1..Len(chunks') : k \in 1..Len(chunks) \/ k = Len(chunks')
  BY <1>1, <1>6
<1>11. Len(words) \in Nat /\ Len(words') = Len(words) /\ words' = words
  BY <1>5 DEF ChunkInv, Types
<1>12. /\ LoopPart /\ PagePart /\ CoverPart
       /\ IndexIsPosition /\ ChunksAdvance /\ ChunkBounded
  BY DEF ChunkInv
<1>13. Types'
  BY <1>1, <1>5, <1>6, <1>8 DEF ChunkInv, Types
<1>14. PagePart'
  <2> SUFFICES ASSUME NEW k \in 1..Len(chunks')
               PROVE  1 <= chunks'[k].page /\ chunks'[k].page <= page' /\ chunks'[k].page <= Len(words')
    BY DEF PagePart
  <2>1. CASE k \in 1..Len(chunks)
    BY <1>1, <1>6, <1>8, <1>9, <1>11, <1>12, <2>1 DEF PagePart
  <2>2. CASE k = Len(chunks')
    BY <1>1, <1>6, <1>7, <1>8, <1>11, <2>2
  <2>3. QED
    BY <1>10, <2>1, <2>2
<1>15. LoopPart'
  <2>1. CASE End = words[page] /\ page' = page + 1 /\ start' = 0
    <3>1. ASSUME NEW k \in 1..Len(chunks') PROVE chunks'[k].page < page'
      <4>1. CASE k \in 1..Len(chunks)
        BY <1>1, <1>6, <1>9, <1>12, <2>1, <4>1 DEF PagePart
      <4>2. CASE k = Len(chunks')
        BY <1>1, <1>6, <1>7, <2>1, <4>2
      <4>3. QED
        BY <1>10, <4>1, <4>2
    <3>2. QED
      BY <2>1, <3>1 DEF LoopPart
  <2>2. CASE End < words[page] /\ page' = page /\ start' = End - OverlapWords /\ start' \in Nat /\ start' > 0
    BY <1>1, <1>2, <1>6, <1>7, <1>11, <2>2 DEF LoopPart
  <2>3. QED
    BY <1>8, <2>1, <2>2
<1>16. CoverPart'
  <2>1. ASSUME NEW p, NEW n, Covered(p, n) PROVE Covered(p, n)'
    BY <1>1, <1>6, <2>1 DEF Covered
  <2>3. Covered(page, Reached)
    BY DEF ChunkInv, CoverPart
  <2>4. ASSUME NEW w \in Nat, w < End
        PROVE  \E k \in 1..Len(chunks') : Covers(chunks'[k], page, w)
    <3>1. CASE w < start
      <4>1. w < Reached /\ Reached \in Nat
        BY <1>1, <2>4, <3>1 DEF Reached
      <4>2. PICK k \in 1..Len(chunks) : Covers(chunks[k], page, w)
        BY <2>3, <2>4, <4>1 DEF Covered
      <4>3. k \in 1..Len(chunks') /\ chunks'[k] = chunks[k]
        BY <1>1, <1>6, <4>2
      <4>4. QED
        BY <4>2, <4>3
    <3>2. CASE w >= start
      BY <1>1, <1>6, <1>7, <2>4, <3>2 DEF Covers
    <3>3. QED
      BY <1>1, <3>1, <3>2
  <2>5. CASE End = words[page] /\ page' = page + 1 /\ start' = 0
    <3>1. ASSUME NEW p \in 1..Len(words'), p < page' PROVE Covered(p, words[p])'
      <4>1. CASE p = page
        BY <1>5, <2>4, <2>5, <4>1 DEF Covered
      <4>2. CASE p # page
        <5>1. p \in 1..Len(words) /\ p < page
          BY <1>1, <1>11, <2>5, <3>1, <4>2
        <5>2. Covered(p, words[p])
          BY <1>12, <5>1 DEF CoverPart
        <5>3. Covered(p, words[p])'
          BY <1>11, <2>1, <5>2 DEF Covered
        <5>4. QED
          BY <5>3
      <4>3. QED
        BY <4>1, <4>2
    <3>2. Covered(page, Reached)'
      BY <2>5 DEF Covered, Reached
    <3>3. QED
      BY <3>1, <3>2 DEF CoverPart
  <2>6. CASE End < words[page] /\ page' = page /\ start' = End - OverlapWords /\ start' > 0
    <3>1. Reached' = End
      BY <1>1, <1>2, <2>6 DEF Reached
    <3>2. Covered(page, Reached)'
      BY <2>4, <2>6, <3>1 DEF Covered
    <3>3. ASSUME NEW p \in 1..Len(words'), p < page' PROVE Covered(p, words[p])'
      BY <1>1, <1>5, <2>1, <2>6, <3>3 DEF ChunkInv, CoverPart, Covered
    <3>4. QED
      BY <3>2, <3>3 DEF CoverPart
  <2>7. QED
    BY <1>8, <2>5, <2>6
<1>17. IndexIsPosition'
  BY <1>1, <1>6, <1>7 DEF ChunkInv, IndexIsPosition
<1>18. ChunksAdvance'
  <2> SUFFICES ASSUME NEW k \in 1..Len(chunks')
               PROVE IF k > 1 /\ chunks'[k - 1].page = chunks'[k].page
                     THEN /\ chunks'[k].from = chunks'[k - 1].to - OverlapWords
                          /\ chunks'[k].to > chunks'[k - 1].to
                     ELSE chunks'[k].from = 0
    BY DEF ChunksAdvance
  <2>1. CASE k \in 1..Len(chunks)
    <3>1. chunks'[k] = chunks[k] /\ (k > 1 => k - 1 \in 1..Len(chunks) /\ chunks'[k - 1] = chunks[k - 1])
      BY <1>1, <1>6, <2>1
    <3>2. QED
      BY <1>12, <2>1, <3>1 DEF ChunksAdvance
  <2>2. CASE k = Len(chunks) + 1 /\ start = 0
    BY <1>1, <1>6, <1>7, <2>2 DEF ChunkInv, LoopPart
  <2>3. CASE k = Len(chunks) + 1 /\ start > 0
    BY <1>1, <1>2, <1>3, <1>6, <1>7, <2>3 DEF ChunkInv, LoopPart
  <2>4. QED
    BY <1>1, <1>6, <2>1, <2>2, <2>3
<1>19. ChunkBounded'
  BY <1>1, <1>2, <1>5, <1>6, <1>7 DEF ChunkInv, ChunkBounded
<1>20. QED
  BY <1>13, <1>15, <1>14, <1>16, <1>17, <1>18, <1>19 DEF ChunkInv

\* The strengthened invariant holds in every reachable state.
THEOREM Invariance == Spec => []ChunkInv
<1>1. ChunkInv /\ UNCHANGED vars => ChunkInv'
  BY DEF ChunkInv, vars, Types, LoopPart, PagePart, CoverPart, Covered, Reached, IndexIsPosition,
         ChunksAdvance, ChunkBounded
<1>2. ChunkInv /\ [Next]_vars => ChunkInv'
  BY <1>1, SkipInv, CutInv DEF Next
<1>3. QED
  BY InitInv, <1>2, PTL DEF Spec

\* Indexing loses no word of the document.
THEOREM Coverage == Spec => []EveryWordCovered
<1>1. ChunkInv => EveryWordCovered
  <2> SUFFICES ASSUME ChunkInv, Finished, NEW p \in 1..Len(words), NEW w \in 0..words[p] - 1
               PROVE  \E k \in 1..Len(chunks) : /\ chunks[k].page = p
                                                /\ chunks[k].from <= w /\ w < chunks[k].to
    BY DEF EveryWordCovered
  <2>1. words[p] \in Nat /\ p < page
    BY DEF ChunkInv, Types, Finished
  <2>2. Covered(p, words[p])
    BY <2>1 DEF ChunkInv, CoverPart
  <2>3. QED
    BY <2>1, <2>2 DEF Covered, Covers
<1>2. QED
  BY <1>1, Invariance, PTL

\* Chunk ids are distinct, neighbours overlap as configured and always advance,
\* and no chunk is empty, oversized or beyond its page.
THEOREM ChunksWellFormed == Spec => [](IndexIsPosition /\ ChunksAdvance /\ ChunkBounded)
<1>1. ChunkInv => IndexIsPosition /\ ChunksAdvance /\ ChunkBounded
  BY DEF ChunkInv
<1>2. QED
  BY <1>1, Invariance, PTL

\* What Terminates rests on, for every document and all sizes: as long as pages
\* are left a pass is possible, and every pass comes closer to the end of its
\* page or ends it, so that a page of n words takes at most n passes.
THEOREM Measure == Spec => []WordsLeft /\ PassAdvances
<1>1. ChunkInv => WordsLeft
  BY OverlapAssumption DEF ChunkInv, Types, LoopPart, WordsLeft
<1>2. ASSUME ChunkInv, CutChunk
      PROVE  \/ page' = page + 1 /\ start' = 0
             \/ page' = page /\ start < start' /\ start' < words[page]
  <2>1. /\ page \in 1..Len(words) /\ words[page] \in Nat /\ start \in Nat /\ start < words[page]
        /\ WordsPerChunk \in Nat /\ OverlapWords \in Nat /\ OverlapWords < WordsPerChunk
    BY <1>2, OverlapAssumption DEF ChunkInv, Types, CutChunk
  <2>2. CASE End = words[page]
    BY <1>2, <2>2 DEF CutChunk
  <2>3. CASE End # words[page]
    <3>1. End = start + WordsPerChunk /\ End < words[page]
      BY <2>1, <2>3 DEF End
    <3>2. page' = page /\ start' = End - OverlapWords
      BY <1>2, <2>3 DEF CutChunk
    <3>3. start < start' /\ start' < words[page]
      BY <2>1, <3>1, <3>2
    <3>4. QED
      BY <3>2, <3>3
  <2>4. QED
    BY <2>2, <2>3
<1>3. ASSUME ChunkInv, SkipBlank
      PROVE  page' = page + 1 /\ start' = 0
  BY <1>3, OverlapAssumption DEF ChunkInv, Types, LoopPart, SkipBlank
<1>4. ChunkInv /\ [Next]_vars =>
        [\/ page' = page + 1 /\ start' = 0
         \/ page' = page /\ start < start' /\ start' < words[page]]_vars
  BY <1>2, <1>3 DEF Next
<1>5. QED
  BY Invariance, <1>1, <1>4, PTL DEF Spec, PassAdvances
=============================================================================
