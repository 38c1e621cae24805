----------------------------- MODULE MCChunking -----------------------------
(* Chunking with the code's own numbers: 166 words a chunk, 25 of overlap. *)
EXTENDS Chunking, TLC

\* Around every border: nothing, one word, exactly one chunk and one more, the
\* last chunk holding the overlap plus one word, several chunks.
MCPageSizes == {0, 1, 25, 166, 167, 306, 307, 308, 448, 600}
MCWordsPerChunk == AtLeast(ChunkSize \div 6, 50)
MCOverlapWords == AtLeast(Overlap \div 6, 10)

=============================================================================
