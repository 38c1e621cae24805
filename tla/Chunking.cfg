CONSTANTS
    ChunkSize = 1000
    Overlap = 150
    WordsPerChunk <- MCWordsPerChunk
    OverlapWords <- MCOverlapWords
    MaxPages = 2
    PageSizes <- MCPageSizes
SPECIFICATION Spec
INVARIANTS
    EveryWordCovered
    ChunksAdvance
PROPERTIES
    PassAdvances
    Terminates
CHECK_DEADLOCK FALSE
