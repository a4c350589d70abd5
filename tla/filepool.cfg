\* filepool: two threads resolve and drain a pool of two slots that one worker fills through a ring
\* of one; the backend is shut down and the pool destroyed at any moment.
SPECIFICATION FilePoolFairSpec
CONSTANTS
  Threads = {t1, t2}
  Chunks = {a, b}
  ChunkLength <- MCChunkLength
  Batches <- MCBatches
  Usage = {"resolve", "drain"}
  FillResults <- MCWholeReads
  NumSlots = 2
  MaxBatch = 1
  MaxTickets = 1
  GenMod = 2
  MaxDuplicates = 0
  Workers = {w1}
  Capacity = 1
  Closers = {c1}
  None = None
CHECK_DEADLOCK FALSE
INVARIANTS SameRequests OutlivesItsFills
PROPERTY CallsReturn
