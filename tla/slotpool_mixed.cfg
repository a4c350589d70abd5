\* slotpool_mixed: every query, wait, drain and both kinds of hint compete for two
\* slots; the last chunk lands, the other fails.
SPECIFICATION Spec
CONSTANTS
  t1 = t1  t2 = t2  a = a  b = b  z = z
  Threads = {t1, t2}
  Chunks = {a, z}
  LastChunk = z
  ChunkLength <- MCChunkLength
  Batches <- MCAllBatches
  Usage = {"prefetch", "resolve", "try_resolve", "wait", "drain", "wont_need"}
  FillResults <- MCOneUnit
  NumSlots = 2
  MaxBatch = 1
  MaxTickets = 1
  GenMod = 2
  MaxDuplicates = 0
  None = None
SYMMETRY MCSymmetry
INVARIANTS NoTerminate SleepersHaveCause
PROPERTY SpeculativeDisplacesNothing
