\* slotpool_resolve: two threads resolve one chunk, or three of which two or three differ, through two
\* slots; an answer may be repeated.
SPECIFICATION Spec
CONSTANTS
  t1 = t1  t2 = t2  a = a  b = b  z = z
  Threads = {t1, t2}
  Chunks = {a, b, z}
  LastChunk = z
  ChunkLength <- MCChunkLength
  Batches <- MCPastThePool
  Usage = {"resolve"}
  FillResults <- MCShortResults
  NumSlots = 2
  MaxBatch = 3
  MaxTickets = 1
  GenMod = 2
  MaxDuplicates = 1
  None = None
SYMMETRY MCSymmetry
INVARIANTS TypeOK LeaseBytesValid PinsExact IndexConsistent FailedIsWaitedFor
PROPERTIES ExhaustionIsReal DuplicatesRejected
