\* slotpool_hints: two threads share two slots and two tickets, wait for them and
\* drop them; a batch may name a chunk twice; the last chunk lands, the
\* other fails.
SPECIFICATION Spec
CONSTANTS
  t1 = t1  t2 = t2  a = a  b = b  z = z
  Threads = {t1, t2}
  Chunks = {a, z}
  LastChunk = z
  ChunkLength <- MCChunkLength
  Batches <- MCTailBatches
  Usage = {"prefetch", "wait"}
  FillResults <- MCOneUnit
  NumSlots = 2
  MaxBatch = 2
  MaxTickets = 2
  GenMod = 2
  MaxDuplicates = 0
  None = None
SYMMETRY MCSymmetry
INVARIANTS TicketTracking FillsMatchRequests
PROPERTY UnboundedWaitIsTerminal
