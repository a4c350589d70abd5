\* algorithms: a source of seven bytes in chunks of three, every batch of two ranges;
\* every pool of three slots swept from every hand; every request of up to six bytes
\* against every file of up to six; every row of every file of up to
\* forty bytes, alignment three, read in pieces of up to thirty-six with the 32-bit words
\* of the code cut to five bits.
SPECIFICATION FairSpec
CONSTANTS
  WordMod = 16
  SourceBytes = 7
  SlotBytes = 3
  MaxBatchChunks = 4
  MaxRanges = 2
  NumSlots = 3
  StepMod = 8
  FileSizes <- MCFileSizes
  Offsets <- MCOffsets
  Lengths <- MCLengths
  Addresses <- MCAddresses
  Block = 2
  ReadCap = 4
  None = None
  KAlign = 3
  NarrowMod = 32
  MaxIocpChunk = 18
  MaxRowBytes = 33
  MaxChunkBytes = 36
  MaxFileBytes = 40
CHECK_DEADLOCK FALSE
INVARIANTS BatchCheckExact SegmentsTile SweepExact ReadsAreLegal CountIsHonest RowsCovered
PROPERTY Answered
