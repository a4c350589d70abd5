\* transferset_live: under fair scheduling every wait and drain returns.
SPECIFICATION FairSpec
CONSTANTS
  Threads = {t1, t2}
  WordMod = 8
  SourceBytes = 3
  DestinationBytes = 3
  MaxClaims = 2
  GenMod = 2
  Submissions <- MCThreeRanges
  FillResults <- MCTwoByteResults
  MaxDuplicates = 0
  None = None
PROPERTY CallsReturn
