\* shootout: two rounds of four rows in three pieces through two slots, three workers.
SPECIFICATION Spec
CONSTANTS
  KSlots = 2
  Misses = 4
  NumPieces = 3
  Rounds = 2
  Readers = {w1, w2, w3}
  GenMod = 3
  None = None
INVARIANTS RowsStay QuietBetweenReads NeverRefused
PROPERTY EndsEveryRound
