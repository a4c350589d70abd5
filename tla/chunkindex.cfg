\* chunkindex: four slots in an index of eight places, every placement of four chunks.
SPECIFICATION Spec
CONSTANTS
  Chunks = {c1, c2, c3, c4}
  Slots = {s1, s2, s3, s4}
  Size = 8
  Homes <- MCHomes
  None = None
SYMMETRY MCSymmetry
PROPERTY ImplementsMap
