\* backend_second_shutdown: a shutdown that overlaps another one.
SPECIFICATION Spec
CONSTANTS
  s1 = s1  s2 = s2  q1 = q1  q2 = q2
  Workers = {w1}
  Requests = {q1, q2}
  Capacity = 2
  MaxSources = 1
  SourceOf <- MCSourceOf
  Misaligned = {q2}
  Length = 2
  FillResults <- MCWholeReads
  Admins = {}
  Files <- MCBuffered
  Handles = {h1}
  Closers = {owner, c1, c2}
  Owner = owner
  None = None
CHECK_DEADLOCK FALSE
SYMMETRY MCSymmetry
INVARIANT ShutdownJoins
