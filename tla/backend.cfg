\* backend: two workers and three requests through a ring of two, two administrators and two
\* files, shut down and destroyed at any moment.
SPECIFICATION FairSpec
CONSTANTS
  s1 = s1  s2 = s2  q1 = q1  q2 = q2
  Workers = {w1, w2}
  Requests = {q1, q2, q3}
  Capacity = 2
  MaxSources = 1
  SourceOf <- MCSourceOf
  Misaligned = {q2}
  Length = 2
  FillResults <- MCFillResults
  Admins = {a1, a2}
  Files <- MCBothFiles
  Handles = {h1, h2}
  Closers = {owner, c1}
  Owner = owner
  None = None
CHECK_DEADLOCK FALSE
INVARIANTS OneKeeper StatsExact ShutdownIsFinal HandlesSafe
PROPERTIES AnswersEverything ShutdownReturns
