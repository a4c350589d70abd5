\* transferset_claims: two threads claim ranges side by side and overlapping through two records; an
\* answer may be repeated.
SPECIFICATION Spec
CONSTANTS
  Threads = {t1, t2}
  WordMod = 8
  SourceBytes = 3
  DestinationBytes = 3
  MaxClaims = 2
  GenMod = 3
  Submissions <- MCSubmissions
  FillResults <- MCFillResults
  MaxDuplicates = 1
  None = None
SYMMETRY MCSymmetry
INVARIANTS WritersExclusive ClaimBytesValid RecordsExact
PROPERTIES ImplementsLedger DuplicatesRejected
