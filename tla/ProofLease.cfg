CONSTANTS
  s1 = s1
  s2 = s2
  w1 = w1
  w2 = w2
  None = None
  Submissions = {s1}
  Workers = {w1, w2}
  MaxAttempts = 3
  Acting = TRUE
SPECIFICATION FairSpec
INVARIANTS
  AnalysesBounded
  LeaseIsExclusive
PROPERTIES
  VerdictIsKept
  EveryProofSettles
CHECK_DEADLOCK FALSE
