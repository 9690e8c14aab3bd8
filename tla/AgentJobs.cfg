CONSTANTS
  s1 = s1
  j1 = j1
  j2 = j2
  w1 = w1
  w2 = w2
  None = None
  Submissions = {s1}
  Jobs = {j1}
  Subject <- MCSubject
  Recurring = {j1}
  Advisory = {}
  Workers = {w1, w2}
  Attempts = 2
  Stalls = 1
  Pausable = TRUE
SPECIFICATION FairSpec
INVARIANTS
  NoDecisionDropped
PROPERTIES
  EveryJobEnds
CHECK_DEADLOCK FALSE
