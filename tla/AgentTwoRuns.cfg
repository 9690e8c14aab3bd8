CONSTANTS
  s1 = s1
  j1 = j1
  j2 = j2
  w1 = w1
  w2 = w2
  None = None
  Submissions = {s1}
  Jobs = {j1, j2}
  Subject <- MCSubject
  Recurring = {}
  Advisory = {}
  Workers = {w1, w2}
  Attempts = 1
  Stalls = 1
  Pausable = TRUE
SPECIFICATION Spec
SYMMETRY Symmetry
INVARIANTS
  DecidedOnce
CHECK_DEADLOCK FALSE
