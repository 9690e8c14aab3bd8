CONSTANTS
  c1 = c1
  c2 = c2
  None = None
  Clients = {c1, c2}
  Pool = 2
  MaxSessions = 3
  MaxTokens = 2
  MaxVersion = 2
SPECIFICATION Spec
SYMMETRY Symmetry
INVARIANTS
  OneLivePerFamily
  RefreshedIsCurrent
  CodesWorkOnce
CHECK_DEADLOCK FALSE
