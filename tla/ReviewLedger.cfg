CONSTANTS
  u1 = u1
  a1 = a1
  a2 = a2
  c1 = c1
  c2 = c2
  Users = {u1}
  Assignments = {a1, a2}
  Clients = {c1, c2}
  Owner <- MCOwner
  Rewards = {1}
  Bonuses = {0, 1}
  Recommendations = {0}
  EditXp = {1, 5}
  EditLevels = {1}
  EditCounts = {0}
  SetXpMax = 1
  MaxInt = 5
  LevelSpan = 2
SPECIFICATION Spec
SYMMETRY Symmetry
INVARIANTS
  StatusesAgree
  AwardFollowsPost
  TakedownHolds
  BalanceMatchesLedger
  ApprovalFits
PROPERTIES
  DecisionsAreFinal
  ImplementsLedger
