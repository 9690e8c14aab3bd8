CONSTANTS
  u1 = u1
  c1 = c1
  c2 = c2
  None = None
  Users = {u1}
  Clients = {c1, c2}
  Cooldown = 2
  Day = 3
  Budget = 1
  MaxQuests = 2
  MaxRolls = 3
  MaxTime = 6
SPECIFICATION LiveSpec
INVARIANTS
  InsertFindsRoom
  BudgetHolds
PROPERTIES
  ProofIsKept
  EveryRequestEnds
CHECK_DEADLOCK FALSE
