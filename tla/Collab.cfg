CONSTANTS
  u1 = u1
  u2 = u2
  u3 = u3
  g1 = g1
  c1 = c1
  c2 = c2
  None = None
  Users = {u1, u2, u3}
  Groups = {g1}
  Clients = {c1, c2}
  MaxMembers = 2
  MaxQuests = 3
SPECIFICATION Spec
SYMMETRY Symmetry
INVARIANTS
  SeatsFit
  VacatedSlotsReopen
CHECK_DEADLOCK FALSE
