CONSTANTS
  o1 = o1
  o2 = o2
  c1 = c1
  c2 = c2
  s1 = s1
  Nobody = Nobody
  Objects = {o1, o2}
  Devices = {c1, c2}
  Sweepers = {s1}
  MaxObjects = 1
SPECIFICATION MediaSpec
SYMMETRY Symmetry
INVARIANTS
  QuotaHolds
  BoundStaysStored
  ErasedStaysErased
