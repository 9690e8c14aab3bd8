CONSTANTS
  e1 = e1
  e2 = e2
  p1 = p1
  p2 = p2
  w1 = w1
  w2 = w2
  None = None
  Events = {e1}
  Publishers = {p1, p2}
  Workers = {w1, w2}
  Attempts = 2
  Stalls = 1
SPECIFICATION FairOutboxSpec
INVARIANTS
  AckedMeansQueued
  RepeatsArePaid
PROPERTIES
  ImplementsDelivery
  EveryEventIsDelivered
CHECK_DEADLOCK FALSE
