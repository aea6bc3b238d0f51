SPECIFICATION Spec
CONSTANTS
  r1 = r1
  r2 = r2
  r3 = r3
  s1 = s1
  s2 = s2
  s3 = s3
  g1 = g1
  g2 = g2
  h = h
  algebra = algebra
  biology = biology
  Request = {r1, r2, r3}
  Student = {s1, s2, s3}
  Group = {g1, g2, h}
  ClassOf <- Classes
  Clash <- SameHour
  Scenarios <- SomeScenarios
  Perishable = {g1}
  Nobody = Nobody
  NoSeat = NoSeat
INVARIANTS SeatsFit 
PROPERTY EveryRequestAnswered
CHECK_DEADLOCK FALSE
