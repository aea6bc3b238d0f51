SPECIFICATION FairSpec
CONSTANTS
  r1 = r1
  r2 = r2
  r3 = r3
  r4 = r4
  may = may
  lesson = lesson
  course = course
  k1 = k1
  ali = ali
  sara = sara
  NoKey = noKey
  None = none
  Request = {r1, r2, r3, r4}
  Item = {may, lesson, course}
  KindOf <- Kind_
  StudentOf <- Student
  Price <- Prices
  Workloads <- AllWorkloads
INVARIANTS KeyPaysOnce NeverOverclaims CompletedIsCovered
PROPERTY EveryRequestAnswered
