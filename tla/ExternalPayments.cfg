SPECIFICATION FairSpec
CONSTANTS
  completed = completed
  p1 = p1
  p2 = p2
  d1 = d1
  d2 = d2
  Payment = {p1, p2}
  Delivery = {d1, d2}
  of <- BothOfOne
  Matchings <- SomeMatch
  Outcomes = {completed}
  FailureThreshold = 1
  MaxCrashes = 1
CHECK_DEADLOCK FALSE
INVARIANTS ProcessedIsDecided StuckOnlyIfAbandoned
PROPERTIES PendingEnds DeliveriesEnd
