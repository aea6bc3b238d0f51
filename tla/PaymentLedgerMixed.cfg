SPECIFICATION FairSpec
CONSTANTS
  t1 = t1
  t2 = t2
  t3 = t3
  ali = ali
  sara = sara
  main = main
  System = system
  Free = free
  NoOrder = noOrder
  Tx = {t1, t2}
  User = {ali}
  Branch = {main}
  Orders <- MixedOrders
  FeesPercentage = 25
  MaxNegativeBalance = 1
  Opening <- SomeMoney
CHECK_DEADLOCK FALSE
INVARIANT NoOverdraft
PROPERTY EveryRequestEnds
