SPECIFICATION Spec
CONSTANTS
  t1 = t1
  t2 = t2
  t3 = t3
  ali = ali
  sara = sara
  main = main
  System = system
  Free = free
  NoOrder = noOrder
  Tx = {t1, t2, t3}
  User = {ali, sara}
  Branch = {main}
  Orders <- OneWayOrders
  FeesPercentage = 25
  MaxNegativeBalance = 1
  Opening <- TwoStudents
SYMMETRY RequestSymmetry
CHECK_DEADLOCK FALSE
INVARIANTS AuditTrail OneWayNeverDeadlocks WalletMoneyConserved
PROPERTY PaymentsAreAtomic
