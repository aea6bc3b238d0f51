SPECIFICATION Spec
CONSTANTS
  e1 = e1
  e2 = e2
  update = update
  refund1 = refund1
  refund2 = refund2
  class = class
  session = session
  r1 = r1
  r2 = r2
  r3 = r3
  k = k
  NoKey = NoKey
  Nobody = Nobody
  Expense = {e1, e2}
  Amount <- Cost
  KeyOf <- SameKey
  Change = {update, refund1, refund2}
  changeKind <- ChangeKinds
  changeOf <- OfFirst
  Payout = {class, session}
  Unit <- Units
  Price <- Prices
  PayRequest = {r1, r2, r3}
  PayWorkloads <- SomeWorkloads
  Opening = 3
PROPERTIES ExpensesSeeAnEnvironment
CHECK_DEADLOCK FALSE
INVARIANTS PaidBackOnce RefundedIsPaidBack KeyPaysOnce NeverOverclaims RecordTellsMoney BoxAddsUp
