SPECIFICATION ReportsFairSpec
CONSTANTS
  w1 = w1
  w2 = w2
  Webhook = {w1, w2}
  MaxStalls = 1
  Environments <- SomeFaults
CHECK_DEADLOCK FALSE
INVARIANTS AppliedOnce PostedIsApplied
PROPERTY WebhooksEnd
