SPECIFICATION FairSpec
CONSTANTS
  w1 = w1
  w2 = w2
  w3 = w3
  Caller = {w1, w2, w3}
  Threshold = 2
  Window = 3
  ResetTimeout = 3
  RedisFails = TRUE
  AdminResets = TRUE
PROPERTY ChannelRecovers
