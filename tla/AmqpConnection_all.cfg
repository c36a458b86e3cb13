SPECIFICATION FairSpec
CONSTANTS
  w1 = w1
  w2 = w2
  Workers <- MCWorkers
  Offers = {0, 4, 9}
  Heartbeat = 5
  DEFAULT_HEARTBEAT = 3
  Jitter = 1
  MaxTasks = 2
CHECK_DEADLOCK FALSE
INVARIANTS
  ConnectionInv
  SilenceIsBounded
PROPERTY
  EndIsReached
