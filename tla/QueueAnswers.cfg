CONSTANTS
  Manager = {m1, m2}
  Consumer = {c1}
  Call = {k1, k2, k3}
  NoConsumer = NoConsumer
  Lease = 1
  Delays = {0}
  MaxItems = 1
  MaxLimit = 1
  MaxPending = 2
  MaxNow = 0
  MaxFaults = 1
  MaxStray = 0

SPECIFICATION FairSpec
CHECK_DEADLOCK FALSE
PROPERTY EveryCallAnswered
