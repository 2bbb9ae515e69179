CONSTANTS
  Manager = {m1}
  Consumer = {c1, c2}
  Call = {k1, k2, k3, k4}
  NoConsumer = NoConsumer
  Lease = 1
  Delays = {0}
  MaxItems = 1
  MaxLimit = 1
  MaxPending = 2
  MaxNow = 2
  MaxFaults = 2
  MaxStray = 1

SPECIFICATION Spec
SYMMETRY Symmetry
CHECK_DEADLOCK FALSE
INVARIANT AckedStaysGone
PROPERTY AckTakesEffect
PROPERTY KeepsPromises
