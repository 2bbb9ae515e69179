CONSTANTS
  Manager = {m1, m2}
  Consumer = {c1, c2}
  Call = {k1, k2, k3}
  NoConsumer = NoConsumer
  Lease = 1
  Delays = {1}
  MaxItems = 1
  MaxLimit = 1
  MaxPending = 2
  MaxNow = 2
  MaxFaults = 1
  MaxStray = 1

SPECIFICATION Spec
SYMMETRY Symmetry
CHECK_DEADLOCK FALSE
INVARIANT CacheCoherent
INVARIANT ConfirmedKept
INVARIANT AttemptFences
INVARIANT LeaseExclusive
PROPERTY KeepsPromises
