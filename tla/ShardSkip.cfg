CONSTANTS
  ShardCount = 1
  Worker = {w1, w2}
  NoOwner = NoOwner
  Gone = Gone
  MaxEvents = 2
  BatchSize = 1
  MaxFaults = 0
  Kinds = {"jobs"}

SPECIFICATION Spec
SYMMETRY Symmetry
INVARIANT NothingSkipped
