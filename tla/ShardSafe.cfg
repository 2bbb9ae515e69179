CONSTANTS
  ShardCount = 1
  Worker = {w1, w2}
  NoOwner = NoOwner
  Gone = Gone
  MaxEvents = 3
  BatchSize = 2
  MaxFaults = 1
  Kinds = {"jobs", "none", "malformed"}

SPECIFICATION Spec
SYMMETRY Symmetry
INVARIANT TypeOK
INVARIANT CheckpointCovered
INVARIANT OnceUnlessDisturbed
PROPERTY MonotoneUnlessOvertaken
