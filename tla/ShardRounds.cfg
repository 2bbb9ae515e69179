CONSTANTS
  ShardCount = 2
  Worker = {w1, w2}
  NoOwner = NoOwner
  Gone = Gone
  MaxEvents = 2
  BatchSize = 1
  MaxFaults = 0
  Kinds = {"jobs"}

SPECIFICATION FairSpec
PROPERTY EveryEventQueued
