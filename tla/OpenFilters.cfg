SPECIFICATION IndexSpec
CONSTANTS
  w1 = w1
  w2 = w2
  s1 = s1
  s2 = s2
  r1 = r1
  r2 = r2
  Absent = Absent
  Resource = {r1, r2}
  NamespaceOf <- Namespaces
  Quotes <- Quoted
  Spared <- Quoted
  Null = Null
  NoConsumer = NoConsumer
  Consumer = {w1, w2}
  Lease = 2
  Interval = 1
  RetryDelay = 1
  MaxJobs = 4
  MaxFaults = 1
  Event <- Events
  KindOf <- Kinds
  Spaced = {"e1"}
  Field = {"workspace", "type"}
  ValueOf <- Values
  Sub = {s1, s2}
  Filter <- OpenFilters
  MayRead <- Visible
  Scenes <- OneScene
  BatchSize = 1
CHECK_DEADLOCK FALSE
INVARIANT SubscribersTold
