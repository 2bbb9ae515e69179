SPECIFICATION FairSpec
CONSTANTS
  None = None  Untimed = Untimed
  r1 = r1  r2 = r2  r3 = r3  Request = {r1, r2, r3}
  ann = ann  bob = bob  bot = bot  acme = acme  o = o  den = den  g = g  m1 = m1  m2 = m2  m3 = m3
  sAnn = sAnn  sBob = sBob  kAnn = kAnn  kBob = kBob  tBot = tBot
  ch1 = ch1  ch2 = ch2  st = st  acc = acc  bare = bare  eve = eve  hEve = hEve  hBob = hBob  sub1 = sub1
  EmailOf <- Emails  HandleOf <- Handles  Scenes <- TheScenes
  Pool = 4  Limit = 2  HydrateFactor = 2  TargetLimit = 5  ShardForKey <- Spread
  Call = {r1, r2, r3}  Quota = 2  Window = 3  Skew = 1  MaxClock = 6
INVARIANTS TypeOK CodeUsedOnce OneUserPerPerson AgentKeepsKey PagesMissNothing SearchComplete RateBound
PROPERTIES PatchUndoesOnlyOverlapping ShownIsVisible EveryRequestAnswered
CHECK_DEADLOCK FALSE
