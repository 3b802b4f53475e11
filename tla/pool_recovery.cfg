CONSTANTS
  StaticVms = {v1}
  Clones = {c1}
  Sessions = {s1}
  u1 = u1
  UserOf <- OneUser
  CidStart = 10
  CidEnd = 11
  MinReady = 1
  MaxTotal = 2
  MaxPerUser = 1
  MaxFaults = 1
  MaxRestarts = 1
  GraceOutlastsBuild = TRUE
  Replenisher = replenisher
  OrphanGc = orphanGc
  NoVm = NoVm
  NoSession = NoSession
SPECIFICATION FairSpec
INVARIANT TypeOK
INVARIANT NoCidLeak
PROPERTY GracedSweepSparesVms
PROPERTY RequestAnswered
PROPERTY ExpiredReleased
PROPERTY OrphansCollected
PROPERTY GhostsRemoved
