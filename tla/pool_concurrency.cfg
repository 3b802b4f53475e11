CONSTANTS
  StaticVms = {}
  Clones = {c1, c2}
  Sessions = {s1, s2}
  u1 = u1
  UserOf <- OneUser
  CidStart = 10
  CidEnd = 11
  MinReady = 3
  MaxTotal = 2
  MaxPerUser = 1
  MaxFaults = 0
  MaxRestarts = 0
  GraceOutlastsBuild = TRUE
  Replenisher = replenisher
  OrphanGc = orphanGc
  NoVm = NoVm
  NoSession = NoSession
SPECIFICATION Spec
SYMMETRY Symmetry
INVARIANT CidExclusive
INVARIANT QuotaOvershootBounded
PROPERTY SingleUse
