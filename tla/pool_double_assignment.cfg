CONSTANTS
  StaticVms = {v1}
  Clones = {}
  Sessions = {s1, s2}
  u1 = u1
  UserOf <- OneUser
  CidStart = 10
  CidEnd = 11
  MinReady = 0
  MaxTotal = 0
  MaxPerUser = 1
  MaxFaults = 0
  MaxRestarts = 0
  GraceOutlastsBuild = TRUE
  Replenisher = replenisher
  OrphanGc = orphanGc
  NoVm = NoVm
  NoSession = NoSession
SPECIFICATION Spec
INVARIANT ExclusiveAssignment
