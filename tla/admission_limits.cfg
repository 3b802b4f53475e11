CONSTANTS
  c1 = c1
  c2 = c2
  c3 = c3
  ip1 = ip1
  Clients = {c1, c2, c3}
  Ips = {ip1}
  IpOf <- OneAddress
  MaxSessions = 1
  MaxFailures = 2
  Window = 2
  BanTime = 2
SPECIFICATION FairSpec
INVARIANT FullMeansBanned
INVARIANT AdmissionBounded
PROPERTY BanEnds
