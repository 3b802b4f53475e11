CONSTANTS
  s1 = s1
  s2 = s2
  a1 = a1
  a2 = a2
  a3 = a3
  Sessions = {s1, s2}
  CidOf <- SameCid
  Conns = {a1, a3}
  SessionOf <- AgentOf
  TeardownBeforeReuse = TRUE
  None = None
SPECIFICATION FairSpec
CHECK_DEADLOCK FALSE
INVARIANT AgentReachable
INVARIANT OwnScreen
PROPERTY HandshakeEnds
PROPERTY ArmedSessionEnds
