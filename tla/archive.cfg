CONSTANTS
  s1 = s1
  s2 = s2
  pa = pa
  Sessions = {s1, s2}
  PrefixOf <- SamePrefix
  RetentionDays = 1
  MaxTime = 2
  MaxFrames = 2
  MaxFaults = 2
  NoFile = NoFile
SPECIFICATION Spec
CHECK_DEADLOCK FALSE
SYMMETRY Symmetry
INVARIANT ChainCoversFile
INVARIANT CuesFindFrames
INVARIANT SealVerifies
