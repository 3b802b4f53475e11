CONSTANTS
    Sessions = {s1, s2}
    MaxFrames = 4
    Leaked = {s2}
    Cap = 1
    MaxFaults = 2
SPECIFICATION Spec
CHECK_DEADLOCK FALSE
INVARIANT NoGapAfterEncoder
 
PROPERTY Isolated
PROPERTY EndsUnlessBlocked
