CONSTANTS
    MaxAttempts = 2
    MaxFaults = 2
    AutoReconnect = TRUE
SPECIFICATION Spec
CHECK_DEADLOCK FALSE
PROPERTY NoReconnectAfterWindow
PROPERTY AttemptEnds
PROPERTY StartsUnlessStill
 
