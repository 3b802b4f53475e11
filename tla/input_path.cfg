CONSTANTS
    Points <- MCPoints
    Windows <- MCWindows
    Stream <- MCStream
    MaxEvents = 4
    MaxResizes = 1
    MaxFaults = 1
    Cap = 1
SPECIFICATION Spec
CHECK_DEADLOCK FALSE
INVARIANT ClickNotAhead
INVARIANT RestAgrees
PROPERTY Delivered
