CONSTANTS
    s1 = s1
    s2 = s2
    Sessions <- MCSessions
    Backends = {"x11", "stub", "pipewire"}
    CaptureSize = 1
    EncodeSize = 1
    PoolSize = 3
    Workers = 1
SPECIFICATION FairSpec
CHECK_DEADLOCK FALSE
PROPERTY SlowClientKept
PROPERTY ThreadsReturned
