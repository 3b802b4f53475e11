CONSTANTS
    Contents <- MCContents
    Policies <- MCPolicies
    NoContent = NoContent
    ServerReads = 64
    ClientReads = 1074
    MaxCounter = 3
    MaxBatches = 4
    Window = 3
SPECIFICATION Spec
CHECK_DEADLOCK FALSE
INVARIANT NoncesUnique
INVARIANT InputsFollow
 
