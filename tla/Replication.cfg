SPECIFICATION ReplicationSpec
CONSTANTS
    NumServers = 2
    MaxFailures = 2
    MaxDepth = 5
    Client = {c1}
INVARIANTS
    ReplicationTypeOK
    
    AckedIsApplied
PROPERTY WaitsOnlyForFailure
CHECK_DEADLOCK FALSE
