SPECIFICATION ReplicationSpec
CONSTANTS
    NumServers = 2
    MaxFailures = 0
    MaxDepth = 4
    Client = {c1, c2}
INVARIANT OrderKept
CHECK_DEADLOCK FALSE
