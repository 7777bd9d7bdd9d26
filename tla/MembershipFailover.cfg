SPECIFICATION Spec
CONSTANTS
    NumServers = 3
    MaxFailures = 1
INVARIANT PrimaryKnowsAlive
CHECK_DEADLOCK FALSE
