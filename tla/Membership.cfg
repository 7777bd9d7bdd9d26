SPECIFICATION Spec
CONSTANTS
    NumServers = 3
    MaxFailures = 2
INVARIANTS
    RoleAgreement
    PrimaryKnowsDead
PROPERTY Stabilises
CHECK_DEADLOCK FALSE
