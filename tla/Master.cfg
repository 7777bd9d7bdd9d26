SPECIFICATION FairSpec
CONSTANTS
    NumServers = 4
INVARIANTS
    TypeOK
    FlagsMatchMap
    PrimaryIsAlive
    AliveIsTracked
PROPERTIES
    NoPreemption
    ElectionAnnounced
    RoundRobinRotates
    SilenceIsNoticed
    ElectionSpec
