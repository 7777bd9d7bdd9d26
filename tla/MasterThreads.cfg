SPECIFICATION Spec
CONSTANT NumServers = 3
INVARIANTS
    TypeOK
    AliveIsTracked
    NeverWithoutEntry
PROPERTIES
    ImplementsMaster
    SilenceIsNoticed
