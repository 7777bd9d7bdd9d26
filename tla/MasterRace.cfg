SPECIFICATION Spec
CONSTANT NumServers = 3
INVARIANT OnePrimary
