SPECIFICATION Spec
CONSTANTS
    N = 2
    Browser = {b1}
    Away = Away  Queued = Queued  Accepted = Accepted
    MAX_CLIENTS = 1
    TIMEOUT_SECONDS = 2
    HEARTBEAT = 1
    Lag = 1
    Disturbed = {1}
    MaxEvents = 2
INVARIANTS DeadNotOffered NoFalseAlarm AdminPageTrue
  
