SPECIFICATION Spec
CONSTANTS
    s1 = s1  s2 = s2  t1 = t1  t2 = t2
    Session = {s1, s2}
    Thread = {t1, t2}
    Setup <- MCSetup
    NoSession = NoSession
    MaxDeaths = 1
    MaxCommands = 5
    MaxSecond = 1
INVARIANTS
    TypeOK
    EnvelopeFresh
    AcceptedIsKept
    RelayedOnce
    MailIsIntact
 
CHECK_DEADLOCK FALSE
