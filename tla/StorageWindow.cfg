SPECIFICATION Spec
CONSTANTS
    k1 = k1  k2 = k2  a = a  b = b
    Key <- MCKey
    Value <- MCValue
    Thread = {t1}
    Op <- MCOp
    DeadOp <- MCDeadOp
    Threshold = 3
    MaxLog = 3
    MaxCrashes = 1
    Hazard = {"window"}
    Absent = Absent
    Empty = Empty
    None = None
INVARIANT Durable
