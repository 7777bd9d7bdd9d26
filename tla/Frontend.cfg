SPECIFICATION Spec
CONSTANTS
    c1 = c1  c2 = c2  c3 = c3
    Conn = {c1, c2, c3}
    MAX_CLIENTS = 2
    Setup <- MCSetup
INVARIANTS SlotHeld OwnReplies 
 
CHECK_DEADLOCK FALSE
