CONSTANTS
    Ids = {p1, p2}
    Nobody = nobody
    MaxFaults = 0
SPECIFICATION Spec
CHECK_DEADLOCK FALSE
INVARIANTS
    ActiveIsHeld
