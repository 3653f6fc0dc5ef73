CONSTANTS
    Ids = {p1, p2}
    Nobody = nobody
    MaxFaults = 1
SYMMETRY Codes
SPECIFICATION Spec
CHECK_DEADLOCK FALSE
INVARIANTS
    TypeOK
    CancelledStaysOut
    NoHiddenCode
    ConnectionIsActive
PROPERTIES
    YoungerWins
