CONSTANTS
    Cards = {c1, c2}
    Existing = {c1}
    Columns = {A, B}
    Home = A
    Muts = {t1}
    MaxWrites = 2
    MaxFaults = 1
SPECIFICATION Spec
CHECK_DEADLOCK FALSE
INVARIANTS
    TypeOK
    ShownOnce
    NoGhost
    ConvergesOrExcused
