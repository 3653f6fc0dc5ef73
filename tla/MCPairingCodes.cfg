CONSTANTS
    Ids = {p1}
    People <- TwoPeople
    Nobody = nobody
    Slots = {k1, k2}
    Tabs <- ThreeTabs
    Who <- OwnerOfTab
SPECIFICATION Spec
CHECK_DEADLOCK FALSE
INVARIANTS
    TypeOK
    OneOwnerPerCode
    FinalIsFinal
PROPERTIES
    ImplementsCode
