SPECIFICATION Spec
CONSTANTS
    Agents = {a1, a2}
    Owner <- OwnEach
    Cards = {c1}
    NoOne = NoOne
    Roles = {implementer}
    RolesOf <- AllStages
    HeroRoles = {implementer}
    CodeRoles = {implementer}
    BlindRoles = {}
    DiscoverIn <- Pipeline
    DragTo = {}
    FailTo = {}
    HoldTTL = 1
    ReapAge = 3
    StrandAge = 0
    PresenceAge = 3
    SetupBudget = 2
    CardTimeout = 1
    NoProgressCap = 1
    Bound = TRUE
    Suspends = FALSE
    Reconfigures = TRUE
    MaxHolds = 3
    MaxExecutions = 3
INVARIANTS
    TypeOK
    HoldsExclusive
    OneExecutionPerHold
    WorkAlone
    WasteBounded
SYMMETRY AgentSymmetry
