SPECIFICATION FairSpec
CONSTANTS
    Agents = {a1, a2}
    Owner <- OwnEach
    Cards = {c1}
    NoOne = NoOne
    Roles = {implementer, reviewer}
    RolesOf <- StageEach
    HeroRoles = {implementer}
    CodeRoles = {implementer}
    BlindRoles = {}
    DiscoverIn <- Pipeline
    DragTo = {"active"}
    FailTo = {"blocked"}
    HoldTTL = 1
    ReapAge = 2
    StrandAge = 0
    PresenceAge = 1
    SetupBudget = 1
    CardTimeout = 1
    NoProgressCap = 1
    Bound = FALSE
    Suspends = TRUE
    Reconfigures = TRUE
    MaxHolds = 2
    MaxExecutions = 2
PROPERTIES
    PresentHeroKept
    ZombieEnds
    HoldDrains
