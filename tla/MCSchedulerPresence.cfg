\* The horizons of the code in units of five minutes.
SPECIFICATION Spec
CONSTANTS
    Agents = {a1, a2}
    Owner <- OwnEach
    Cards = {c1}
    NoOne = NoOne
    Roles = {implementer}
    RolesOf <- AllStages
    HeroRoles = {implementer}
    CodeRoles = {implementer}
    BlindRoles = {}
    DiscoverIn <- Pipeline
    DragTo = {}
    FailTo = {}
    HoldTTL = 2
    ReapAge = 9
    StrandAge = 4
    PresenceAge = 4
    SetupBudget = 2
    CardTimeout = 6
    NoProgressCap = 5
    Bound = TRUE
    Suspends = TRUE
    Reconfigures = FALSE
    MaxHolds = 2
    MaxExecutions = 2
PROPERTIES
    NeverPullsLiveHero
SYMMETRY AgentSymmetry
