CONSTANTS
    Sockets <- TwoSockets
    Owners = {h1, h2}
    Patterns = {card, execution}
    Observer = {execution}
    Watched = card
    OutboxLimit = 1
    MaxEvents <- EventBounds
    MaxFaults = 1
    MaxChanges = 4
SPECIFICATION FairSpec
CHECK_DEADLOCK FALSE
INVARIANTS
    TypeOK
    SubscriptionsAgree
    NeverStranded
PROPERTIES
    ImplementsChannel
    ComesBack
