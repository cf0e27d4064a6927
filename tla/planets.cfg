SPECIFICATION Spec
CONSTANTS
    h1 = h1
    h2 = h2
    u1 = u1
    u2 = u2
    a1 = a1
    a2 = a2
    NoOwner = NoOwner
    Hulls = {h1}
    Users = {u1}
    Captain <- MCLoneCaptain
    Clocks = {t1}
    Colonies = {a1, a2}
    Hub = hub
    Nobody = NoOwner
    Free = Free
    Owner0 <- MCWild
    MaxPlanets = 1
    Lots = {1}
    Worth0 = 1
    MaxIssued = 2
    MaxCount = 2
    Verbs = {"down", "claim", "abandon", "attack", "spy"}
    Faults = {"error", "leave"}
INVARIANTS RowIsLive NothingForNothing CounterCovers
PROPERTIES EventuallyAnswered
