SPECIFICATION Spec
CONSTANTS
    h1 = h1
    h2 = h2
    u1 = u1
    u2 = u2
    a1 = a1
    a2 = a2
    NoOwner = NoOwner
    Hulls = {h1, h2}
    Users = {u1}
    Captain <- MCOneCaptain
    Clocks = {t1}
    Colonies = {a1}
    Hub = hub
    Nobody = NoOwner
    Free = Free
    Owner0 <- MCOwned
    MaxPlanets = 1
    Lots = {1}
    Worth0 = 1
    MaxIssued = 4
    MaxCount = 2
    Verbs = {"buy", "sell", "up", "down", "withdraw", "admin", "give"}
    Faults = {}
SYMMETRY MCSymmetry
INVARIANTS NoOverdraft NothingForNothing
