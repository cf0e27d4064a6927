SPECIFICATION Spec
CONSTANTS
    u1 = u1
    c1 = c1
    c2 = c2
    hA = hA
    hB = hB
    NoShip = NoShip
    NoSocket = NoSocket
    Users <- MCUsers
    Sockets <- MCSockets
    Ships <- MCShips
    Account <- MCAccount
    Captain <- MCCaptain
CONSTRAINT FewInFlight
SYMMETRY Symmetry
INVARIANTS
    TypeOK
    RegistryBijective
    RegisteredFlies
    OnePilot
    DormantIsLeaving
PROPERTY
    OnlyItsPilotPutsItAway
CHECK_DEADLOCK FALSE
