SPECIFICATION LivePartsSpec
CONSTANTS
    u1 = u1
    u2 = u2
    c1 = c1
    c2 = c2
    c3 = c3
    d1 = d1
    d2 = d2
    a1 = a1
    a2 = a2
    a3 = a3
    p1 = p1
    p2 = p2
    Users <- MCUsers
    Sockets <- MCSockets
    Account <- MCAccount
    MaxSockets = 2
    MaxSeats = 1
    Ships = {s1, s2, s3}
    Bombers = {s1}
    Stride = 3
    Countdown = 2
    NoChannel = NoChannel
    Hulls <- MCHulls
    Tough = {a1}
    NoClaim = 1
    MaxHold = 1
    Nobody = Nobody
    Unregistered = Unregistered
    NoPrey = NoPrey
    Parts = {"second", "hunt"}
    Pilots = {p1}
    Mortal = {p1}
    MaxPerTick = 1
    MinTick = 2
    MaxTick = 2
PROPERTIES EvenCadence CountdownMoves RolledUnlessMultiple ClaimsLapse
