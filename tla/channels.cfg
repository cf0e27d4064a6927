SPECIFICATION Spec
CONSTANTS
    s1 = s1
    s2 = s2
    s3 = s3
    t1 = t1
    m1 = m1
    NoShip = NoShip
    Ships <- MCShips
    Channels <- MCChannels
    Tubes <- MCTubes
    Mines <- MCMines
CONSTRAINT FewReferences
SYMMETRY Symmetry
INVARIANTS
    ChannelsUnique
    TubesNameTheirFirer
    ShotsCreditTheShooter
PROPERTY
    LogoffKeepsTheName
