SPECIFICATION Spec
CONSTANTS
    a = a
    c = c
    anna = anna
    cyb = cyb
    Order <- MCOrder
    Automatic = {c}
    Captain <- MCCaptain
    Calls = {1}
    Ids = {1, 2}
    NumMines = 1
    UserMines = 1
    Reach = 3
    TorpSpeed = 2
    MisslSpeed = 2
    FireTicks = 2
    Fuse = 1
    MaxPlay = 2
    MaxFaults = 1
    Nobody = Nobody
    Anyone = Anyone
INVARIANT DestroyedOnce
PROPERTIES PairsScoreBoth MineTableIsCapped WhatIsLaunchedEnds
