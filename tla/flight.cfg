SPECIFICATION Spec
CONSTANTS
    Warp = 2
    Rated = 3
    Accel = 1
    Warnings = 4
    CloakHurt = 2
INVARIANT HyperspaceIsBare
PROPERTY ComesToRest
