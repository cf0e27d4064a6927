SPECIFICATION Spec
CONSTANTS
    hA = hA
    hB = hB
    w1 = w1
    w2 = w2
    Hulls = {hA, hB}
    Sweeps = {w1, w2}
    MaxVersion = 1
    MaxEntries = 1
    Faults = {"error", "crash"}
CONSTRAINT HullIsIdle
INVARIANTS TypeOK CleanIsSaved
PROPERTIES EventuallySaved
