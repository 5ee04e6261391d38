\* Two calls race for one challenge.
CONSTANTS
    h1 = h1
    c1 = c1
    c2 = c2
    k1 = k1
    k2 = k2
    a1 = a1
    a2 = a2
    Host <- Hosts1
    Challenge <- Challenges1
    Corr <- Corrs2
    Attempt <- Attempts2
    Mode <- ProductionOnly
    ReplayWindow = 2
SYMMETRY AttemptSymmetry
SPECIFICATION Spec
INVARIANT ChallengePairsOnce
CHECK_DEADLOCK FALSE
