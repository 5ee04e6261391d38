\* Two calls, every input: two challenges, two correlations, both modes.
CONSTANTS
    h1 = h1
    c1 = c1
    c2 = c2
    k1 = k1
    k2 = k2
    a1 = a1
    a2 = a2
    Host <- Hosts1
    Challenge <- Challenges2
    Corr <- Corrs2
    Attempt <- Attempts2
    Mode <- BothModes
    ReplayWindow = 2
SYMMETRY AttemptSymmetry
SPECIFICATION Spec
INVARIANTS
    ProductionPairingIsVerified
    ReturnedOutcomeIsRecorded
    ExecutionFollowsAdmission
PROPERTIES
    KeepsPromise
CHECK_DEADLOCK FALSE
