\* Two calls, every pair of five manifests as desired and applied.
CONSTANTS
    i1 = i1
    k1 = k1
    k2 = k2
    a1 = a1
    a2 = a2
    Installation <- Installations1
    Manifest <- AllManifests
    Corr <- Corrs2
    Call <- Calls2
    ReconciledWindow = 3
SYMMETRY CallSymmetry
SPECIFICATION Spec
INVARIANTS
    ClosureIsBacked
    RetryDrivesNothing
PROPERTY
    NewManifestIsInstalled
CHECK_DEADLOCK FALSE
