\* Two calls with every act in one world, under every small context.
CONSTANTS
    c1 = c1
    c2 = c2
    a1 = a1
    a2 = a2
    d1 = d1
    d2 = d2
    Caller <- Callers2
    Actor <- Actors2
    Did <- Dids2
    Time = {1, 2, 3}
SYMMETRY CallerSymmetry
SPECIFICATION SmallSpec
INVARIANTS
    AdmittedIsPermitted
    ReceiptNamesItsRuling
CHECK_DEADLOCK FALSE
