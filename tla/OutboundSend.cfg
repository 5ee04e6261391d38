\* Two calls, retries of one another or not, with a table that changes under them.
CONSTANTS
    p1 = p1
    g1 = g1
    k1 = k1
    k2 = k2
    r1 = r1
    r2 = r2
    Contact <- Contacts1
    Segment = {"smb", "enterprise"}
    SegmentOf <- SegmentOfAll
    Campaign <- Campaigns1
    Channel = {"email"}
    Client <- LiveAndMisconfigured
    PolicySet <- OneRule
    MaxAssertions = 1
    Corr <- Corrs2
    Request <- Requests2
    OptOutWindow = 1
SYMMETRY RequestSymmetry
SPECIFICATION SomeSpec
INVARIANTS
    TypeOK
    OptOutBeforeCallIsHonoured
    DeliveryHasFullChain
    OutcomeIsClosed
    AuditAnswersForSends
CHECK_DEADLOCK FALSE
