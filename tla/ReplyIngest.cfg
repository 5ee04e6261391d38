\* Two deliveries of messages with every hint, two contacts, outreach to both.
CONSTANTS
    p1 = p1
    p2 = p2
    k1 = k1
    k2 = k2
    m1 = m1
    m2 = m2
    h1 = h1
    h2 = h2
    Contact <- Contacts2
    Segment = {"smb"}
    SegmentOf <- SegmentOfAll
    Campaign = {}
    Channel = {"email", "whatsapp"}
    Client = {}
    PolicySet = {}
    MaxAssertions = 0
    Corr <- Corrs2
    HeaderId <- Ids2
    Handler <- Handlers2
    Inbound <- SomeMessages
    ReplyWindow = 2
    NoHint = NoHint
    NoThread = NoThread
SYMMETRY HandlerSymmetry
SPECIFICATION Spec
INVARIANTS
    ReplyFiledUnderSenderThread
    AckedStopIsApplied
    LedgerOptOutIsInColumn
CHECK_DEADLOCK FALSE
