\* Two sequences, one call and one reply of one contact.
CONSTANTS
    p1 = p1
    g1 = g1
    k1 = k1
    w1 = w1
    r1 = r1
    h1 = h1
    Contact <- Contacts1
    Segment = {"smb"}
    SegmentOf <- SegmentOfAll
    Campaign <- Campaigns1
    Channel = {"email", "whatsapp"}
    Client <- LiveClient
    PolicySet = {}
    MaxAssertions = 0
    Sequence = {1, 2}
    ContactOf <- SameContact
    CampaignOf <- SameCampaign
    Slot <- Slots1
    BatchLimit = 2
    MaxFaults = 1
    Corr <- Corrs1
    Request <- Requests1
    OptOutWindow = 1
    Handler <- Handlers1
    ReplyWindow = 1
    NoHint = NoHint
    NoThread = NoThread
SPECIFICATION AdmissibleSpec
PROPERTIES
    AckedStopStopsLaterSends
    StopToRecordedMailIsTaken
CHECK_DEADLOCK FALSE
