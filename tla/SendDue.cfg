\* Fair runs of two slots; each sequence has a campaign of its own.
CONSTANTS
    p1 = p1
    g1 = g1
    g2 = g2
    w1 = w1
    w2 = w2
    Contact <- Contacts1
    Segment = {"smb"}
    SegmentOf <- SegmentOfAll
    Campaign <- Campaigns2
    Channel = {"email"}
    Client <- TwoClients
    PolicySet <- NoRules
    MaxAssertions = 0
    Sequence = {1, 2}
    ContactOf <- SameContact
    CampaignOf <- OwnCampaign
    Slot <- Slots2
    BatchLimit = 2
    MaxFaults = 1
SPECIFICATION FairSpec
INVARIANTS
    TerminalRowMatchesState
    SentRowNamesDeliveredMessage
PROPERTIES
    OptOutBeforeFetchIsHonoured
    DispatchableSettles
CHECK_DEADLOCK FALSE
