\* Two signals of one company or of two, the score job again and again with one fault.
CONSTANTS
    i1 = i1
    i2 = i2
    j1 = j1
    Ingest <- Ingests2
    Job <- Jobs1
    Domain = {"acme", "beta"}
    Segment = {"", "saas", "other"}
    TargetSegment = {"saas"}
    FetchLimit = 1
    MaxFaults = 1
    MaxChanges = 1
SPECIFICATION FairSmallSpec
INVARIANTS
    OneAccountPerDomain
    AnsweredSignalIsRecorded
    ScoreIsAccountedFor
PROPERTIES
    FamilyFollowsScore
    EveryAccountIsScored
CHECK_DEADLOCK FALSE
