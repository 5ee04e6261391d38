\* Three calls in one session or several.
CONSTANTS
    s1 = s1
    c1 = c1
    c2 = c2
    c3 = c3
    Session <- Sessions1
    Call <- Calls3
    Class = {"execution_summary", "unsupported"}
SYMMETRY CallSymmetry
SPECIFICATION SessionsSpec
INVARIANTS
    SessionsTypeOK
    AttachmentsFollowTheirRun
    WaitingEndsByOutput
    TrailShowsLatestUpdates
    PipelineIsOwnOrRacing
CHECK_DEADLOCK FALSE
