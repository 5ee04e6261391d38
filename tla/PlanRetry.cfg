\* One outbound.send, run twice.
CONSTANTS
    r1 = r1
    r2 = r2
    Run <- Runs2
    Program <- SendOnly
    Text = {}
    ManifestSet <- OneManifest
    Ctx <- DefaultContext
SPECIFICATION Spec
INVARIANT RetryIsNoOp
CHECK_DEADLOCK FALSE
