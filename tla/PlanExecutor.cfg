\* Two runs of programs of up to five nodes.
CONSTANTS
    r1 = r1
    r2 = r2
    Run <- Runs2
    Program <- Programs
    Text <- Texts
    ManifestSet <- Manifests
    Ctx <- Contexts
SYMMETRY RunSymmetry
SPECIFICATION Spec
INVARIANTS
    TypeOK
    OnlyMaterialClassesAct
    NothingActsPastConfirmation
    ExplicitSurfaceIsKept
    OutcomesAccountForActs
    TextsActByTheirLines
PROPERTY KeepsPlanPromise
CHECK_DEADLOCK FALSE
