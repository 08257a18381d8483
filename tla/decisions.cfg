SPECIFICATION SpecOne
CONSTANTS
    Evidence <- SomeEvidence
    Policies <- SomePolicies
    Declarations <- SomeDeclarations
    Settings <- SomeSettings
    MaxAge = 1
    MaxTime = 2
    n1 = n1
    n2 = n2
    f1 = f1
    f2 = f2
    r1 = r1
    r2 = r2
    x1 = x1
    x2 = x2
    Elsewhere = elsewhere
    First <- TwoTemplates
    Memories = {4, 6}
    Threads = {1, 2}
    Uses = {1, 2}
    Cpus = 3
    TP = 1
    Spare = 2
    Each = 2
    MaxPlans = 2
    MaxEdits = 1
    Order <- TwoNames
    Files <- TwoFiles
    Capacity = 4
    Reserve = 4
    MaxTouches = 1
    Runs <- TwoRuns
    Outputs <- TwoOutputs
    MaxWritten = 2
    NoRun = none
INVARIANTS NothingHidden NoWayBack AppliedFits PlanHolds ExportWhole
PROPERTY NothingErased
SYMMETRY Symmetric
CHECK_DEADLOCK FALSE
