CONSTANTS
    s1 = s1
    s2 = s2
    Runners <- TwoRunners
    NoRunner = nobody
    Service = TRUE
    Clients = {c1}
    Limit = 1
    Model = small
    NoModel = none
    Asked = {"split", "gaming", "restore"}
    FaultKinds = {"fail"}
    MaxFaults = 2
SPECIFICATION Spec
PROPERTY FailureRecorded
CHECK_DEADLOCK FALSE
