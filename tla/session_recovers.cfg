CONSTANTS
    s1 = s1
    s2 = s2
    Runners <- OneRunner
    NoRunner = nobody
    Service = FALSE
    Clients = {c1}
    Limit = 1
    Model = small
    NoModel = none
    Asked = {"ai", "gaming", "maintenance", "restore"}
    FaultKinds = {"fail", "kill", "linger"}
    MaxFaults = 2
SPECIFICATION FairSpec
INVARIANT ReadyIsDeployed
PROPERTIES Recovers
CHECK_DEADLOCK FALSE
