CONSTANTS
    s1 = s1
    s2 = s2
    Runners <- TwoRunners
    NoRunner = nobody
    Service = TRUE
    Clients = {c1}
    Limit = 1
    Model = small
    NoModel = none
    Asked = {"split", "gaming", "restore"}
    FaultKinds = {"fail", "kill", "evict", "linger", "outside", "reboot"}
    MaxFaults = 1
SYMMETRY SymmetryRunners
SPECIFICATION Spec
INVARIANTS ExclusiveUnlessLag GateCoversUptime OpenIsServed
CHECK_DEADLOCK FALSE
