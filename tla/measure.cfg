SPECIFICATION SpecServing
CONSTANTS
    Owners = {o1, o2}
    Workloads = {w1}
    Deployments <- ThreeDeployments
    Reference <- Reviewed
    MaxProcs = 2
    MaxChanges = 1
    Pods <- TwoPods
    Levels = {2, 4}
    Old = 9
    Shm = 1
    Margin = 1
    Round = 2
    Allocatable = 10
    Others = {1, 3}
    PerPhase = 1
    MostObserved = 20
    LongEnough = 2
    MaxSamples = 2
    MaxFaults = 1
INVARIANTS OneProcess ReadyIsWarm ReportsStand PeakCovered 
SYMMETRY Symmetric
CHECK_DEADLOCK FALSE
