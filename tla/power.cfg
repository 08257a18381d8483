CONSTANTS
    Samplers = {s1, s2}
    Devices = {d1}
    NoDevice = NoDevice
    Watts = {1}
    Walls <- SomeWalls
    MaxGap = 2
    Tolerance = 1
    MaxAwake = 4
    MaxBoots = 2
SYMMETRY Symmetry
SPECIFICATION Spec
INVARIANTS  CounterSurvives
CHECK_DEADLOCK FALSE
