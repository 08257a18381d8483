CONSTANTS
    i1 = i1
    i2 = i2
    c1 = c1
    c2 = c2
    Images <- TwoImages
    Calls <- TwoCalls
    ToolLimit = 1
    Instants <- TwoInstants
    Limits <- SmallLimits
    MaxRestarts = 1
SPECIFICATION FairSpec
INVARIANTS OneJob OthersUntouched WithinLimits
PROPERTIES Frees
CHECK_DEADLOCK FALSE
