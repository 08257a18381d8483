CONSTANTS
    r1 = r1
    r2 = r2
    Requests <- TwoRequests
    Limit = 1
    Models = {large, small}
    SplitModel = small
    NoModel = none
    Statuses = {"ok"}
    MaxCancels = 1
    MaxRestarts = 1
SPECIFICATION FairSpec
INVARIANTS WorkHoldsSlot QuietAfterDrain
  
CHECK_DEADLOCK FALSE
