CONSTANTS
    r1 = r1
    r2 = r2
    Requests <- TwoRequests
    Limit = 1
    Models = {small}
    SplitModel = small
    NoModel = none
    Statuses = {"ok"}
    MaxCancels = 2
    MaxRestarts = 1
SPECIFICATION Spec
INVARIANT SlotReleased
CHECK_DEADLOCK FALSE
