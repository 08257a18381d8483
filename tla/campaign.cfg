SPECIFICATION FairSpec
CONSTANTS
    k1 = k1
    k2 = k2
    screen = screen
    changed = changed
    plain = plain
    x = x
    y = y
    None = None
    Controllers <- TwoControllers
    Jobs <- ThreeJobs
    CampaignOf <- Campaigns
    KindOf <- Kinds
    SourceOf <- Sources
    Selected = y
    MaxFaults = 1
INVARIANTS AttemptsCounted NoEarlyCancelled ServedScreened
CHECK_DEADLOCK FALSE
PROPERTIES ContractKept Answered
