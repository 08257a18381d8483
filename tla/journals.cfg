SPECIFICATION SpecOne
CONSTANTS
    c1 = c1
    c2 = c2
    Calls <- TwoCalls
    NoCall = none
    MaxRequests = 2
    Escapes = TRUE
    MaxFailed = 2
    MaxFaults = 2
    b1 = b1
    b2 = b2
    game = game
    app = app
    None = None
    Captures <- TwoCaptures
    Earlier <- OneCapture
    Order <- GameFirst
    Gaming <- TheGame
    MaxHands = 1
INVARIANTS OneAtATime CallsCounted FailureRejects CopiesQuiet  FreshnessExact
CHECK_DEADLOCK FALSE
