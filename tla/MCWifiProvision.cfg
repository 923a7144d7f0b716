SPECIFICATION FairSpec
CONSTANTS
    home = home
    cafe = cafe
    NoCred = NoCred
    Creds = {home, cafe}
    OpenCreds = {cafe}
    LinkReasons = {"AuthFailure"}
    MaxRetries = 2
    MaxUserActions = 2
    MaxPowerLosses = 1
    MaxEvents = 2
INVARIANTS
    AttemptIsBounded
    OpenApIsGated
    ConnectedShutsSetup
    ExhaustionIsShown
    NoStalePassword
PROPERTY
    ConnectingEnds
CHECK_DEADLOCK FALSE
