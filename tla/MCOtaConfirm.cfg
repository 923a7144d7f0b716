SPECIFICATION ConfirmFairSpec
CONSTANT
    MaxRequests = 3
INVARIANTS
    NoBankedAnswer
    AcceptedInThisRequest
PROPERTY
    ButtonsComeBack
CHECK_DEADLOCK FALSE
