SPECIFICATION FixedSpec
CONSTANTS
    MaxSolves = 3
    Requests <- SomeRequests
    MaxAlternatives = 2
    Resources <- SomeResources
    NoTime = 0
    MaxClaims = 2
INVARIANTS
    FixedTypeOK
    NoAnswerBeforeRequest
    PinsKeepBookingsApart
    NoPanicInOrder
CHECK_DEADLOCK FALSE
