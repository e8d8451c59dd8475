SPECIFICATION FixedSpec
CONSTANTS
    MaxSolves = 2
    Requests <- SomeRequests
    MaxAlternatives = 2
    Resources <- SomeResources
    NoTime = 0
    MaxClaims = 2
INVARIANTS
    BookingsDisjoint
CHECK_DEADLOCK FALSE
