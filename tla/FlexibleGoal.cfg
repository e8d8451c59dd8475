SPECIFICATION FlexibleSpec
CONSTANTS
    p1 = p1
    MaxSolves = 3
    Requests <- SomeRequests
    s1 = s1
    s2 = s2
    Slots = {s1, s2}
    Points = {p1}
    SpotLists <- SomeLists
    MaxCalls = 1
    MaxAlternatives = 2
INVARIANTS
    FreshGoalServesTicket
CHECK_DEADLOCK FALSE
SYMMETRY Symmetric
