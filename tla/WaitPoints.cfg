SPECIFICATION Spec
CONSTANTS
    p1 = p1
    p2 = p2
    r1 = r1
    r2 = r2
    Points = {p1, p2}
    Robots = {r1, r2}
    Lists <- OrderedLists
    MaxTime = 5
    MaxQueue = 4
INVARIANTS
    TypeOK
    QueueMatchesMap
    HistoryOrdered
    EnoughPoints
    SpotsExclusive
PROPERTIES
    ImplementsSpots
CHECK_DEADLOCK FALSE
SYMMETRY Symmetric
