SPECIFICATION FairSpec
CONSTANTS
    sat = sat
    greedy = greedy
    flexible = flexible
    SatSolvers = {sat}
    GreedySolvers = {greedy}
    FlexibleSolvers = {}
    MaxSolves = 1
    MaxCost = 1
    MaxVisits <- Visits
PROPERTIES
    ConcludedFinishes
CHECK_DEADLOCK FALSE
