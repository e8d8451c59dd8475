SPECIFICATION FairSpec
CONSTANTS
    sat = sat
    greedy = greedy
    flexible = flexible
    SatSolvers = {}
    GreedySolvers = {}
    FlexibleSolvers = {flexible}
    MaxSolves = 3
    MaxCost = 1
    MaxVisits <- Visits
PROPERTIES
    ConclusionIsFinal
    SupersededFinishes
    ImplementsCell
CHECK_DEADLOCK FALSE
