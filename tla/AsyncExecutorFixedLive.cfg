SPECIFICATION FairSpec
CONSTANTS
    sat = sat
    greedy = greedy
    flexible = flexible
    SatSolvers = {sat}
    GreedySolvers = {greedy}
    FlexibleSolvers = {}
    MaxSolves = 2
    MaxCost = 1
    MaxVisits <- Visits
PROPERTIES
    SupersededFinishes
    SolveConcludes
    ImplementsCell
CHECK_DEADLOCK FALSE
