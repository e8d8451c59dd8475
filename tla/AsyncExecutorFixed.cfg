SPECIFICATION FairSpec
CONSTANTS
    sat = sat
    greedy = greedy
    flexible = flexible
    SatSolvers = {sat}
    GreedySolvers = {greedy}
    FlexibleSolvers = {}
    MaxSolves = 2
    MaxCost = 2
    MaxVisits <- Visits
INVARIANTS
    TypeOK
    SupersededStopped
    NoOrphanThreads
    OwnAnswers
    NoImprovementLost
    CellIsAProposal
CHECK_DEADLOCK FALSE
