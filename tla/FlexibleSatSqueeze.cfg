SPECIFICATION FairSpec
CONSTANTS
    Problems <- Squeeze
    Resources = {"dock", "lift"}
    Now = 1
    None = None
    MaxTime = 9
INVARIANTS
    NoSolutionMeansNone
CHECK_DEADLOCK FALSE
