SPECIFICATION FairSpec
CONSTANTS
    Problems <- SomeProblems
    Resources = {"dock", "lift"}
    Now = 1
    None = None
    MaxTime = 9
INVARIANTS
    FlexibleSatTypeOK
    FeasibleServes
    WalkNeverPanics
    RuledOutIsImpossible
PROPERTIES
    Terminates
CHECK_DEADLOCK FALSE
