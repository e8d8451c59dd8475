SPECIFICATION SolversSpec
CONSTANTS
    Requests <- Robots
    Alternatives <- TwoEach
    Scores = {1, 3}
    ConflictSets <- SomeConflicts
    Infinity = 20
    Total <- Sum
    None = None
INVARIANTS
    SolversTypeOK
    NothingBetterRuledOut
    ConcludedOptimal
    AnswerServesAll
    GivesUpRightly
PROPERTIES
    SolversEnd
CHECK_DEADLOCK FALSE
