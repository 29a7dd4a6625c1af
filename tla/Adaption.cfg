SPECIFICATION Spec
CONSTANTS
    Models = {"sequential", "implicit"}
    MacroCells <- MCMacroCells
    InitialLevel = 0
    LevelMin = 1
    LevelMax = 3
    AdaptationInterval = 2
    Points <- MCPoints
    Field <- MCField
INVARIANTS
    SeqTypeCorrect
    RatioKept
    AmountsKept
    VerdictIsCurrent
    MassKept
    DataCurrent
PROPERTY
    InitPrepares
