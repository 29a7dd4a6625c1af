SPECIFICATION Spec
CONSTANTS
    Models = {"sequential"}
    MacroCells <- MCMacroCells3
    InitialLevel = 0
    LevelMin = 0
    LevelMax = 3
    AdaptationInterval = 2
    Points <- MCPoints3
    Field <- MCField
INVARIANT
    RatioKept
