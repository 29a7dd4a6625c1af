SPECIFICATION FairSpec
CONSTANTS
    Ranks = {r1, r2, r3}
    MaxTimeStepDivisions = 1
    MaxSteps = 3
    IterBound = 4
    ThrowSites <- NoThrow
INVARIANTS
    TypeOK
    SameCall
PROPERTIES
    SolvesAlike
    AllReturn
