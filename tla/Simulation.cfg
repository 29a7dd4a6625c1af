SPECIFICATION FairSimSpec
CONSTANTS
    MaxScalar = 50
    EqScale = 31
    QueueBound = 1
    Times <- MCTimes
    StepSizes <- MCStepSizes
    Intervals <- MCIntervals
    Solutions = {s1, s2}
    Mixed = Mixed
    Stale = Stale
    MaxTimeStepDivisions = 1
    TargetSteps = 3
    MaxSteps = 2
    IterBound = 4
    HasPriVarsSwitch = TRUE
    DistinctCheckPoints = TRUE
INVARIANTS
    SimTypeOK
    AssemblyIsConsistent
    SolutionMatchesTime
    OutputComplete
PROPERTY
    LoopEnds
