SPECIFICATION FairSimSpec
CONSTANTS
    MaxScalar = 50
    EqScale = 31
    QueueBound = 1
    Times <- MCTimes
    StepSizes <- MCStepSizes
    Intervals <- SameInterval
    Solutions = {s1}
    Mixed = Mixed
    Stale = Stale
    MaxTimeStepDivisions = 0
    TargetSteps = 3
    MaxSteps = 2
    IterBound = 0
    HasPriVarsSwitch = FALSE
    DistinctCheckPoints = FALSE
PROPERTIES
    LoopEnds
