SPECIFICATION ClientSpec
CONSTANTS
    MaxScalar = 50
    EqScale = 31
    QueueBound = 2
    Times <- MCTimes
    StepSizes <- MCStepSizes
    Intervals <- MCIntervals
CONSTRAINT
    ClockBound
INVARIANTS
    QueueSorted
    ClientInv
PROPERTIES
    CallRepairsStep
    CheckPointsMet
