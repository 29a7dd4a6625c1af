SPECIFICATION LtsSpec
CONSTANTS
    EndTime = 8
    MaxTimeStepSize = 6
    OutputTimeInterval = 3
    OutputIntervals = {0, 1}
    RestartFactor = 2
    DtInitials = {3}
    DtVariation = 1
    TransportSteps = {4, 8}
    MaxCrashes = 1
    Cells <- MCCells
    CellsOf <- MCCellsOf
    CellSteps = {2, 4}
    FactorUnit = 2
    CflFactor = 4
    SubCflFactor = 1
    MaxScalar = 100
INVARIANTS
    SeqInv
    StepStaysInside
    EpisodesOnGrid
    SolutionFollowsTime
    EpisodeEndsWritten
    SidesAgree
    CellsFollowStep
    SomeFaceIsDue
PROPERTIES
    EmptyStepOnlyFirst
    ImplementsSimulation
    RunEnds
CHECK_DEADLOCK FALSE
