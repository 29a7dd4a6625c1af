SPECIFICATION CellSpec
CONSTANTS
    Dofs <- MCCells
    ConnectivityMap <- MCConnectivity
    Shifts = {0, 1}
    Thresholds = {0, 1}
    MaxIterations = 3
INVARIANTS
    KeptNeighborsAreClose
