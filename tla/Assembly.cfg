SPECIFICATION Spec
CONSTANTS
    Dofs <- MCVertices
    Elements <- MCElements
    Processes = {1, 2}
    VerticesOf <- MCVerticesOf
    Holder <- MCHolder
    ConnectivityMap <- MCConnectivity
    Shifts = {0, 1}
    Thresholds = {0, 1}
    MaxIterations = 3
    SwitchDofs = {1, 2, 3}
    ElementOrder <- MCElementOrder
    DofsOf <- MCDofsOf
    Faces <- MCFaces
    Stencil <- MCStencil
    BoundaryElements = {}
    DirichletDofs = {}
    Values = {0, 1}
    Models = {"2pnc", "co2", "2p1c", "richards", "3p3c", "3pwateroil_gas"}
INVARIANTS
    TypesCorrect
    RowsComplete
    RowsOfOneIterate
    BorderColorsAgree
    KeptRowsAreClose
    KeptColumnsAreClose
    CachesFollowSolution
    SwitchedVarsFit
PROPERTY
    SettlesDown
