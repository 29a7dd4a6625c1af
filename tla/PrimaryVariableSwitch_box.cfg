SPECIFICATION SwitchSpec
CONSTANTS
    SwitchDofs = {"d", "i"}
    ElementOrder <- BoxOrder
    DofsOf <- BoxDofs
    Faces = {}
    Stencil <- NoStencil
    BoundaryElements = {"left", "right"}
    DirichletDofs = {"d"}
    Values = {0, 1}
INVARIANTS
    CachesFollowSolution
