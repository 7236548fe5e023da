CONSTANTS
    Vars = {x, y, z}
    x = x
    y = y
    z = z
    Handles = {1, 2}
    VectorShapes <- MCVectorShapes
    RowShapes <- MCRowShapes
    TableShapes <- MCTableShapes
    MaxLen = 2
    MaxCalls = 3
SYMMETRY AnyVar
SPECIFICATION Spec
CHECK_DEADLOCK FALSE
INVARIANTS
    NothingTwice
    AnswerArrives
    OneOwner
    OnlyAssignmentsLeak
PROPERTIES
    ViewsHold
