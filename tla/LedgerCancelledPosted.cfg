SPECIFICATION Spec
CHECK_DEADLOCK FALSE
CONSTANTS
    Operations = {o1}
    Calls = {c1, c2}
    NoOperation = NoOperation
SYMMETRY RowAndCallSymmetry
PROPERTIES
    CancelledIsFinal
