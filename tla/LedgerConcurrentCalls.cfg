SPECIFICATION Spec
CHECK_DEADLOCK FALSE
CONSTANTS
    Operations = {o1, o2}
    Calls = {c1, c2}
    NoOperation = NoOperation
SYMMETRY RowAndCallSymmetry
INVARIANTS
    OneRefreshPerPosting
    CorrectsAPostedOriginal
PROPERTIES
    ImplementsPostedLedger
