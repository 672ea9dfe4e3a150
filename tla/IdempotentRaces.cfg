SPECIFICATION FairSpec
CONSTANTS
    Keys = {k1}
    Bodies = {b1, b2}
    Originals = {a1}
    Operations = {o1, o2}
    Calls = {c1, c2}
    Nothing = Nothing
INVARIANTS
    OneOperationPerKey
    SuccessNamesItsOperation
    RecordedRequestReplays
PROPERTIES
    ImplementsCreateOnce
    EveryRequestEnds
