SPECIFICATION Spec
CHECK_DEADLOCK FALSE
CONSTANTS
    q1 = q1
    q2 = q2
    x1 = x1
    x2 = x2
    Calls = {q1, q2}
    Readers = {x1, x2}
    Validation = Validation
    None = None
    Done = Done
    Refused = Refused
    MaxPairs = 3
    MaxResets = 2
    Budgets <- AppOrRecovery
    MaxGeneration = 2
SYMMETRY CallSymmetry
INVARIANTS
    StorageIsOfTheLastSession
    RotationIsOneWay
    CompletedHasPhrase
