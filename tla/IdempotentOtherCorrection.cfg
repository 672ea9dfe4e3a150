SPECIFICATION Spec
CONSTANTS
    Keys = {k1}
    Bodies = {b1}
    Originals = {a1}
    Operations = {o1}
    Calls = {c1}
    Nothing = Nothing
INVARIANTS
    ReplayIsForTheSameRequest
