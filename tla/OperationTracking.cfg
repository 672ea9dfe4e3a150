SPECIFICATION Spec
CONSTANTS
    None = None
    p1 = p1
    p2 = p2
    alice = alice
    bob = bob
    Users = {alice, bob}
    Portfolios = {p1, p2}
    OwnerOf <- BothOfAlice
    Forms = {1, 2}
    MaxPolls = 2
    MaxOperations = 2
    Budgets <- EditsReloadsOrSwitches
INVARIANTS
    UnsettledIsPolledOnce
    UnsettledIsPersisted
    OneOperationPerAttempt
    LoadedIsActive
PROPERTY EveryTrackingEnds
CHECK_DEADLOCK FALSE
