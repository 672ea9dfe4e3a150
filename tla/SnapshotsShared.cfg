SPECIFICATION Spec
CHECK_DEADLOCK FALSE
SYMMETRY RefresherSymmetry
CONSTANTS
    w1 = w1
    w2 = w2
    a = a
    b = b
    buyA = buyA
    buyB = buyB
    sellA = sellA
    Nothing = Nothing
    Refreshers = {w1, w2}
    Backfills = {"backfill"}
    Operations = {buyA, buyB, sellA}
    DayOf <- Dates
    Opens <- Purchases
    Closes <- Sales
    CreatedOn = 2
    LastDay = 3
    Ranges <- ShortRanges
    MaxRuns = 1
INVARIANTS
    SnapshotsAreOfOneRun
    LastRebuildIsThere
    BackfillIsAsOf
    BackfillCoversItsRange
    SomeRunAdvances
