SPECIFICATION Spec
CHECK_DEADLOCK FALSE
CONSTANTS
    p1 = p1
    p2 = p2
    a1 = a1
    a2 = a2
    Nothing = Nothing
    Processes = {p1, p2}
    Assets = {a1, a2}
    Allowlist = Nothing
    Quotes <- QuoteSet
    KnownOn <- Known
    Deployments <- SameJob
    CurrencySets <- ThreeCurrencies
    Ranges <- Weekends
    Deletable = {a1}
    MaxRuns = 3
    Currencies <- AllCurrencies
    Rank <- CodeRank
    UnitsPerEuro <- FrozenUnits
    Euro = Nothing
    CodeHash <- Hashes
    AnchorWeekday = 3
    BpsUnit = 1000
    RateUnit = 1000
    MaxCarryDays = 2
INVARIANTS
    NoUnreportedGap
    LookupsCarryForward
    CrossRatesAgree
    NoAnswerIsLost
PROPERTIES
    BatchLandsWhole
