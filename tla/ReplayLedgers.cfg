SPECIFICATION Spec
CHECK_DEADLOCK FALSE
CONSTANTS
    a = a
    b = b
    c = c
    Assets = {a, b, c}
    ActiveAssets = {a, b}
    BaseCurrency = "EUR"
    Supported = {"EUR", "USD"}
    Precision = 10
    Nothing = Nothing
    Payloads <- Requests
    Markets <- SomeMarkets
    QuantityUnit = 2
    RateUnit = 2
    PctUnit = 1
    MaxMinor = 300
    MaxPct = 900
    MaxLedger = 3
INVARIANTS
    AcceptedIsWellFormed
    CashIsTheSumOfFlows
    WeightsAddUp
    ExactMeansExact
