SPECIFICATION Spec
CONSTANTS
    p1 = p1
    p2 = p2
    r1 = r1
    r2 = r2
    r3 = r3
    w1 = w1
    w2 = w2
    NoRequest = NoRequest
    Portfolios = {p1}
    Requests = {r1, r2}
    PortfolioOf <- TwoRequests
    Workers = {w1}
    MaxAttempts = 2
    BatchSize = 2
    MaxPosted = 2
    SlowWorkers = FALSE
PROPERTIES
    FailureIsRecorded
