SPECIFICATION Spec
CONSTANTS
    Symbols = {spy}
    Sources = {momentum, news}
    Deterministic = {momentum}
    momentum = momentum
    news = news
    Period <- MCPeriod
    EverySlice = FALSE
    NextRebalance <- MCNextRebalance
    OnInsights = TRUE
    OnSecurities = TRUE
    Window = 2
    None = None
    MaxTime = 3
    MaxSignals = 2
    MaxCrashes = 1
INVARIANT RetainedUntilProjected
CHECK_DEADLOCK FALSE
