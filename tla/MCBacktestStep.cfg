CONSTANTS
    spy = spy
    OrderIds = {1, 2, 3}
    Symbols = {spy}
    BrokerIds = {}
    Menu <- MCMenu
    Fine = {spy}
    Rejects = TRUE
    Resizes = {1}
    MaxUpdates = 1
SPECIFICATION Spec
INVARIANTS
    TypeOK
    HoldingsMatchFills
    PendingFillsFit
    FilledInFull
    SettledBeforeData
    LiquidatedEndsFlat
PROPERTIES
    ClosedForGood
CHECK_DEADLOCK FALSE
