CONSTANTS
    spy = spy
    qqq = qqq
    wire1 = wire1
    wire2 = wire2
    wire3 = wire3
    OrderIds = {1}
    Symbols = {spy, qqq}
    BrokerIds = {wire1, wire2, wire3}
    Menu <- MCSell
    InitialHoldings <- MCHoldings
    AccountOrders <- MCNamesake
    Numbering <- MCEitherNumber
    Unpriced <- MCUnpriced
    CashAccount = FALSE
    Futures = {}
    Retries = 2
    LostAcks = TRUE
    AlgorithmCancels = TRUE
    BrokerCancels = TRUE
    MaxUpdates = 1
    MaxBells = 2
    MaxEvents = 1
SYMMETRY MCWires
SPECIFICATION Spec
INVARIANTS
    TypeOK
    RetryBudget
    HoldingsMatchFills
    FillsAppliedOnce
PROPERTIES
    ClosedWhileAlone
CHECK_DEADLOCK FALSE
