CONSTANTS
    spy = spy
    qqq = qqq
    wire1 = wire1
    wire2 = wire2
    wire3 = wire3
    OrderIds = {1}
    Symbols = {spy, qqq}
    BrokerIds = {wire1, wire2, wire3}
    Menu <- MCSell
    InitialHoldings <- MCHoldings
    AccountOrders <- MCNoAccountOrders
    Numbering <- MCTheirNumbers
    Unpriced <- MCNone
    CashAccount = FALSE
    Futures = {}
    Retries = 1
    LostAcks = FALSE
    AlgorithmCancels = TRUE
    BrokerCancels = FALSE
    MaxUpdates = 0
    MaxBells = 0
    MaxEvents = 2
SPECIFICATION FairBrokerSpec
PROPERTIES
    CanceledFillsReachPortfolio
CHECK_DEADLOCK FALSE
