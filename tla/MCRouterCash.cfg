CONSTANTS
    spy = spy
    qqq = qqq
    wire1 = wire1
    wire2 = wire2
    wire3 = wire3
    OrderIds = {1, 2}
    Symbols = {spy, qqq}
    BrokerIds = {wire1, wire2}
    Menu <- MCSellBuy
    InitialHoldings <- MCHoldings
    AccountOrders <- MCNoAccountOrders
    Numbering <- MCTheirNumbers
    Unpriced <- MCUnpriced
    CashAccount = TRUE
    Futures = {}
    Retries = 1
    LostAcks = FALSE
    AlgorithmCancels = FALSE
    BrokerCancels = TRUE
    MaxUpdates = 0
    MaxBells = 1
    MaxEvents = 1
SPECIFICATION FairBrokerSpec
PROPERTIES
    ReductionsFirst
    OrdersLeaveNew
    FillsReachPortfolio
CHECK_DEADLOCK FALSE
