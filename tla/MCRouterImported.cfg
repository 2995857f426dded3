CONSTANTS
    spy = spy
    qqq = qqq
    wire1 = wire1
    wire2 = wire2
    wire3 = wire3
    OrderIds = {1, 2}
    Symbols = {spy, qqq}
    BrokerIds = {wire1, wire2, wire3}
    Menu <- MCSellBuy
    InitialHoldings <- MCHoldings
    AccountOrders <- MCOldSell
    Numbering <- MCTheirNumbers
    Unpriced <- MCNone
    CashAccount = TRUE
    Futures = {}
    Retries = 1
    LostAcks = FALSE
    AlgorithmCancels = FALSE
    BrokerCancels = FALSE
    MaxUpdates = 0
    MaxBells = 0
    MaxEvents = 2
SPECIFICATION FairBrokerSpec
PROPERTIES
    OrdersLeaveNew
CHECK_DEADLOCK FALSE
