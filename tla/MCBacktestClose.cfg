CONSTANTS
    spy = spy
    OrderIds = {1, 2}
    Symbols = {spy}
    BrokerIds = {}
    Menu <- MCShortMenu
    Fine = {spy}
    Rejects = TRUE
    Resizes = {1}
    MaxUpdates = 1
SPECIFICATION FairSpec
PROPERTIES
    MarketOrdersClose
CHECK_DEADLOCK FALSE
