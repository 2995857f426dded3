CONSTANTS
    spy = spy
    OrderIds = {1, 2}
    Symbols = {spy}
    BrokerIds = {}
    Menu <- MCShortMenu
    Fine = {}
    Rejects = FALSE
    Resizes = {1}
    MaxUpdates = 1
SPECIFICATION Spec
INVARIANTS
    OnDataAtSliceTime
CHECK_DEADLOCK FALSE
