CONSTANTS
    spy = spy
    qqq = qqq
    wire1 = wire1
    wire2 = wire2
    wire3 = wire3
    OrderIds = {1, 2}
    Symbols = {spy, qqq}
    BrokerIds = {wire1, wire2}
    Menu <- MCTwo
    InitialHoldings <- MCHoldings
    AccountOrders <- MCNoAccountOrders
    Numbering <- MCTheirNumbers
    Unpriced <- MCNone
    CashAccount = FALSE
    Futures = {}
    Retries = 1
    LostAcks = FALSE
    AlgorithmCancels = TRUE
    BrokerCancels = TRUE
    MaxUpdates = 0
    MaxBells = 0
    MaxEvents = 2
SYMMETRY MCWires
SPECIFICATION Spec
INVARIANTS
    OneSubmissionInFlight
    PlacedOnce
    BooksExact
    HoldingsMatchFills
PROPERTIES
    ClosedForGood
CHECK_DEADLOCK FALSE
