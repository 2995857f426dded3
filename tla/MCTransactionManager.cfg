CONSTANTS
    order1 = order1
    order2 = order2
    spy = spy
    qqq = qqq
    broker1 = broker1
    OrderIds <- MCOrderIds
    Symbols <- MCSymbols
    BrokerIds <- MCBrokerIds
    Quantities <- MCQuantities
    SplitFactors <- MCSplits
    MaxUpdates = 1
SYMMETRY MCSymmetry
SPECIFICATION Spec
INVARIANTS
    TypeOK
    OpenIndexExact
    TicketsMirrorOrders
