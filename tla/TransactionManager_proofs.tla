---------------------- MODULE TransactionManager_proofs ----------------------
(***************************************************************************)
(* The order store stays consistent through every operation of the         *)
(* transaction manager, for any orders, symbols and quantities.            *)
(***************************************************************************)
EXTENDS TransactionManager, OrderStore_proofs

(* A new order is an order.                                                *)
LEMMA NewOrderType ==
    ASSUME NEW symbol \in Symbols, NEW quantity \in Int, NEW status \in Status
    PROVE  NewOrder(symbol, quantity, status) \in Order
BY DEF NewOrder, Order

(* Every operation keeps the store consistent.                             *)
LEMMA StepOK ==
    ASSUME StoreOK(store), Next
    PROVE  StoreOK(store')
<1> USE QuantitiesAssumption, SplitFactorsAssumption
<1>0. {"New", "Invalid", "Submitted", "Filled", "PartiallyFilled"} \subseteq Status
      /\ ReportedStatus \subseteq Status
  BY DEF Status, ReportedStatus
<1>1. ASSUME NEW id \in OrderIds, NEW symbol \in Symbols, NEW quantity \in Quantities,
             Place(id, symbol, quantity)
      PROVE  StoreOK(store')
  <2>1. NewOrder(symbol, quantity, "New") \in Order
    BY <1>0, NewOrderType
  <2> QED BY <1>1, <2>1, AddOrderOK DEF Place
<1>2. ASSUME NEW id \in OrderIds, NEW symbol \in Symbols, NEW quantity \in Quantities,
             PlaceInvalid(id, symbol, quantity)
      PROVE  StoreOK(store')
  <2> DEFINE event == [orderId |-> id, status |-> "Invalid", fillQuantity |-> 0]
  <2>1. NewOrder(symbol, quantity, "Invalid") \in Order
    BY <1>0, NewOrderType
  <2>2. event \in OrderEvent
    BY <1>0 DEF OrderEvent
  <2>3. StoreOK(AddOrder(store, id, NewOrder(symbol, quantity, "Invalid")))
    BY <1>2, <2>1, AddOrderOK DEF PlaceInvalid
  <2> HIDE DEF event
  <2>4. StoreOK(ProcessOrderEvent(AddOrder(store, id, NewOrder(symbol, quantity, "Invalid")), event))
    BY <2>2, <2>3, ProcessOrderEventOK
  <2> QED BY <1>2, <2>4 DEF PlaceInvalid, event
<1>3. ASSUME NEW id \in OrderIds, NEW symbol \in Symbols, NEW quantity \in Quantities,
             NEW brokerId \in BrokerIds, Import(id, symbol, quantity, {brokerId})
      PROVE  StoreOK(store')
  <2> DEFINE o == [NewOrder(symbol, quantity, "Submitted") EXCEPT !.brokerageIds = {brokerId}]
  <2>1. o \in Order
    <3>1. NewOrder(symbol, quantity, "Submitted") \in Order
      BY <1>0, NewOrderType
    <3> QED BY <3>1 DEF Order
  <2>2. store' = AddOrUpdateOrder(store, id, o)
    BY <1>3 DEF Import
  <2> HIDE DEF o
  <2> QED BY <2>1, <2>2, AddOrUpdateOrderOK
<1>4. ASSUME NEW id \in OrderIds, Cancel(id)
      PROVE  StoreOK(store')
  BY <1>4, RequestCancelOrderOK DEF Cancel
<1>5. ASSUME NEW id \in OrderIds, NEW quantity \in Quantities, Update(id, quantity)
      PROVE  StoreOK(store')
  <2>1. quantity \in Int
    OBVIOUS
  <2> QED BY <1>5, <2>1, RequestUpdateOrderOK DEF Update
<1>6. ASSUME NEW id \in OrderIds, NEW status \in {"Submitted", "Invalid"},
             NEW brokerageIds \in SUBSET BrokerIds, Amend(id, status, brokerageIds)
      PROVE  StoreOK(store')
  <2> DEFINE o == [store.orders[id] EXCEPT !.status = status, !.brokerageIds = brokerageIds]
  <2>1. store.orders[id] \in Order
    BY <1>6 DEF Amend, StoreOK, IsStore
  <2>2. o \in Order
    BY <1>0, <2>1 DEF Order
  <2>3. store' = AddOrUpdateOrder(store, id, o)
    BY <1>6 DEF Amend
  <2> HIDE DEF o
  <2> QED BY <2>2, <2>3, AddOrUpdateOrderOK
<1>7. ASSUME NEW id \in OrderIds, NEW quantity \in Quantities, Fill(id, quantity)
      PROVE  StoreOK(store')
  <2> DEFINE event == [orderId      |-> id,
                       status       |-> IF quantity = Remaining(store.orders[id])
                                        THEN "Filled" ELSE "PartiallyFilled",
                       fillQuantity |-> quantity]
  <2>1. event \in OrderEvent
    BY <1>0 DEF OrderEvent
  <2>2. store' = ProcessOrderEvent(store, event)
    BY <1>7 DEF Fill
  <2> HIDE DEF event
  <2> QED BY <2>1, <2>2, ProcessOrderEventOK
<1>8. ASSUME NEW id \in OrderIds, NEW status \in ReportedStatus, ReportStatus(id, status)
      PROVE  StoreOK(store')
  <2> DEFINE event == [orderId |-> id, status |-> status, fillQuantity |-> 0]
  <2>1. event \in OrderEvent
    BY <1>0 DEF OrderEvent
  <2>2. store' = ProcessOrderEvent(store, event)
    BY <1>8 DEF ReportStatus
  <2> HIDE DEF event
  <2> QED BY <2>1, <2>2, ProcessOrderEventOK
<1>9. ASSUME NEW symbols, CancelAll(symbols)
      PROVE  StoreOK(store')
  BY <1>9, CancelOpenOrdersOK DEF CancelAll
<1>10. ASSUME NEW symbol \in Symbols, NEW factor \in SplitFactors, Split(symbol, factor)
       PROVE  StoreOK(store')
  <2>1. factor \in [num : Nat \ {0}, den : Nat \ {0}]
    OBVIOUS
  <2> QED BY <1>10, <2>1, ApplySplitOK DEF Split
<1> QED BY <1>1, <1>2, <1>3, <1>4, <1>5, <1>6, <1>7, <1>8, <1>9, <1>10 DEF Next

(* In every reachable state the store has its type, the open-order index   *)
(* is exact and every ticket mirrors its order.                            *)
THEOREM StoreConsistent == Spec => [](TypeOK /\ OpenIndexExact /\ TicketsMirrorOrders)
<1>1. Init => StoreOK(store)
  BY EmptyStoreOK DEF Init
<1>2. StoreOK(store) /\ [Next]_store => StoreOK(store)'
  BY StepOK DEF StoreOK, IsStore, IndexExact, TicketsMirror
<1>3. StoreOK(store) => TypeOK /\ OpenIndexExact /\ TicketsMirrorOrders
  BY DEF StoreOK, TypeOK, OpenIndexExact, TicketsMirrorOrders
<1> QED BY <1>1, <1>2, <1>3, PTL DEF Spec

(* The store, its orders and its tickets keep their types.                 *)
THEOREM StoreTyped == Spec => []TypeOK
BY StoreConsistent, PTL

(* Every order has a ticket, which shows what the order is.                *)
THEOREM TicketsFollowOrders == Spec => []TicketsMirrorOrders
BY StoreConsistent, PTL
=============================================================================
