-------------------------- MODULE TransactionManager --------------------------
(***************************************************************************)
(* TransactionManager as a component of its own: the algorithm places,     *)
(* cancels and amends orders, and a fill source (the order processor or    *)
(* the brokerage router) reports events.  All callers run on the loop      *)
(* thread, so a method is one step.                                        *)
(***************************************************************************)
EXTENDS OrderStore

CONSTANTS
    Quantities,     \* signed quantities the algorithm asks for
    SplitFactors,   \* split factors, as ratios [num, den]
    MaxUpdates      \* bound: updates accepted per order

ASSUME QuantitiesAssumption   == Quantities \subseteq Int \ {0}
ASSUME SplitFactorsAssumption == SplitFactors \subseteq [num : Nat \ {0}, den : Nat \ {0}]
ASSUME MaxUpdatesAssumption   == MaxUpdates \in Nat

VARIABLE store

Init == store = EmptyStore

NewOrder(symbol, quantity, status) ==
    [symbol |-> symbol, quantity |-> quantity, filled |-> 0, status |-> status,
     marketOnOpen |-> FALSE, brokerageIds |-> {}, terms |-> 0]

(* QcAlgorithm.submit_order: ids are drawn from one counter, so an id is   *)
(* added once; an order that fails validation is added already Invalid and *)
(* its Invalid event is processed.                                         *)
Place(id, symbol, quantity) ==
    /\ id \notin DOMAIN store.orders
    /\ store' = AddOrder(store, id, NewOrder(symbol, quantity, "New"))

PlaceInvalid(id, symbol, quantity) ==
    /\ id \notin DOMAIN store.orders
    /\ store' = ProcessOrderEvent(
                    AddOrder(store, id, NewOrder(symbol, quantity, "Invalid")),
                    [orderId |-> id, status |-> "Invalid", fillQuantity |-> 0])

Cancel(id) ==
    /\ CanRequestCancel(store, id)
    /\ store' = RequestCancelOrder(store, id)

Update(id, quantity) ==
    /\ CanRequestUpdate(store, id)
    /\ store.orders[id].terms < MaxUpdates
    /\ store' = RequestUpdateOrder(store, id, quantity)

(* An order the brokerage already holds is imported, or the stored copy is *)
(* replaced by one a handler amended.                                      *)
Amend(id, status, brokerageIds) ==
    /\ id \in DOMAIN store.orders
    /\ store' = AddOrUpdateOrder(store, id,
                    [store.orders[id] EXCEPT !.status = status, !.brokerageIds = brokerageIds])

Import(id, symbol, quantity, brokerageIds) ==
    /\ id \notin DOMAIN store.orders
    /\ store' = AddOrUpdateOrder(store, id,
                    [NewOrder(symbol, quantity, "Submitted") EXCEPT !.brokerageIds = brokerageIds])

(* A fill source reports a fill of what remains, or a part of it, of an    *)
(* open order, or a new status of any order: the status it reports may be  *)
(* older than the one stored.                                              *)
Fill(id, quantity) ==
    /\ id \in DOMAIN store.orders
    /\ IsOpen(store.orders[id].status)
    /\ quantity # 0
    /\ \/ /\ Remaining(store.orders[id]) > 0
          /\ quantity \in 1..Remaining(store.orders[id])
       \/ /\ Remaining(store.orders[id]) < 0
          /\ quantity \in Remaining(store.orders[id])..(-1)
    /\ store' = ProcessOrderEvent(store,
                    [orderId      |-> id,
                     status       |-> IF quantity = Remaining(store.orders[id])
                                      THEN "Filled" ELSE "PartiallyFilled",
                     fillQuantity |-> quantity])

ReportStatus(id, status) ==
    /\ id \in DOMAIN store.orders
    /\ store' = ProcessOrderEvent(store,
                    [orderId |-> id, status |-> status, fillQuantity |-> 0])

CancelAll(symbols) ==
    /\ store.openIds # {}
    /\ store' = CancelOpenOrders(store, symbols)

Split(symbol, factor) ==
    /\ store' = ApplySplitToOpenOrders(store, symbol, factor)
    /\ \A id \in DOMAIN store'.orders :
           store'.orders[id].quantity \in Quantities \cup {0}   \* bound on quantities

ReportedStatus == {"Submitted", "PartiallyFilled", "Canceled", "Invalid"}

Next ==
    \/ \E id \in OrderIds, symbol \in Symbols, quantity \in Quantities :
          \/ Place(id, symbol, quantity)
          \/ PlaceInvalid(id, symbol, quantity)
          \/ \E brokerId \in BrokerIds : Import(id, symbol, quantity, {brokerId})
    \/ \E id \in OrderIds :
          \/ Cancel(id)
          \/ \E quantity \in Quantities : Update(id, quantity)
          \/ \E status \in {"Submitted", "Invalid"}, brokerageIds \in SUBSET BrokerIds :
                Amend(id, status, brokerageIds)
          \/ \E quantity \in Quantities : Fill(id, quantity)
          \/ \E status \in ReportedStatus : ReportStatus(id, status)
    \/ CancelAll(Symbols)
    \/ \E symbol \in Symbols : CancelAll({symbol})
    \/ \E symbol \in Symbols, factor \in SplitFactors : Split(symbol, factor)

Spec == Init /\ [][Next]_store

---------------------------------------------------------------------------
(* The types of the store's fields.                                        *)
TypeOK == IsStore(store)

(* Whatever mixture of placements, cancels, amendments, fills and stale    *)
(* statuses reaches the store, the open-order set holds exactly the open   *)
(* orders and the counter that has_open_orders reads is its size: an order *)
(* missing here would never be dispatched or filled again.                 *)
OpenIndexExact == IndexExact(store)

(* The ticket the algorithm holds shows the status, the fills and the ids  *)
(* of the stored order although each keeps its own copy and applies every  *)
(* event to it separately.                                                 *)
TicketsMirrorOrders == TicketsMirror(store)
=============================================================================
