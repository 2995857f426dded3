----------------------------- MODULE OrderStore -----------------------------
(***************************************************************************)
(* The order store: what each method of TransactionManager does to the     *)
(* store, as operators from a store to a store, so that a handler that     *)
(* makes several calls is their composition.                               *)
(*                                                                         *)
(* An order keeps the fields the control flow reads.  Limit and stop       *)
(* prices and the tag are abstracted to `terms`, the number of updates     *)
(* accepted so far; times, average price and submission data are left out. *)
(***************************************************************************)
EXTENDS Integers, FiniteSets

CONSTANTS
    OrderIds,   \* engine order ids
    Symbols,    \* tradable symbols
    BrokerIds   \* ids a brokerage gives to the orders it accepts

ASSUME OrderIdsAssumption == IsFiniteSet(OrderIds)

Status == {"New", "Submitted", "PartiallyFilled", "Filled", "Canceled",
           "None", "Invalid", "CancelPending", "UpdateSubmitted"}

IsOpen(status) == status \notin {"Filled", "Canceled", "Invalid"}
(* Fault: a complete fill is not taken for a fill.                         *)
IsPartialFill(status) == status = "PartiallyFilled"

IsFill(status) == status \in {"Filled", "PartiallyFilled"}

Order == [symbol       : Symbols,
          quantity     : Int,        \* signed: negative sells
          filled       : Int,        \* signed, cumulative
          status       : Status,
          marketOnOpen : BOOLEAN,    \* order_type = MarketOnOpen
          brokerageIds : SUBSET BrokerIds,
          terms        : Nat]

OrderEvent == [orderId : OrderIds, status : Status, fillQuantity : Int]

(* The type of a store.  A ticket holds its own copy of the order.         *)
IsStore(s) ==
    /\ s \in [orders         : [DOMAIN s.orders -> Order],
              tickets        : [DOMAIN s.tickets -> Order],
              openIds        : SUBSET OrderIds,
              openCount      : Int,
              cancelRequests : SUBSET OrderIds,
              updateRequests : SUBSET OrderIds]
    /\ DOMAIN s.orders \subseteq OrderIds
    /\ DOMAIN s.tickets \subseteq OrderIds

EmptyStore == [orders |-> [id \in {} |-> {}], tickets |-> [id \in {} |-> {}],
               openIds |-> {}, openCount |-> 0,
               cancelRequests |-> {}, updateRequests |-> {}]

(* What the methods maintain: has_open_orders answers from the counter and *)
(* get_open_orders from the set, so both must agree with the orders.       *)
IndexExact(store) ==
    /\ store.openIds = {id \in DOMAIN store.orders : IsOpen(store.orders[id].status)}
    /\ store.openCount = Cardinality(store.openIds)

(* A ticket shows the stored order in everything but the quantity.         *)
Shows(ticket, order) ==
    /\ ticket.symbol = order.symbol
    /\ ticket.filled = order.filled
    /\ ticket.status = order.status
    /\ ticket.marketOnOpen = order.marketOnOpen
    /\ ticket.brokerageIds = order.brokerageIds
    /\ ticket.terms = order.terms

TicketsMirror(store) ==
    /\ DOMAIN store.tickets = DOMAIN store.orders
    /\ \A id \in DOMAIN store.orders : Shows(store.tickets[id], store.orders[id])

Remaining(order) == order.quantity - order.filled

(* A map after insert(id, v).                                              *)
Put(f, id, v) == [i \in DOMAIN f \cup {id} |-> IF i = id THEN v ELSE f[i]]

---------------------------------------------------------------------------
WithStatus(order, status) == [order EXCEPT !.status = status]

(* One write of an order and of its ticket's copy.                         *)
Write(store, id, order, ticket) ==
    [store EXCEPT !.orders[id] = order, !.tickets[id] = ticket]

(* Fault: an order that opens again is not indexed again.                  *)
OnlyClosesIndex(store, id, wasOpen, isOpen) ==
    [store EXCEPT
        !.openIds   = IF wasOpen /\ ~isOpen THEN @ \ {id} ELSE @,
        !.openCount = IF wasOpen /\ ~isOpen THEN @ - 1 ELSE @]

(* adjust_open_order_index: the set and the counter move together, on a    *)
(* change of openness only.                                                *)
AdjustOpenOrderIndex(store, id, wasOpen, isOpen) ==
    [store EXCEPT
        !.openIds   = IF wasOpen = isOpen THEN @ ELSE IF isOpen THEN @ \cup {id} ELSE @ \ {id},
        !.openCount = IF wasOpen = isOpen THEN @ ELSE IF isOpen THEN @ + 1 ELSE @ - 1]

AddOrder(store, id, order) ==
    [store EXCEPT
        !.orders    = Put(@, id, order),
        !.tickets   = Put(@, id, order),
        !.openIds   = IF IsOpen(order.status) THEN @ \cup {id} ELSE @,
        !.openCount = IF IsOpen(order.status) THEN @ + 1 ELSE @]

(* update_order: refused for an unknown id.                                *)
UpdateOrder(store, id, order) ==
    IF id \notin DOMAIN store.orders THEN store
    ELSE LET indexed == AdjustOpenOrderIndex(store, id,
                            IsOpen(store.orders[id].status), IsOpen(order.status))
         IN  Write(indexed, id, order, order)

AddOrUpdateOrder(store, id, order) ==
    IF id \in DOMAIN store.orders THEN UpdateOrder(store, id, order)
                                  ELSE AddOrder(store, id, order)

(* The event's effect on one copy of the order: OrderTicket.add_order_event *)
(* repeats what process_order_event does to the stored order.              *)
WithEvent(order, event) ==
    [order EXCEPT !.status = event.status,
                  !.filled = IF IsFill(event.status) THEN @ + event.fillQuantity ELSE @]

ProcessOrderEvent(store, event) ==
    LET id == event.orderId
    IN  IF id \notin DOMAIN store.orders THEN store
        ELSE LET indexed == AdjustOpenOrderIndex(store, id,
                                IsOpen(store.orders[id].status), IsOpen(event.status))
             IN  Write(indexed, id, WithEvent(store.orders[id], event),
                                    WithEvent(store.tickets[id], event))

(* request_cancel_order: any open order, whether or not a brokerage has it. *)
CanRequestCancel(store, id) ==
    /\ id \in DOMAIN store.orders
    /\ IsOpen(store.orders[id].status)

(* Fault: the ticket is forgotten.                                         *)
CancelWithoutTicket(store, id) ==
    [Write(store, id, WithStatus(store.orders[id], "CancelPending"), store.tickets[id])
        EXCEPT !.cancelRequests = @ \cup {id}]

RequestCancelOrder(store, id) ==
    [Write(store, id, WithStatus(store.orders[id], "CancelPending"),
                      WithStatus(store.tickets[id], "CancelPending"))
        EXCEPT !.cancelRequests = @ \cup {id},
               !.updateRequests = @ \ {id}]

(* request_update_order: a New order is amended in place and stays New; any *)
(* other open order becomes UpdateSubmitted.                               *)
CanRequestUpdate(store, id) ==
    /\ id \in DOMAIN store.orders
    /\ IsOpen(store.orders[id].status)
    /\ store.orders[id].status # "CancelPending"

(* Fault: the fields are rolled back instead of applied.                   *)
RollBackUpdate(store, id, quantity) ==
    UpdateOrder(store, id, [store.orders[id] EXCEPT !.terms = @ - 1])

RequestUpdateOrder(store, id, quantity) ==
    LET previous == store.orders[id]
        isNew    == previous.status = "New"
        updated  == [previous EXCEPT
                        !.quantity = quantity,
                        !.terms    = @ + 1,
                        !.status   = IF isNew THEN "New" ELSE "UpdateSubmitted"]
        stored   == UpdateOrder(store, id, updated)
    IN  IF isNew THEN stored
        ELSE [stored EXCEPT !.updateRequests = @ \cup {id}]

(* cancel_open_orders and cancel_open_orders_for_symbol: closed on the spot, *)
(* the brokerage is not asked.                                             *)
CancelOpenOrders(store, symbols) ==
    LET closing == {id \in store.openIds :
                        /\ id \in DOMAIN store.orders
                        /\ store.orders[id].symbol \in symbols
                        /\ IsOpen(store.orders[id].status)}
        Close(f) == [id \in DOMAIN f |->
                        IF id \in closing THEN WithStatus(f[id], "Canceled") ELSE f[id]]
    IN  [store EXCEPT !.orders    = Close(@),
                      !.tickets   = Close(@),
                      !.openIds   = @ \ closing,
                      !.openCount = @ - Cardinality(closing)]

(* quantity / factor, truncated towards zero; a factor is a ratio num/den. *)
SplitQuantity(quantity, factor) ==
    LET scaled == quantity * factor.den
    IN  IF scaled >= 0 THEN scaled \div factor.num ELSE -((-scaled) \div factor.num)

Resized(order, factor) == [order EXCEPT !.quantity = SplitQuantity(@, factor)]

(* apply_split_to_open_orders: the stored orders only, not their tickets.  *)
ApplySplitToOpenOrders(store, symbol, factor) ==
    LET split == {id \in DOMAIN store.orders : /\ store.orders[id].symbol = symbol
                                               /\ IsOpen(store.orders[id].status)}
    IN  [store EXCEPT !.orders = [id \in DOMAIN store.orders |->
                                     IF id \in split THEN Resized(store.orders[id], factor)
                                                     ELSE store.orders[id]]]
=============================================================================
