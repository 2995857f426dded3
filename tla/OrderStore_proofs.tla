-------------------------- MODULE OrderStore_proofs --------------------------
(***************************************************************************)
(* Every method of the order store keeps the open-order index exact and    *)
(* the tickets in step with the orders.                                    *)
(***************************************************************************)
EXTENDS OrderStore, FiniteSetTheorems, TLAPS

StoreOK(s) == IsStore(s) /\ IndexExact(s) /\ TicketsMirror(s)

(* The empty store is consistent.                                          *)
LEMMA EmptyStoreOK == StoreOK(EmptyStore)
<1>1. IsStore(EmptyStore)
  BY DEF IsStore, EmptyStore
<1>2. IndexExact(EmptyStore)
  BY FS_EmptySet DEF IndexExact, EmptyStore
<1>3. TicketsMirror(EmptyStore)
  BY DEF TicketsMirror, EmptyStore
<1> QED BY <1>1, <1>2, <1>3 DEF StoreOK

(* The open ids of a store are a finite set.                               *)
LEMMA OpenIdsFinite ==
    ASSUME NEW s, StoreOK(s)
    PROVE  IsFiniteSet(s.openIds) /\ Cardinality(s.openIds) \in Nat
BY OrderIdsAssumption, FS_Subset, FS_CardinalityType DEF StoreOK, IsStore

(* adjust_open_order_index changes the index only.                         *)
LEMMA AdjustedFields ==
    ASSUME NEW s, IsStore(s), NEW id \in OrderIds,
           NEW was \in BOOLEAN, NEW is \in BOOLEAN,
           NEW a, a = AdjustOpenOrderIndex(s, id, was, is)
    PROVE  /\ IsStore(a)
           /\ a.orders = s.orders
           /\ a.tickets = s.tickets
           /\ a.cancelRequests = s.cancelRequests
           /\ a.updateRequests = s.updateRequests
           /\ was = is => a.openIds = s.openIds /\ a.openCount = s.openCount
           /\ ~was /\ is => /\ a.openIds = s.openIds \cup {id}
                            /\ a.openCount = s.openCount + 1
           /\ was /\ ~is => /\ a.openIds = s.openIds \ {id}
                            /\ a.openCount = s.openCount - 1
<1>1. s.openCount \in Int /\ s.openCount + 1 \in Int /\ s.openCount - 1 \in Int
  BY DEF IsStore
<1> QED BY <1>1 DEF AdjustOpenOrderIndex, IsStore

(* Writing one order and its ticket changes nothing else.                  *)
LEMMA WrittenFields ==
    ASSUME NEW a, IsStore(a), NEW id \in DOMAIN a.orders, id \in DOMAIN a.tickets,
           NEW o \in Order, NEW t \in Order,
           NEW r, r = Write(a, id, o, t)
    PROVE  /\ IsStore(r)
           /\ r.orders = [a.orders EXCEPT ![id] = o]
           /\ r.tickets = [a.tickets EXCEPT ![id] = t]
           /\ r.openIds = a.openIds
           /\ r.openCount = a.openCount
           /\ r.cancelRequests = a.cancelRequests
           /\ r.updateRequests = a.updateRequests
BY DEF IsStore, Write

(* Openness as a pair of booleans.                                          *)
LEMMA OpenIsBoolean == \A status : IsOpen(status) \in BOOLEAN
BY DEF IsOpen

(* A store that agrees with s but for one rewritten order, and whose index  *)
(* followed its openness, is as consistent as s.                            *)
LEMMA ReindexedOK ==
    ASSUME NEW s, StoreOK(s), NEW id \in DOMAIN s.orders,
           NEW o \in Order, NEW t \in Order, Shows(t, o),
           NEW r, IsStore(r),
           r.orders = [s.orders EXCEPT ![id] = o],
           r.tickets = [s.tickets EXCEPT ![id] = t],
           NEW was \in BOOLEAN, was = IsOpen(s.orders[id].status),
           NEW is \in BOOLEAN, is = IsOpen(o.status),
           was = is => r.openIds = s.openIds /\ r.openCount = s.openCount,
           ~was /\ is => r.openIds = s.openIds \cup {id} /\ r.openCount = s.openCount + 1,
           was /\ ~is => r.openIds = s.openIds \ {id} /\ r.openCount = s.openCount - 1
    PROVE  StoreOK(r)
<1>1. DOMAIN r.orders = DOMAIN s.orders /\ DOMAIN r.tickets = DOMAIN s.tickets
  OBVIOUS
<1>2. DOMAIN s.tickets = DOMAIN s.orders
  BY DEF StoreOK, TicketsMirror
<1>3. \A i \in DOMAIN s.orders : i # id => r.orders[i] = s.orders[i] /\ r.tickets[i] = s.tickets[i]
  BY <1>2
<1>4. r.orders[id] = o /\ r.tickets[id] = t
  BY <1>2
<1>5. IndexExact(r)
  <2>1. s.openIds = {i \in DOMAIN s.orders : IsOpen(s.orders[i].status)}
    BY DEF StoreOK, IndexExact
  <2>2. r.openIds = {i \in DOMAIN r.orders : IsOpen(r.orders[i].status)}
    <3>1. \A i \in DOMAIN s.orders :
              i # id => (i \in r.openIds <=> IsOpen(r.orders[i].status))
      BY <1>3, <2>1
    <3>2. id \in r.openIds <=> IsOpen(r.orders[id].status)
      BY <1>4, <2>1
    <3>3. r.openIds \subseteq DOMAIN s.orders
      BY <2>1
    <3> QED BY <3>1, <3>2, <3>3, <1>1
  <2>3. r.openCount = Cardinality(r.openIds)
    <3>1. IsFiniteSet(s.openIds) /\ Cardinality(s.openIds) \in Nat
      BY OpenIdsFinite
    <3>2. s.openCount = Cardinality(s.openIds)
      BY DEF StoreOK, IndexExact
    <3>3. CASE ~was /\ is
      <4>1. Cardinality(s.openIds \cup {id}) = Cardinality(s.openIds) + 1
        BY <3>1, <3>3, <2>1, FS_AddElement
      <4> QED BY <4>1, <3>2, <3>3
    <3>4. CASE was /\ ~is
      <4>1. Cardinality(s.openIds \ {id}) = Cardinality(s.openIds) - 1
        BY <3>1, <3>4, <2>1, FS_RemoveElement
      <4> QED BY <4>1, <3>2, <3>4
    <3>5. CASE was = is
      BY <3>2, <3>5
    <3> QED BY <3>3, <3>4, <3>5
  <2> QED BY <2>2, <2>3 DEF IndexExact
<1>6. TicketsMirror(r)
  <2>1. \A i \in DOMAIN s.orders : Shows(s.tickets[i], s.orders[i])
    BY DEF StoreOK, TicketsMirror
  <2>2. \A i \in DOMAIN s.orders : Shows(r.tickets[i], r.orders[i])
    BY <2>1, <1>3, <1>4
  <2> QED BY <2>2, <1>1, <1>2 DEF TicketsMirror
<1> QED BY <1>5, <1>6 DEF StoreOK

(* Rewriting an order and its ticket together keeps the store consistent.  *)
LEMMA RewrittenOK ==
    ASSUME NEW s, StoreOK(s), NEW id \in DOMAIN s.orders,
           NEW o \in Order, NEW t \in Order, Shows(t, o)
    PROVE  LET a == AdjustOpenOrderIndex(s, id, IsOpen(s.orders[id].status), IsOpen(o.status))
               r == Write(a, id, o, t)
           IN  /\ StoreOK(r)
               /\ r.orders = [s.orders EXCEPT ![id] = o]
               /\ r.cancelRequests = s.cancelRequests
               /\ r.updateRequests = s.updateRequests
<1>1. PICK was \in BOOLEAN, is \in BOOLEAN :
          was = IsOpen(s.orders[id].status) /\ is = IsOpen(o.status)
  BY OpenIsBoolean
<1>2. PICK a : a = AdjustOpenOrderIndex(s, id, was, is)
  OBVIOUS
<1>3. PICK r : r = Write(a, id, o, t)
  OBVIOUS
<1>4. id \in OrderIds
  BY DEF StoreOK, IsStore
<1>5. /\ IsStore(a)
      /\ a.orders = s.orders
      /\ a.tickets = s.tickets
      /\ a.cancelRequests = s.cancelRequests
      /\ a.updateRequests = s.updateRequests
      /\ was = is => a.openIds = s.openIds /\ a.openCount = s.openCount
      /\ ~was /\ is => a.openIds = s.openIds \cup {id} /\ a.openCount = s.openCount + 1
      /\ was /\ ~is => a.openIds = s.openIds \ {id} /\ a.openCount = s.openCount - 1
  BY <1>2, <1>4, AdjustedFields DEF StoreOK
<1>6. id \in DOMAIN a.orders /\ id \in DOMAIN a.tickets
  BY <1>5 DEF StoreOK, TicketsMirror
<1>7. /\ IsStore(r)
      /\ r.orders = [a.orders EXCEPT ![id] = o]
      /\ r.tickets = [a.tickets EXCEPT ![id] = t]
      /\ r.openIds = a.openIds
      /\ r.openCount = a.openCount
      /\ r.cancelRequests = a.cancelRequests
      /\ r.updateRequests = a.updateRequests
  <2>1. IsStore(a)
    BY <1>5
  <2> HIDE <1>2, <1>5
  <2> QED BY <2>1, <1>6, <1>3, WrittenFields
<1>8. StoreOK(r)
  BY <1>1, <1>5, <1>7, ReindexedOK
<1> QED BY <1>1, <1>2, <1>3, <1>5, <1>7, <1>8


(* update_order keeps the store consistent, for a known or an unknown id.  *)
LEMMA UpdateOrderOK ==
    ASSUME NEW s, StoreOK(s), NEW id, NEW o \in Order
    PROVE  StoreOK(UpdateOrder(s, id, o))
<1>1. CASE id \notin DOMAIN s.orders
  BY <1>1 DEF UpdateOrder
<1>2. CASE id \in DOMAIN s.orders
  <2>1. Shows(o, o)
    BY DEF Shows
  <2> QED BY <1>2, <2>1, RewrittenOK DEF UpdateOrder
<1> QED BY <1>1, <1>2

(* A change of status keeps an order an order, and copies alike.           *)
LEMMA WithStatusOK ==
    ASSUME NEW o \in Order, NEW t \in Order, Shows(t, o), NEW status \in Status
    PROVE  /\ WithStatus(o, status) \in Order
           /\ WithStatus(t, status) \in Order
           /\ WithStatus(o, status).status = status
           /\ Shows(WithStatus(t, status), WithStatus(o, status))
BY DEF WithStatus, Order, Shows

(* What an event makes of an order is an order, and copies that showed the *)
(* same thing still do.                                                    *)
LEMMA WithEventOK ==
    ASSUME NEW event \in OrderEvent, NEW o \in Order, NEW t \in Order, Shows(t, o)
    PROVE  /\ WithEvent(o, event) \in Order
           /\ WithEvent(t, event) \in Order
           /\ Shows(WithEvent(t, event), WithEvent(o, event))
<1>1. /\ event.status \in Status
      /\ o.filled + event.fillQuantity \in Int
      /\ t.filled + event.fillQuantity \in Int
  BY DEF OrderEvent, Order
<1> QED BY <1>1 DEF WithEvent, Order, Shows

(* process_order_event keeps the store consistent.                         *)
LEMMA ProcessOrderEventOK ==
    ASSUME NEW s, StoreOK(s), NEW event \in OrderEvent
    PROVE  StoreOK(ProcessOrderEvent(s, event))
<1>1. CASE event.orderId \notin DOMAIN s.orders
  BY <1>1 DEF ProcessOrderEvent
<1>2. CASE event.orderId \in DOMAIN s.orders
  <2> DEFINE id == event.orderId
             o  == WithEvent(s.orders[id], event)
             t  == WithEvent(s.tickets[id], event)
  <2>1. s.orders[id] \in Order /\ s.tickets[id] \in Order /\ Shows(s.tickets[id], s.orders[id])
    BY <1>2 DEF StoreOK, IsStore, TicketsMirror
  <2>2. o \in Order /\ t \in Order /\ Shows(t, o)
    BY <2>1, WithEventOK
  <2>3. o.status = event.status
    BY <2>1 DEF WithEvent, Order
  <2>4. ProcessOrderEvent(s, event) =
            Write(AdjustOpenOrderIndex(s, id, IsOpen(s.orders[id].status), IsOpen(o.status)),
                  id, o, t)
    BY <1>2, <2>3 DEF ProcessOrderEvent
  <2>5. id \in DOMAIN s.orders
    BY <1>2
  <2> HIDE DEF id, o, t
  <2>6. StoreOK(Write(AdjustOpenOrderIndex(s, id, IsOpen(s.orders[id].status), IsOpen(o.status)),
                      id, o, t))
    BY <2>2, <2>5, RewrittenOK
  <2> QED BY <2>4, <2>6
<1> QED BY <1>1, <1>2

(* add_order keeps the store consistent when the id is new.                *)
LEMMA AddOrderOK ==
    ASSUME NEW s, StoreOK(s), NEW id \in OrderIds, id \notin DOMAIN s.orders, NEW o \in Order
    PROVE  StoreOK(AddOrder(s, id, o))
<1>1. PICK is \in BOOLEAN : is = IsOpen(o.status)
  BY OpenIsBoolean
<1>2. PICK r : r = AddOrder(s, id, o)
  OBVIOUS
<1>3. /\ DOMAIN s.tickets = DOMAIN s.orders
      /\ s.openIds = {i \in DOMAIN s.orders : IsOpen(s.orders[i].status)}
      /\ s.openCount = Cardinality(s.openIds)
  BY DEF StoreOK, TicketsMirror, IndexExact
<1>4. /\ s.orders \in [DOMAIN s.orders -> Order]
      /\ s.tickets \in [DOMAIN s.tickets -> Order]
      /\ DOMAIN s.orders \subseteq OrderIds
      /\ s.openCount \in Int /\ s.openCount + 1 \in Int
  BY DEF StoreOK, IsStore
<1>5. /\ r.orders = Put(s.orders, id, o)
      /\ r.tickets = Put(s.tickets, id, o)
      /\ r.openIds = IF is THEN s.openIds \cup {id} ELSE s.openIds
      /\ r.openCount = IF is THEN s.openCount + 1 ELSE s.openCount
      /\ r.cancelRequests = s.cancelRequests
      /\ r.updateRequests = s.updateRequests
  BY <1>1, <1>2 DEF AddOrder, StoreOK, IsStore
<1>6. /\ DOMAIN r.orders = DOMAIN s.orders \cup {id}
      /\ DOMAIN r.tickets = DOMAIN s.orders \cup {id}
      /\ r.orders[id] = o /\ r.tickets[id] = o
      /\ \A i \in DOMAIN s.orders : r.orders[i] = s.orders[i] /\ r.tickets[i] = s.tickets[i]
  BY <1>3, <1>5 DEF Put
<1>7. IsStore(r)
  <2>1. /\ r.orders \in [DOMAIN r.orders -> Order]
        /\ r.tickets \in [DOMAIN r.tickets -> Order]
    BY <1>3, <1>4, <1>5 DEF Put
  <2>2. /\ DOMAIN r.orders \subseteq OrderIds /\ DOMAIN r.tickets \subseteq OrderIds
        /\ r.openIds \in SUBSET OrderIds /\ r.openCount \in Int
    BY <1>3, <1>4, <1>5, <1>6
  <2> QED BY <2>1, <2>2, <1>1, <1>2, <1>4, <1>5 DEF IsStore, AddOrder, StoreOK
<1>8. IndexExact(r)
  <2>1. r.openIds = {i \in DOMAIN r.orders : IsOpen(r.orders[i].status)}
    BY <1>1, <1>3, <1>5, <1>6
  <2>2. r.openCount = Cardinality(r.openIds)
    <3>1. IsFiniteSet(s.openIds) /\ id \notin s.openIds
      BY OpenIdsFinite, <1>3
    <3>2. Cardinality(s.openIds \cup {id}) = Cardinality(s.openIds) + 1
      BY <3>1, FS_AddElement
    <3> QED BY <3>2, <1>3, <1>5
  <2> QED BY <2>1, <2>2 DEF IndexExact
<1>9. TicketsMirror(r)
  <2>1. \A i \in DOMAIN s.orders : Shows(s.tickets[i], s.orders[i])
    BY DEF StoreOK, TicketsMirror
  <2>2. Shows(o, o)
    BY DEF Shows
  <2>3. \A i \in DOMAIN r.orders : Shows(r.tickets[i], r.orders[i])
    BY <2>1, <2>2, <1>6
  <2> QED BY <2>3, <1>6 DEF TicketsMirror
<1> QED BY <1>2, <1>7, <1>8, <1>9 DEF StoreOK

(* add_or_update_order keeps the store consistent.                         *)
LEMMA AddOrUpdateOrderOK ==
    ASSUME NEW s, StoreOK(s), NEW id \in OrderIds, NEW o \in Order
    PROVE  StoreOK(AddOrUpdateOrder(s, id, o))
BY AddOrderOK, UpdateOrderOK DEF AddOrUpdateOrder

(* The consistency of a store does not depend on its request sets.         *)
LEMMA SameBooksOK ==
    ASSUME NEW s, StoreOK(s), NEW r, IsStore(r),
           r.orders = s.orders, r.tickets = s.tickets,
           r.openIds = s.openIds, r.openCount = s.openCount
    PROVE  StoreOK(r)
BY DEF StoreOK, IndexExact, TicketsMirror

(* request_cancel_order keeps the store consistent: the order stays open.  *)
LEMMA RequestCancelOrderOK ==
    ASSUME NEW s, StoreOK(s), NEW id, CanRequestCancel(s, id)
    PROVE  StoreOK(RequestCancelOrder(s, id))
<1> DEFINE o == WithStatus(s.orders[id], "CancelPending")
           t == WithStatus(s.tickets[id], "CancelPending")
<1>1. id \in DOMAIN s.orders /\ id \in OrderIds /\ IsOpen(s.orders[id].status)
  BY DEF CanRequestCancel, StoreOK, IsStore
<1>2. s.orders[id] \in Order /\ s.tickets[id] \in Order /\ Shows(s.tickets[id], s.orders[id])
  BY <1>1 DEF StoreOK, IsStore, TicketsMirror
<1>3. /\ o \in Order /\ t \in Order /\ Shows(t, o)
      /\ o.status = "CancelPending"
  <2>1. "CancelPending" \in Status
    BY DEF Status
  <2> QED BY <2>1, <1>2, WithStatusOK
<1>4. IsOpen(o.status)
  BY <1>3 DEF IsOpen
<1>5. PICK r : r = Write(s, id, o, t)
  OBVIOUS
<1> HIDE DEF o, t
<1>7. /\ IsStore(r)
      /\ r.orders = [s.orders EXCEPT ![id] = o]
      /\ r.tickets = [s.tickets EXCEPT ![id] = t]
      /\ r.openIds = s.openIds
      /\ r.openCount = s.openCount
      /\ r.cancelRequests = s.cancelRequests
      /\ r.updateRequests = s.updateRequests
  <2>1. IsStore(s) /\ id \in DOMAIN s.tickets
    BY <1>1 DEF StoreOK, TicketsMirror
  <2> QED BY <2>1, <1>1, <1>3, <1>5, WrittenFields
<1>8. StoreOK(r)
  <2>1. PICK open \in BOOLEAN : open = TRUE
    OBVIOUS
  <2>2. open = IsOpen(s.orders[id].status) /\ open = IsOpen(o.status)
    BY <2>1, <1>1, <1>4, OpenIsBoolean
  <2> QED BY <2>1, <2>2, <1>1, <1>3, <1>7, ReindexedOK
<1>9. PICK q : q = RequestCancelOrder(s, id)
  OBVIOUS
<1>10. q = [r EXCEPT !.cancelRequests = r.cancelRequests \cup {id},
                     !.updateRequests = r.updateRequests \ {id}]
  BY <1>5, <1>9 DEF RequestCancelOrder, o, t
<1>11. /\ q.orders = r.orders /\ q.tickets = r.tickets
       /\ q.openIds = r.openIds /\ q.openCount = r.openCount
       /\ IsStore(q)
  BY <1>1, <1>7, <1>10 DEF IsStore
<1> QED BY <1>8, <1>9, <1>11, SameBooksOK

(* request_update_order keeps the store consistent.                        *)
LEMMA RequestUpdateOrderOK ==
    ASSUME NEW s, StoreOK(s), NEW id, CanRequestUpdate(s, id), NEW quantity \in Int
    PROVE  StoreOK(RequestUpdateOrder(s, id, quantity))
<1> DEFINE isNew == s.orders[id].status = "New"
           o == [s.orders[id] EXCEPT !.quantity = quantity,
                                     !.terms = @ + 1,
                                     !.status = IF isNew THEN "New" ELSE "UpdateSubmitted"]
<1>1. id \in DOMAIN s.orders /\ id \in OrderIds /\ s.orders[id] \in Order
  BY DEF CanRequestUpdate, StoreOK, IsStore
<1>2. o \in Order
  <2>1. s.orders[id].terms + 1 \in Nat
    BY <1>1 DEF Order
  <2>2. (IF isNew THEN "New" ELSE "UpdateSubmitted") \in Status
    BY DEF Status
  <2> QED BY <1>1, <2>1, <2>2 DEF Order
<1> HIDE DEF o
<1>3. PICK r : r = UpdateOrder(s, id, o)
  OBVIOUS
<1>4. StoreOK(r)
  BY <1>2, <1>3, UpdateOrderOK
<1>5. CASE isNew
  BY <1>3, <1>4, <1>5 DEF RequestUpdateOrder, o
<1>6. CASE ~isNew
  <2>1. PICK q : q = [r EXCEPT !.updateRequests = r.updateRequests \cup {id}]
    OBVIOUS
  <2>2. /\ q.orders = r.orders /\ q.tickets = r.tickets
        /\ q.openIds = r.openIds /\ q.openCount = r.openCount
        /\ IsStore(q)
    BY <1>1, <1>4, <2>1 DEF StoreOK, IsStore
  <2>3. RequestUpdateOrder(s, id, quantity) = q
    BY <1>3, <1>6, <2>1 DEF RequestUpdateOrder, o
  <2> QED BY <1>4, <2>2, <2>3, SameBooksOK
<1> QED BY <1>5, <1>6

(* cancel_open_orders keeps the store consistent: as many orders leave the *)
(* index as are taken off the counter.                                     *)
LEMMA CancelOpenOrdersOK ==
    ASSUME NEW s, StoreOK(s), NEW symbols
    PROVE  StoreOK(CancelOpenOrders(s, symbols))
<1> DEFINE closing == {id \in s.openIds :
                           /\ id \in DOMAIN s.orders
                           /\ s.orders[id].symbol \in symbols
                           /\ IsOpen(s.orders[id].status)}
           Close(f) == [id \in DOMAIN f |->
                           IF id \in closing THEN WithStatus(f[id], "Canceled") ELSE f[id]]
<1>1. /\ s.orders \in [DOMAIN s.orders -> Order]
      /\ s.tickets \in [DOMAIN s.orders -> Order]
      /\ DOMAIN s.tickets = DOMAIN s.orders
      /\ DOMAIN s.orders \subseteq OrderIds
      /\ s.openIds = {i \in DOMAIN s.orders : IsOpen(s.orders[i].status)}
      /\ s.openCount = Cardinality(s.openIds) /\ s.openCount \in Int
      /\ \A i \in DOMAIN s.orders : Shows(s.tickets[i], s.orders[i])
  BY DEF StoreOK, IsStore, TicketsMirror, IndexExact
<1>2. IsFiniteSet(closing) /\ IsFiniteSet(s.openIds)
      /\ Cardinality(s.openIds) \in Nat /\ Cardinality(closing) \in Nat
  <2>1. IsFiniteSet(s.openIds) /\ closing \subseteq s.openIds
    BY OpenIdsFinite
  <2>2. IsFiniteSet(closing)
    BY <2>1, FS_Subset
  <2> QED BY <2>1, <2>2, FS_CardinalityType
<1>3. PICK r : r = CancelOpenOrders(s, symbols)
  OBVIOUS
<1>4. /\ r.orders = Close(s.orders)
      /\ r.tickets = Close(s.tickets)
      /\ r.openIds = s.openIds \ closing
      /\ r.openCount = s.openCount - Cardinality(closing)
      /\ r.cancelRequests = s.cancelRequests
      /\ r.updateRequests = s.updateRequests
  BY <1>3 DEF CancelOpenOrders, StoreOK, IsStore
<1>5. \A o, t \in Order :
          Shows(t, o) => /\ WithStatus(o, "Canceled") \in Order
                         /\ WithStatus(t, "Canceled") \in Order
                         /\ WithStatus(o, "Canceled").status = "Canceled"
                         /\ Shows(WithStatus(t, "Canceled"), WithStatus(o, "Canceled"))
  BY WithStatusOK DEF Status
<1>6. /\ r.orders \in [DOMAIN s.orders -> Order]
      /\ r.tickets \in [DOMAIN s.orders -> Order]
      /\ DOMAIN r.orders = DOMAIN s.orders /\ DOMAIN r.tickets = DOMAIN s.orders
      /\ \A i \in DOMAIN s.orders \ closing :
            r.orders[i] = s.orders[i] /\ r.tickets[i] = s.tickets[i]
      /\ \A i \in closing : /\ r.orders[i] = WithStatus(s.orders[i], "Canceled")
                            /\ r.tickets[i] = WithStatus(s.tickets[i], "Canceled")
  BY <1>1, <1>4, <1>5
<1>7. IsStore(r)
  <2>1. r.openIds \in SUBSET OrderIds /\ r.openCount \in Int
    BY <1>1, <1>2, <1>4
  <2>2. \E f, g, x, n : r = [s EXCEPT !.orders = f, !.tickets = g, !.openIds = x, !.openCount = n]
    BY <1>3 DEF CancelOpenOrders
  <2> QED BY <2>1, <2>2, <1>1, <1>4, <1>6 DEF StoreOK, IsStore
<1>8. IndexExact(r)
  <2>1. \A i \in closing : ~IsOpen(r.orders[i].status)
    BY <1>1, <1>5, <1>6 DEF IsOpen
  <2>2. r.openIds = {i \in DOMAIN r.orders : IsOpen(r.orders[i].status)}
    BY <2>1, <1>1, <1>4, <1>6
  <2>3. Cardinality(s.openIds \ closing) = Cardinality(s.openIds) - Cardinality(closing)
    <3>1. s.openIds \cap closing = closing
      OBVIOUS
    <3> HIDE DEF closing
    <3> QED BY <1>2, <3>1, FS_Difference
  <2> QED BY <2>2, <2>3, <1>1, <1>4 DEF IndexExact
<1>9. TicketsMirror(r)
  <2>1. \A i \in closing : Shows(r.tickets[i], r.orders[i])
    BY <1>1, <1>5, <1>6
  <2>2. \A i \in DOMAIN s.orders \ closing : Shows(r.tickets[i], r.orders[i])
    BY <1>1, <1>6
  <2> QED BY <2>1, <2>2, <1>6 DEF TicketsMirror
<1> QED BY <1>3, <1>7, <1>8, <1>9 DEF StoreOK

(* A split quantity is an integer.                                         *)
LEMMA SplitQuantityType ==
    ASSUME NEW quantity \in Int, NEW factor \in [num : Nat \ {0}, den : Nat \ {0}]
    PROVE  SplitQuantity(quantity, factor) \in Int
<1>1. PICK n \in Nat \ {0}, d \in Nat \ {0} : n = factor.num /\ d = factor.den
  OBVIOUS
<1>2. PICK scaled \in Int : scaled = quantity * d
  OBVIOUS
<1>3. scaled \div n \in Int /\ (-scaled) \div n \in Int /\ -((-scaled) \div n) \in Int
  BY <1>1
<1> QED BY <1>1, <1>2, <1>3 DEF SplitQuantity

(* apply_split_to_open_orders keeps the store consistent: it changes       *)
(* quantities, which the tickets need not show.                            *)
LEMMA ApplySplitOK ==
    ASSUME NEW s, StoreOK(s), NEW symbol,
           NEW factor \in [num : Nat \ {0}, den : Nat \ {0}]
    PROVE  StoreOK(ApplySplitToOpenOrders(s, symbol, factor))
<1> DEFINE split == {id \in DOMAIN s.orders : /\ s.orders[id].symbol = symbol
                                             /\ IsOpen(s.orders[id].status)}
<1>1. PICK r : r = ApplySplitToOpenOrders(s, symbol, factor)
  OBVIOUS
<1>2. /\ s.orders \in [DOMAIN s.orders -> Order]
      /\ DOMAIN s.tickets = DOMAIN s.orders
      /\ \A i \in DOMAIN s.orders : Shows(s.tickets[i], s.orders[i])
      /\ s.openIds = {i \in DOMAIN s.orders : IsOpen(s.orders[i].status)}
      /\ s.openCount = Cardinality(s.openIds)
  BY DEF StoreOK, IsStore, TicketsMirror, IndexExact
<1>3. /\ r.orders = [i \in DOMAIN s.orders |->
                        IF i \in split THEN Resized(s.orders[i], factor) ELSE s.orders[i]]
      /\ r.tickets = s.tickets
      /\ r.openIds = s.openIds /\ r.openCount = s.openCount
  BY <1>1 DEF ApplySplitToOpenOrders, StoreOK, IsStore
<1>4. \A o \in Order : /\ Resized(o, factor) \in Order
                       /\ Resized(o, factor).status = o.status
                       /\ \A t : Shows(t, o) => Shows(t, Resized(o, factor))
  <2> SUFFICES ASSUME NEW o \in Order
      PROVE  /\ Resized(o, factor) \in Order
             /\ Resized(o, factor).status = o.status
             /\ \A t : Shows(t, o) => Shows(t, Resized(o, factor))
    OBVIOUS
  <2>1. SplitQuantity(o.quantity, factor) \in Int
    BY SplitQuantityType DEF Order
  <2>2. Resized(o, factor) \in Order /\ Resized(o, factor).status = o.status
    BY <2>1 DEF Order, Resized
  <2>3. ASSUME NEW t, Shows(t, o) PROVE Shows(t, Resized(o, factor))
    BY <2>3 DEF Shows, Order, Resized
  <2> QED BY <2>2, <2>3
<1> HIDE DEF split
<1>5. /\ r.orders \in [DOMAIN s.orders -> Order]
      /\ DOMAIN r.orders = DOMAIN s.orders
      /\ \A i \in DOMAIN s.orders : /\ r.orders[i].status = s.orders[i].status
                                    /\ Shows(s.tickets[i], r.orders[i])
  BY <1>2, <1>3, <1>4
<1>6. IsStore(r)
  BY <1>1, <1>3, <1>5 DEF StoreOK, IsStore, ApplySplitToOpenOrders
<1>7. IndexExact(r)
  BY <1>2, <1>3, <1>5 DEF IndexExact
<1>8. TicketsMirror(r)
  BY <1>2, <1>3, <1>5 DEF TicketsMirror
<1> QED BY <1>1, <1>6, <1>7, <1>8 DEF StoreOK

---------------------------------------------------------------------------
(* r keeps the orders of s: a closed order as it is, an open one open, with *)
(* its symbol and what is filled of it, and with its quantity unless it is  *)
(* in `resized`.  What is new in r is open and unfilled.                    *)
Kept(s, r, resized) ==
    /\ DOMAIN s.orders \subseteq DOMAIN r.orders
    /\ \A id \in DOMAIN s.orders :
          /\ r.orders[id].symbol = s.orders[id].symbol
          /\ r.orders[id].filled = s.orders[id].filled
          /\ id \notin resized => r.orders[id].quantity = s.orders[id].quantity
          /\ IsOpen(s.orders[id].status) => IsOpen(r.orders[id].status)
          /\ ~IsOpen(s.orders[id].status) => r.orders[id] = s.orders[id]
    /\ \A id \in DOMAIN r.orders \ DOMAIN s.orders :
          r.orders[id].filled = 0 /\ IsOpen(r.orders[id].status)

(* A consistent store, by its fields.                                      *)
LEMMA StoreFields ==
    ASSUME NEW s, StoreOK(s)
    PROVE  /\ s.orders \in [DOMAIN s.orders -> Order]
           /\ \A id \in DOMAIN s.orders : s.orders[id] \in Order
           /\ s.tickets \in [DOMAIN s.orders -> Order]
           /\ DOMAIN s.tickets = DOMAIN s.orders
           /\ DOMAIN s.orders \subseteq OrderIds
           /\ s.openIds = {i \in DOMAIN s.orders : IsOpen(s.orders[i].status)}
           /\ s.openIds \subseteq DOMAIN s.orders
           /\ s.cancelRequests \subseteq OrderIds /\ s.updateRequests \subseteq OrderIds
           /\ \A id \in DOMAIN s.orders : Shows(s.tickets[id], s.orders[id])
BY DEF StoreOK, IsStore, TicketsMirror, IndexExact

(* Keeping the orders twice keeps them.                                    *)
LEMMA KeptTwice ==
    ASSUME NEW s, NEW q, NEW r, NEW resized, Kept(s, q, {}), Kept(q, r, resized)
    PROVE  Kept(s, r, resized)
BY DEF Kept

(* add_order of a new, unfilled order keeps the others.                    *)
LEMMA AddKeeps ==
    ASSUME NEW s, StoreOK(s), NEW id \in OrderIds, id \notin DOMAIN s.orders,
           NEW o \in Order, o.filled = 0, IsOpen(o.status),
           NEW r, r = AddOrder(s, id, o)
    PROVE  /\ StoreOK(r)
           /\ DOMAIN r.orders = DOMAIN s.orders \cup {id}
           /\ r.orders[id] = o
           /\ Kept(s, r, {})
<1>1. r.orders = Put(s.orders, id, o)
  BY DEF AddOrder, StoreOK, IsStore
<1>2. /\ DOMAIN r.orders = DOMAIN s.orders \cup {id}
      /\ r.orders[id] = o
      /\ \A i \in DOMAIN s.orders : r.orders[i] = s.orders[i]
  BY <1>1 DEF Put
<1>3. Kept(s, r, {})
  BY <1>2 DEF Kept
<1> QED BY <1>2, <1>3, AddOrderOK

(* request_cancel_order keeps the orders.                                  *)
LEMMA CancelKeeps ==
    ASSUME NEW s, StoreOK(s), NEW id, CanRequestCancel(s, id),
           NEW r, r = RequestCancelOrder(s, id)
    PROVE  /\ StoreOK(r)
           /\ DOMAIN r.orders = DOMAIN s.orders
           /\ Kept(s, r, {})
           /\ r.orders[id].status = "CancelPending"
           /\ \A i \in DOMAIN s.orders : i # id => r.orders[i] = s.orders[i]
<1>1. id \in DOMAIN s.orders /\ IsOpen(s.orders[id].status) /\ s.orders[id] \in Order
  BY StoreFields DEF CanRequestCancel
<1>2. PICK o : o = WithStatus(s.orders[id], "CancelPending")
  OBVIOUS
<1>3. /\ o.symbol = s.orders[id].symbol /\ o.filled = s.orders[id].filled
      /\ o.quantity = s.orders[id].quantity /\ o.status = "CancelPending"
  BY <1>1, <1>2 DEF WithStatus, Order
<1>4. r.orders = [s.orders EXCEPT ![id] = o]
  BY <1>2 DEF RequestCancelOrder, Write, StoreOK, IsStore
<1>5. /\ DOMAIN r.orders = DOMAIN s.orders /\ r.orders[id] = o
      /\ \A i \in DOMAIN s.orders : i # id => r.orders[i] = s.orders[i]
  BY <1>1, <1>4
<1>6. Kept(s, r, {})
  <2>1. IsOpen(r.orders[id].status)
    BY <1>3, <1>5 DEF IsOpen
  <2> QED BY <2>1, <1>1, <1>3, <1>5 DEF Kept
<1> QED BY <1>3, <1>5, <1>6, RequestCancelOrderOK

(* r has order id of s amended: what is New stays New, anything else is     *)
(* UpdateSubmitted.                                                        *)
Amended(s, r, id) ==
    /\ r.orders[id].marketOnOpen = s.orders[id].marketOnOpen
    /\ s.orders[id].status = "New" => r.orders[id].status = "New"
    /\ s.orders[id].status # "New" => r.orders[id].status = "UpdateSubmitted"
    /\ \A i \in DOMAIN s.orders : i # id => r.orders[i] = s.orders[i]

(* request_update_order keeps the orders, but for the quantity it sets.    *)
LEMMA UpdateKeeps ==
    ASSUME NEW s, StoreOK(s), NEW id, CanRequestUpdate(s, id), NEW quantity \in Int,
           NEW r, r = RequestUpdateOrder(s, id, quantity)
    PROVE  /\ StoreOK(r)
           /\ DOMAIN r.orders = DOMAIN s.orders
           /\ Kept(s, r, {id})
           /\ r.orders[id].quantity = quantity
           /\ Amended(s, r, id)
<1> DEFINE isNew == s.orders[id].status = "New"
           o == [s.orders[id] EXCEPT !.quantity = quantity,
                                     !.terms = @ + 1,
                                     !.status = IF isNew THEN "New" ELSE "UpdateSubmitted"]
<1>1. id \in DOMAIN s.orders /\ IsOpen(s.orders[id].status) /\ s.orders[id] \in Order
  BY StoreFields DEF CanRequestUpdate
<1>2. /\ o.symbol = s.orders[id].symbol /\ o.filled = s.orders[id].filled
      /\ o.quantity = quantity /\ IsOpen(o.status)
      /\ o.marketOnOpen = s.orders[id].marketOnOpen
      /\ o.status = IF s.orders[id].status = "New" THEN "New" ELSE "UpdateSubmitted"
  BY <1>1 DEF Order, IsOpen
<1>3. r.orders = [s.orders EXCEPT ![id] = o]
  <2> HIDE DEF o
  <2>1. PICK u : u = UpdateOrder(s, id, o)
    OBVIOUS
  <2>2. u.orders = [s.orders EXCEPT ![id] = o] /\ StoreOK(u)
    <3>1. o \in Order
      <4>1. s.orders[id].terms + 1 \in Nat
        BY <1>1 DEF Order
      <4>2. (IF isNew THEN "New" ELSE "UpdateSubmitted") \in Status
        BY DEF Status
      <4> QED BY <1>1, <4>1, <4>2 DEF Order, o
    <3>2. Shows(o, o)
      BY DEF Shows
    <3>3. PICK v : v = o
      OBVIOUS
    <3>4. v \in Order /\ Shows(v, v)
      BY <3>1, <3>2, <3>3
    <3>5. u = Write(AdjustOpenOrderIndex(s, id, IsOpen(s.orders[id].status), IsOpen(v.status)),
                    id, v, v)
      BY <1>1, <2>1, <3>3 DEF UpdateOrder
    <3>6. id \in DOMAIN s.orders
      BY <1>1
    <3>7. StoreOK(u) /\ u.orders = [s.orders EXCEPT ![id] = v]
      BY <3>4, <3>5, <3>6, RewrittenOK
    <3> QED BY <3>3, <3>7
  <2>3. r = IF isNew THEN u ELSE [u EXCEPT !.updateRequests = u.updateRequests \cup {id}]
    BY <2>1 DEF RequestUpdateOrder, o
  <2> QED BY <2>2, <2>3 DEF StoreOK, IsStore
<1> HIDE DEF o
<1>4. /\ DOMAIN r.orders = DOMAIN s.orders /\ r.orders[id] = o
      /\ \A i \in DOMAIN s.orders : i # id => r.orders[i] = s.orders[i]
  BY <1>1, <1>3
<1>5. Kept(s, r, {id})
  BY <1>1, <1>2, <1>4 DEF Kept
<1>6. StoreOK(r)
  BY RequestUpdateOrderOK
<1>7. Amended(s, r, id)
  BY <1>2, <1>4 DEF Amended
<1> QED BY <1>2, <1>4, <1>5, <1>6, <1>7

(* The orders of a symbol are finitely many.                               *)
OrdersIn(s, symbol) == {id \in DOMAIN s.orders : s.orders[id].symbol = symbol}

LEMMA OrdersInFinite ==
    ASSUME NEW s, StoreOK(s), NEW symbol
    PROVE  IsFiniteSet(OrdersIn(s, symbol)) /\ OrdersIn(s, symbol) \subseteq OrderIds
<1>1. OrdersIn(s, symbol) \subseteq OrderIds
  BY StoreFields DEF OrdersIn
<1> QED BY <1>1, OrderIdsAssumption, FS_Subset
=============================================================================
