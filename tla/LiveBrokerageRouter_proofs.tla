---------------------- MODULE LiveBrokerageRouter_proofs ----------------------
(***************************************************************************)
(* The live router, for any orders, accounts, retry schedules and queues:  *)
(* the types and the store, a portfolio that holds what the orders were    *)
(* filled, one submission in flight per order, an order placed once while  *)
(* answers are not lost, reductions sent before expansions, bounded        *)
(* retries, fills applied once and closed orders that stay closed.         *)
(***************************************************************************)
EXTENDS LiveBrokerageRouter, OrderStore_proofs, CountingLemmas

(* r has the orders of s, with their symbols and, but for `refilled`, their *)
(* fills; what is new in r is unfilled.                                    *)
Steady(s, r, refilled) ==
    /\ DOMAIN s.orders \subseteq DOMAIN r.orders
    /\ \A id \in DOMAIN s.orders :
          /\ r.orders[id].symbol = s.orders[id].symbol
          /\ id \notin refilled => r.orders[id].filled = s.orders[id].filled
    /\ \A id \in DOMAIN r.orders \ DOMAIN s.orders : r.orders[id].filled = 0

(* A store whose orders are kept is steady.                                *)
LEMMA KeptSteady ==
    ASSUME NEW s, NEW r, NEW resized, Kept(s, r, resized)
    PROVE  Steady(s, r, {})
BY DEF Kept, Steady

(* Steady twice is steady.                                                 *)
LEMMA SteadyTwice ==
    ASSUME NEW s, NEW q, NEW r, Steady(s, q, {}), Steady(q, r, {})
    PROVE  Steady(s, r, {})
BY DEF Steady

(* Rewriting an order with its symbol and its fills is steady.             *)
LEMMA RewriteSteady ==
    ASSUME NEW s, StoreOK(s), NEW id \in DOMAIN s.orders,
           NEW o \in Order, o.symbol = s.orders[id].symbol, o.filled = s.orders[id].filled,
           NEW r, r = AddOrUpdateOrder(s, id, o)
    PROVE  /\ StoreOK(r)
           /\ DOMAIN r.orders = DOMAIN s.orders
           /\ Steady(s, r, {})
           /\ r.orders = [s.orders EXCEPT ![id] = o]
<1>1. Shows(o, o)
  BY DEF Shows
<1>2. r = Write(AdjustOpenOrderIndex(s, id, IsOpen(s.orders[id].status), IsOpen(o.status)),
                id, o, o)
  BY DEF AddOrUpdateOrder, UpdateOrder
<1>3. StoreOK(r) /\ r.orders = [s.orders EXCEPT ![id] = o]
  <2>1. PICK v : v = o
    OBVIOUS
  <2>2. v \in Order /\ Shows(v, v)
    BY <1>1, <2>1
  <2>3. r = Write(AdjustOpenOrderIndex(s, id, IsOpen(s.orders[id].status), IsOpen(v.status)),
                  id, v, v)
    BY <1>2, <2>1
  <2>4. StoreOK(r) /\ r.orders = [s.orders EXCEPT ![id] = v]
    BY <2>2, <2>3, RewrittenOK
  <2> QED BY <2>1, <2>4
<1>4. /\ DOMAIN r.orders = DOMAIN s.orders /\ r.orders[id] = o
      /\ \A i \in DOMAIN s.orders : i # id => r.orders[i] = s.orders[i]
  BY <1>3
<1>5. Steady(s, r, {})
  BY <1>4 DEF Steady
<1> QED BY <1>3, <1>4, <1>5

(* An event fills its order if it is a fill, and none if it is not.        *)
LEMMA EventSteady ==
    ASSUME NEW s, StoreOK(s), NEW event \in OrderEvent,
           NEW refilled, IsFill(event.status) => event.orderId \in refilled,
           NEW r, r = ProcessOrderEvent(s, event)
    PROVE  /\ StoreOK(r)
           /\ DOMAIN r.orders = DOMAIN s.orders
           /\ Steady(s, r, refilled)
           /\ event.orderId \in DOMAIN s.orders =>
                 r.orders[event.orderId].filled =
                     IF IsFill(event.status)
                     THEN s.orders[event.orderId].filled + event.fillQuantity
                     ELSE s.orders[event.orderId].filled
           /\ event.orderId \in DOMAIN s.orders =>
                 r.orders[event.orderId].status = event.status
           /\ \A i \in DOMAIN s.orders : i # event.orderId => r.orders[i] = s.orders[i]
<1> DEFINE id == event.orderId
<1>1. StoreOK(r)
  BY ProcessOrderEventOK
<1>2. CASE id \notin DOMAIN s.orders
  BY <1>1, <1>2 DEF ProcessOrderEvent, Steady
<1>3. CASE id \in DOMAIN s.orders
  <2>1. PICK o : o = WithEvent(s.orders[id], event)
    OBVIOUS
  <2>2. /\ o.symbol = s.orders[id].symbol
        /\ o.filled = IF IsFill(event.status) THEN s.orders[id].filled + event.fillQuantity
                      ELSE s.orders[id].filled
        /\ o.status = event.status
    <3>1. s.orders[id] \in Order
      BY <1>3, StoreFields
    <3> QED BY <2>1, <3>1 DEF WithEvent, Order
  <2>3. r.orders = [s.orders EXCEPT ![id] = o]
    BY <1>3, <2>1 DEF ProcessOrderEvent, Write, AdjustOpenOrderIndex, StoreOK, IsStore
  <2>4. /\ DOMAIN r.orders = DOMAIN s.orders /\ r.orders[id] = o
        /\ \A i \in DOMAIN s.orders : i # id => r.orders[i] = s.orders[i]
    BY <1>3, <2>3
  <2>5. Steady(s, r, refilled)
    BY <2>2, <2>4 DEF Steady
  <2> QED BY <1>1, <2>2, <2>4, <2>5
<1> QED BY <1>2, <1>3

---------------------------------------------------------------------------
(* Types.  A pass visits orders of the store.                              *)
Bookkeeping ==
    [submitted : SUBSET OrderIds, cancelForwarded : SUBSET OrderIds,
     updateForwarded : SUBSET OrderIds, applied : [OrderIds -> Int],
     attempts : [OrderIds -> Nat], waiting : SUBSET OrderIds]

Types ==
    /\ holdings \in [Symbols -> Int]
    /\ router \in Bookkeeping
    /\ pass \in [left : SUBSET OrderIds, deferring : BOOLEAN]
    /\ requests \in Seq(Request)
    /\ events \in Seq(Event)
    /\ DOMAIN worker.engineOf \subseteq DOMAIN broker
    /\ worker \in [engineOf : [DOMAIN worker.engineOf -> OrderIds],
                   tracked  : [OrderIds -> [status : BrokerStatus \cup {"Unseen"}, filled : Int]]]
    /\ DOMAIN broker \subseteq BrokerIds
    /\ broker \in [DOMAIN broker -> BrokerOrder]
    /\ market \in [bells : 0..MaxBells, priced : SUBSET Symbols]
    /\ submits \in [OrderIds -> Nat]

RouterOK ==
    /\ StoreOK(tm)
    /\ Types
    /\ pass.left \subseteq DOMAIN tm.orders

(* The types are those of TypeOK.                                          *)
LEMMA TypesFit == StoreOK(tm) /\ Types => TypeOK /\ BooksExact
BY DEF StoreOK, Types, Bookkeeping, TypeOK, BooksExact

(* The orders imported at startup make a consistent store, unfilled in the  *)
(* eyes of the router.                                                      *)
LEMMA StartupOK ==
    /\ StoreOK(StartupStore)
    /\ DOMAIN StartupStore.orders = ImportedIds
    /\ ImportedIds \subseteq OrderIds
<1> DEFINE chosen(id) == CHOOSE w \in Imported : AccountOrders[w].number = id
           orders == [id \in ImportedIds |-> ImportedOrder(chosen(id))]
<1>1. ImportedIds \subseteq OrderIds /\ IsFiniteSet(ImportedIds)
  <2>1. \A w \in Imported : AccountOrders[w].number \in OrderIds
    BY AccountAssumption DEF Imported, BrokerOrder
  <2> QED BY <2>1, OrderIdsAssumption, FS_Subset DEF ImportedIds
<1>2. \A id \in ImportedIds : chosen(id) \in Imported
  BY DEF ImportedIds
<1>3. \A w \in Imported : ImportedOrder(w) \in Order /\ IsOpen(ImportedOrder(w).status)
  <2> SUFFICES ASSUME NEW w \in Imported
               PROVE  ImportedOrder(w) \in Order /\ IsOpen(ImportedOrder(w).status)
    OBVIOUS
  <2>1. AccountOrders[w] \in BrokerOrder /\ w \in BrokerIds /\ IsOpen(AccountOrders[w].status)
    BY AccountAssumption DEF Imported
  <2> QED BY <2>1 DEF ImportedOrder, Order, BrokerOrder, BrokerStatus, Status
<1> HIDE DEF chosen
<1>4. orders \in [ImportedIds -> Order] /\ \A id \in ImportedIds : IsOpen(orders[id].status)
  BY <1>2, <1>3
<1>5. PICK s : s = StartupStore
  OBVIOUS
<1>6. /\ s.orders = orders /\ s.tickets = orders /\ s.openIds = ImportedIds
      /\ s.openCount = Cardinality(ImportedIds)
      /\ s.cancelRequests = {} /\ s.updateRequests = {}
      /\ s = [orders |-> orders, tickets |-> orders, openIds |-> ImportedIds,
              openCount |-> Cardinality(ImportedIds), cancelRequests |-> {}, updateRequests |-> {}]
  BY <1>5 DEF StartupStore, EmptyStore, chosen
<1> HIDE DEF orders
<1>7. DOMAIN orders = ImportedIds
  BY <1>4
<1>8. IsStore(s)
  <2>1. Cardinality(ImportedIds) \in Int
    BY <1>1, FS_CardinalityType
  <2> QED BY <2>1, <1>1, <1>4, <1>6, <1>7 DEF IsStore
<1>9. IndexExact(s) /\ TicketsMirror(s)
  BY <1>4, <1>6, <1>7 DEF IndexExact, TicketsMirror, Shows
<1> QED BY <1>1, <1>5, <1>6, <1>7, <1>8, <1>9 DEF StoreOK

(* A session starts well.                                                  *)
LEMMA StartsOK == Init => RouterOK
<1> SUFFICES ASSUME Init PROVE RouterOK
  OBVIOUS
<1>1. StoreOK(tm)
  <2>1. PICK s : s = StartupStore
    OBVIOUS
  <2>2. StoreOK(s)
    BY <2>1, StartupOK
  <2> QED BY <2>1, <2>2 DEF Init, StoreOK, IsStore, IndexExact, TicketsMirror
<1>2. Types
  <2>1. /\ DOMAIN AccountOrders \subseteq BrokerIds
        /\ AccountOrders \in [DOMAIN AccountOrders -> BrokerOrder]
        /\ InitialHoldings \in [Symbols -> Int] /\ MaxBells \in Nat
    BY AccountAssumption, HoldingsAssumption, BoundsAssumption
  <2> QED BY <2>1 DEF Init, Types, Bookkeeping
<1>3. pass.left \subseteq DOMAIN tm.orders
  BY DEF Init
<1> QED BY <1>1, <1>2, <1>3 DEF RouterOK

---------------------------------------------------------------------------
(* What a step does to the store: it keeps it well and steady.             *)
StoreSteady(refilled) == StoreOK(tm') /\ Steady(tm, tm', refilled)

(* A step that leaves the store alone.                                     *)
LEMMA StoreAlone ==
    ASSUME RouterOK, UNCHANGED tm
    PROVE  StoreSteady({}) /\ DOMAIN tm'.orders = DOMAIN tm.orders
<1>1. StoreOK(tm)
  BY DEF RouterOK
<1> QED BY <1>1 DEF StoreSteady, StoreOK, IsStore, IndexExact, TicketsMirror, Steady

(* The types again, from the store and the rest.                           *)
LEMMA StepOK ==
    ASSUME RouterOK, NEW refilled, StoreSteady(refilled), Types',
           pass' = pass \/ pass'.left \subseteq DOMAIN tm.orders
    PROVE  RouterOK'
<1>1. StoreOK(tm)'
  BY DEF StoreSteady, StoreOK, IsStore, IndexExact, TicketsMirror
<1>2. DOMAIN tm.orders \subseteq DOMAIN tm'.orders
  BY DEF StoreSteady, Steady
<1> QED BY <1>1, <1>2 DEF RouterOK

(* What the algorithm places, cancels and updates.                         *)
LEMMA AlgorithmOK ==
    ASSUME RouterOK, NEW id \in OrderIds,
           (\E item \in Menu[id] : Place(id, item)) \/ Cancel(id) \/ Update(id)
    PROVE  RouterOK' /\ StoreSteady({}) /\ UNCHANGED <<holdings, router, requests, events>>
<1>1. UNCHANGED <<holdings, router, pass, requests, events, worker, broker, market, submits>>
  BY DEF Place, Cancel, Update
<1>2. PICK s, r : s = tm /\ r = tm'
  OBVIOUS
<1>3. StoreOK(s)
  BY <1>2 DEF RouterOK
<1>4. StoreOK(r) /\ Steady(s, r, {})
  <2>1. ASSUME NEW item \in Menu[id], Place(id, item) PROVE StoreOK(r) /\ Steady(s, r, {})
    <3>1. PICK o : o = [symbol |-> item.symbol, quantity |-> item.quantity, filled |-> 0,
                        status |-> "New", marketOnOpen |-> item.marketOnOpen,
                        brokerageIds |-> {}, terms |-> 0]
      OBVIOUS
    <3>2. item \in [symbol : Symbols, quantity : Int, marketOnOpen : BOOLEAN]
      BY MenuAssumption
    <3>3. o \in Order /\ o.filled = 0 /\ IsOpen(o.status)
      BY <3>1, <3>2 DEF Order, Status, IsOpen
    <3>4. id \notin DOMAIN s.orders /\ r = AddOrder(s, id, o)
      BY <2>1, <3>1, <1>2 DEF Place
    <3>5. StoreOK(r) /\ Kept(s, r, {})
      BY <1>3, <3>3, <3>4, AddKeeps
    <3> QED BY <3>5, KeptSteady
  <2>2. ASSUME Cancel(id) PROVE StoreOK(r) /\ Steady(s, r, {})
    <3>1. CanRequestCancel(s, id) /\ r = RequestCancelOrder(s, id)
      BY <2>2, <1>2 DEF Cancel
    <3> QED BY <3>1, <1>3, CancelKeeps, KeptSteady
  <2>3. ASSUME Update(id) PROVE StoreOK(r) /\ Steady(s, r, {})
    <3>1. PICK quantity : quantity = s.orders[id].quantity
      OBVIOUS
    <3>2. CanRequestUpdate(s, id) /\ r = RequestUpdateOrder(s, id, quantity)
      BY <2>3, <1>2, <3>1 DEF Update
    <3>3. quantity \in Int
      BY <3>1, <3>2, <1>3, StoreFields DEF CanRequestUpdate, Order
    <3>4. StoreOK(r) /\ Kept(s, r, {id})
      BY <3>2, <3>3, <1>3, UpdateKeeps
    <3> QED BY <3>4, KeptSteady
  <2> QED BY <2>1, <2>2, <2>3
<1>5. StoreSteady({})
  BY <1>2, <1>4 DEF StoreSteady
<1>6. Types'
  BY <1>1 DEF RouterOK, Types
<1> QED BY <1>1, <1>5, <1>6, StepOK

(* A pass starts at the open orders, which are orders of the store.        *)
LEMMA BeginPassOK ==
    ASSUME RouterOK, BeginPass
    PROVE  RouterOK' /\ StoreSteady({}) /\ UNCHANGED <<holdings, router, requests, events>>
<1>1. StoreSteady({}) /\ tm' = tm
  BY StoreAlone DEF BeginPass
<1>2. tm.openIds \subseteq DOMAIN tm.orders /\ tm.openIds \subseteq OrderIds
  BY StoreFields DEF RouterOK, StoreOK, IsStore
<1>3. pass'.left = tm.openIds /\ pass' \in [left : SUBSET OrderIds, deferring : BOOLEAN]
  <2>1. (CashAccount /\ \E id \in tm.openIds : Reduces(id)) \in BOOLEAN
    OBVIOUS
  <2> QED BY <2>1, <1>2 DEF BeginPass
<1>4. Types'
  BY <1>3 DEF RouterOK, Types, BeginPass
<1> QED BY <1>1, <1>2, <1>3, <1>4, StepOK DEF BeginPass

(* An event without a fill, about an order.                                *)
LEMMA EventType ==
    ASSUME NEW id \in OrderIds, NEW status \in Status, NEW quantity \in Int
    PROVE  [orderId |-> id, status |-> status, fillQuantity |-> quantity] \in OrderEvent
BY DEF OrderEvent

(* The store after an event that is not a fill.                            *)
LEMMA PlainEventOK ==
    ASSUME NEW s, StoreOK(s), NEW id \in OrderIds, NEW status \in {"Submitted", "Invalid"},
           NEW r, r = Emit(s, id, status, 0)
    PROVE  StoreOK(r) /\ DOMAIN r.orders = DOMAIN s.orders /\ Steady(s, r, {})
<1>1. PICK event : event = [orderId |-> id, status |-> status, fillQuantity |-> 0]
  OBVIOUS
<1>2. event \in OrderEvent /\ event.status = status /\ ~IsFill(event.status)
  BY <1>1, EventType DEF Status, IsFill
<1> QED BY <1>1, <1>2, EventSteady DEF Emit

(* A request joins the queue.                                              *)
LEMMA RequestSent ==
    ASSUME requests \in Seq(Request), NEW id \in OrderIds, NEW order \in Order,
           NEW kind \in {"Submit", "Cancel", "Update"},
           requests' = Append(requests, [kind |-> kind, id |-> id, order |-> order])
    PROVE  requests' \in Seq(Request)
<1>1. [kind |-> kind, id |-> id, order |-> order] \in Request
  BY DEF Request
<1> QED BY <1>1, CountAppend

(* A visit of a pass.                                                      *)
LEMMA DispatchOK ==
    ASSUME RouterOK, NEW id \in OrderIds, DispatchOne(id)
    PROVE  /\ RouterOK' /\ StoreSteady({})
           /\ UNCHANGED <<holdings, events>>
           /\ router'.applied = router.applied
<1>1. Visit(id) /\ UNCHANGED <<holdings, events, worker, broker, market>>
  BY DEF DispatchOne, PassOver, Refuse, ConvertToMarketOnOpen, Submit, ForwardCancel, ForwardUpdate
<1>2. /\ id \in DOMAIN tm.orders
      /\ pass' \in [left : SUBSET OrderIds, deferring : BOOLEAN]
      /\ pass'.left \subseteq DOMAIN tm.orders
  <2>1. pass.left \in SUBSET OrderIds /\ pass.deferring \in BOOLEAN
    BY DEF RouterOK, Types
  <2>2. (pass.deferring /\ pass.left # {id}) \in BOOLEAN
    OBVIOUS
  <2> QED BY <1>1, <2>1, <2>2 DEF Visit, RouterOK
<1>3. PICK s, r : s = tm /\ r = tm'
  OBVIOUS
<1>4. StoreOK(s) /\ id \in DOMAIN s.orders /\ s.orders[id] \in Order
  BY <1>2, <1>3, StoreFields DEF RouterOK
<1>5. ASSUME r = s PROVE StoreSteady({})
  BY <1>3, <1>5, StoreAlone
<1>6. ASSUME StoreOK(r), Steady(s, r, {}) PROVE StoreSteady({})
  BY <1>3, <1>6 DEF StoreSteady
<1>7. /\ requests \in Seq(Request)
      /\ router \in Bookkeeping
      /\ submits \in [OrderIds -> Nat]
  BY DEF RouterOK, Types
<1> DEFINE Effects ==
        /\ StoreSteady({})
        /\ requests' \in Seq(Request)
        /\ router' \in Bookkeeping
        /\ submits' \in [OrderIds -> Nat]
        /\ router'.applied = router.applied
<1>8. ASSUME PassOver(id) PROVE Effects
  BY <1>3, <1>5, <1>7, <1>8 DEF PassOver
<1>9. ASSUME Refuse(id) PROVE Effects
  <2>1. r = Emit(s, id, "Invalid", 0)
    BY <1>3, <1>9 DEF Refuse, Emit
  <2>2. StoreSteady({})
    BY <2>1, <1>4, <1>6, PlainEventOK
  <2> QED BY <2>2, <1>7, <1>9 DEF Refuse, Bookkeeping
<1>10. ASSUME ConvertToMarketOnOpen(id) PROVE Effects
  <2>1. PICK o : o = [s.orders[id] EXCEPT !.marketOnOpen = TRUE]
    OBVIOUS
  <2>2. o \in Order /\ o.symbol = s.orders[id].symbol /\ o.filled = s.orders[id].filled
    BY <2>1, <1>4 DEF Order
  <2>3. r = AddOrUpdateOrder(s, id, o)
    BY <2>1, <1>3, <1>10 DEF ConvertToMarketOnOpen
  <2>4. StoreSteady({})
    BY <2>2, <2>3, <1>4, <1>6, RewriteSteady
  <2> QED BY <2>4, <1>7, <1>10 DEF ConvertToMarketOnOpen, Bookkeeping
<1>11. ASSUME Submit(id) PROVE Effects
  <2>1. [s.orders[id] EXCEPT !.marketOnOpen = FALSE] \in Order
    BY <1>4 DEF Order
  <2>2. requests' \in Seq(Request)
    BY <2>1, <1>3, <1>7, <1>11, RequestSent DEF Submit
  <2>3. StoreSteady({})
    BY <1>3, <1>5, <1>11 DEF Submit
  <2>4. /\ router.attempts \in [OrderIds -> Nat] /\ router.attempts[id] + 1 \in Nat
        /\ submits[id] + 1 \in Nat
    BY <1>7 DEF Bookkeeping
  <2>5. submits' \in [OrderIds -> Nat]
    BY <2>4, <1>7, <1>11 DEF Submit
  <2>6. router' \in Bookkeeping /\ router'.applied = router.applied
    <3>1. [router.attempts EXCEPT ![id] = @ + 1] \in [OrderIds -> Nat]
      BY <2>4
    <3> QED BY <3>1, <1>7, <1>11 DEF Submit, Bookkeeping
  <2> QED BY <2>2, <2>3, <2>5, <2>6
<1>12. ASSUME ForwardCancel(id) PROVE Effects
  <2>1. requests' \in Seq(Request)
    BY <1>3, <1>4, <1>7, <1>12, RequestSent DEF ForwardCancel
  <2>2. StoreSteady({})
    BY <1>3, <1>5, <1>12 DEF ForwardCancel
  <2> QED BY <2>1, <2>2, <1>7, <1>12 DEF ForwardCancel, Bookkeeping
<1>13. ASSUME ForwardUpdate(id) PROVE Effects
  <2>1. requests' \in Seq(Request)
    BY <1>3, <1>4, <1>7, <1>13, RequestSent DEF ForwardUpdate
  <2>2. StoreSteady({})
    BY <1>3, <1>5, <1>13 DEF ForwardUpdate
  <2> QED BY <2>1, <2>2, <1>7, <1>13 DEF ForwardUpdate, Bookkeeping
<1>14. Effects
  BY <1>8, <1>9, <1>10, <1>11, <1>12, <1>13 DEF DispatchOne
<1>15. Types'
  BY <1>1, <1>2, <1>14 DEF RouterOK, Types
<1> QED BY <1>1, <1>2, <1>14, <1>15, StepOK

(* The request at the head of the queue, and the queue without it.         *)
LEMMA HeadRequest ==
    ASSUME RouterOK, NEW kind, Serving(kind)
    PROVE  /\ requests \in Seq(Request) /\ requests # <<>>
           /\ Head(requests) \in Request /\ Head(requests).kind = kind
           /\ Head(requests).id \in OrderIds /\ Head(requests).order \in Order
           /\ Tail(requests) \in Seq(Request)
<1>1. requests \in Seq(Request) /\ requests # <<>> /\ Head(requests).kind = kind
  BY DEF RouterOK, Types, Serving
<1>2. Head(requests) \in Request /\ Tail(requests) \in Seq(Request)
  BY <1>1, CountTail
<1> QED BY <1>1, <1>2 DEF Request

(* The kinds of events.                                                    *)
Acceptances == [kind : {"Submitted"}, id : OrderIds, brokerageIds : SUBSET BrokerIds]
Failures    == [kind : {"Invalid", "SubmitFailed"}, id : OrderIds]
Snapshots   == [kind : {"Status"}, id : OrderIds, symbol : Symbols, status : BrokerStatus,
                filled : Int]

(* An answer joins the queue of events as its request leaves its own.      *)
LEMMA AnswerType ==
    ASSUME RouterOK, NEW kind, Serving(kind), NEW event \in Event, Answer(event)
    PROVE  requests' \in Seq(Request) /\ events' \in Seq(Event)
<1>1. events \in Seq(Event)
  BY DEF RouterOK, Types
<1>2. Append(events, event) \in Seq(Event)
  BY <1>1, CountAppend
<1>3. Tail(requests) \in Seq(Request)
  BY HeadRequest
<1> QED BY <1>2, <1>3 DEF Answer

(* An order placed is one of the account.                                  *)
LEMMA PlacedType ==
    ASSUME NEW order \in Order, NEW number \in OrderIds \cup {0}
    PROVE  PlacedOrder(order, number) \in BrokerOrder
BY DEF PlacedOrder, Order, BrokerOrder, BrokerStatus

(* What the worker knows and the account holds.                            *)
Maps ==
    /\ DOMAIN worker.engineOf \subseteq DOMAIN broker
    /\ worker \in [engineOf : [DOMAIN worker.engineOf -> OrderIds],
                   tracked  : [OrderIds -> [status : BrokerStatus \cup {"Unseen"}, filled : Int]]]
    /\ DOMAIN broker \subseteq BrokerIds
    /\ broker \in [DOMAIN broker -> BrokerOrder]

(* The account after it accepted the order at the head of the queue.       *)
LEMMA AcceptedType ==
    ASSUME RouterOK, Serving("Submit"), NEW w \in BrokerIds,
           NEW number \in Numbering[Head(requests).id],
           broker' = With(broker, w, PlacedOrder(Head(requests).order, number))
    PROVE  /\ DOMAIN broker' = DOMAIN broker \cup {w} /\ DOMAIN broker' \subseteq BrokerIds
           /\ broker' \in [DOMAIN broker' -> BrokerOrder]
<1>1. PlacedOrder(Head(requests).order, number) \in BrokerOrder
  BY HeadRequest, PlacedType, NumberingAssumption
<1>2. DOMAIN broker \subseteq BrokerIds /\ broker \in [DOMAIN broker -> BrokerOrder]
  BY DEF RouterOK, Types
<1>3. PICK b, c, o : b = broker /\ c = broker' /\ o = PlacedOrder(Head(requests).order, number)
  OBVIOUS
<1>4. b \in [DOMAIN b -> BrokerOrder] /\ o \in BrokerOrder /\ c = With(b, w, o)
  BY <1>1, <1>2, <1>3
<1>5. DOMAIN c = DOMAIN b \cup {w} /\ c \in [DOMAIN c -> BrokerOrder]
  BY <1>4 DEF With
<1> QED BY <1>2, <1>3, <1>5

(* The worker serves a request.                                            *)
LEMMA HandleRequestOK ==
    ASSUME RouterOK, HandleRequest
    PROVE  RouterOK' /\ StoreSteady({}) /\ UNCHANGED <<holdings, router>>
<1>1. UNCHANGED <<tm, holdings, router, pass, market, submits>>
  BY DEF HandleRequest, Accept, LoseAck, Reject, FailToSubmit, ServeCancel, ServeUpdate
<1>2. events \in Seq(Event) /\ Maps
  BY DEF RouterOK, Types, Maps
<1> DEFINE Effects == requests' \in Seq(Request) /\ events' \in Seq(Event) /\ Maps'
<1>3. ASSUME NEW w \in BrokerIds, Accept(w) PROVE Effects
  <2>1. PICK id : id = Head(requests).id
    OBVIOUS
  <2>2. Serving("Submit") /\ id \in OrderIds
    BY <1>3, <2>1, HeadRequest DEF Accept
  <2>3. [kind |-> "Submitted", id |-> id, brokerageIds |-> {w}] \in Event
    BY <2>2 DEF Event
  <2>4. requests' \in Seq(Request) /\ events' \in Seq(Event)
    BY <1>3, <2>1, <2>2, <2>3, AnswerType DEF Accept
  <2>5. /\ DOMAIN broker' = DOMAIN broker \cup {w} /\ DOMAIN broker' \subseteq BrokerIds
        /\ broker' \in [DOMAIN broker' -> BrokerOrder]
    BY <1>3, <2>2, AcceptedType DEF Accept
  <2>6. PICK f : f = With(worker.engineOf, w, id)
    OBVIOUS
  <2>7. worker' = [worker EXCEPT !.engineOf = f]
    BY <1>3, <2>1, <2>6 DEF Accept
  <2>8. DOMAIN f = DOMAIN worker.engineOf \cup {w} /\ f \in [DOMAIN f -> OrderIds]
    <3>1. worker.engineOf \in [DOMAIN worker.engineOf -> OrderIds]
      BY <1>2 DEF Maps
    <3>2. PICK e : e = worker.engineOf
      OBVIOUS
    <3>3. e \in [DOMAIN e -> OrderIds] /\ f = With(e, w, id)
      BY <3>1, <3>2, <2>6
    <3>4. DOMAIN f = DOMAIN e \cup {w} /\ f \in [DOMAIN f -> OrderIds]
      BY <3>3, <2>2 DEF With
    <3> QED BY <3>2, <3>4
  <2>9. worker'.engineOf = f /\ worker'.tracked = worker.tracked
        /\ worker' = [engineOf |-> f, tracked |-> worker.tracked]
    BY <2>7, <1>2 DEF Maps
  <2>10. Maps'
    BY <2>5, <2>8, <2>9, <1>2 DEF Maps
  <2> QED BY <2>4, <2>10
<1>4. ASSUME NEW w \in BrokerIds, LoseAck(w) PROVE Effects
  <2>1. Serving("Submit") /\ Head(requests).id \in OrderIds
    BY <1>4, HeadRequest DEF LoseAck
  <2>2. [kind |-> "SubmitFailed", id |-> Head(requests).id] \in Event
    BY <2>1 DEF Event
  <2>3. requests' \in Seq(Request) /\ events' \in Seq(Event)
    BY <1>4, <2>1, <2>2, AnswerType DEF LoseAck
  <2>4. /\ DOMAIN broker' = DOMAIN broker \cup {w} /\ DOMAIN broker' \subseteq BrokerIds
        /\ broker' \in [DOMAIN broker' -> BrokerOrder]
    BY <1>4, <2>1, AcceptedType DEF LoseAck
  <2>5. Maps'
    BY <1>4, <2>4, <1>2 DEF Maps, LoseAck
  <2> QED BY <2>3, <2>5
<1>5. ASSUME Reject \/ FailToSubmit PROVE Effects
  <2>1. Serving("Submit") /\ Head(requests).id \in OrderIds
    BY <1>5, HeadRequest DEF Reject, FailToSubmit
  <2>2. /\ [kind |-> "Invalid", id |-> Head(requests).id] \in Event
        /\ [kind |-> "SubmitFailed", id |-> Head(requests).id] \in Event
    BY <2>1 DEF Event
  <2>3. requests' \in Seq(Request) /\ events' \in Seq(Event)
    BY <1>5, <2>1, <2>2, AnswerType DEF Reject, FailToSubmit
  <2>4. UNCHANGED <<worker, broker>>
    BY <1>5 DEF Reject, FailToSubmit
  <2> QED BY <2>3, <2>4, <1>2 DEF Maps
<1>6. ASSUME ServeCancel PROVE Effects
  <2>1. requests' \in Seq(Request) /\ events' = events /\ worker' = worker
    BY <1>6, HeadRequest DEF ServeCancel
  <2>2. CASE UNCHANGED broker
    BY <2>1, <2>2, <1>2 DEF Maps
  <2>3. ASSUME NEW w \in DOMAIN broker, NEW status \in {"Canceled", "CancelPending"},
               broker' = [broker EXCEPT ![w].status = status]
        PROVE  Maps'
    <3>1. broker[w] \in BrokerOrder
      BY <1>2 DEF Maps
    <3>2. [broker[w] EXCEPT !.status = status] \in BrokerOrder
      BY <3>1 DEF BrokerOrder, BrokerStatus
    <3> QED BY <3>2, <2>1, <2>3, <1>2 DEF Maps
  <2> QED BY <2>1, <2>2, <2>3, <1>2, <1>6 DEF ServeCancel
<1>7. ASSUME ServeUpdate PROVE Effects
  <2>1. requests' \in Seq(Request) /\ UNCHANGED <<events, worker, broker>>
    BY <1>7, HeadRequest DEF ServeUpdate
  <2> QED BY <2>1, <1>2 DEF Maps
<1>8. Effects
  BY <1>3, <1>4, <1>5, <1>6, <1>7 DEF HandleRequest
<1>9. Types'
  BY <1>1, <1>8 DEF RouterOK, Types, Maps
<1>10. StoreSteady({})
  BY <1>1, StoreAlone
<1> QED BY <1>1, <1>9, <1>10, StepOK

(* A snapshot of an account order is reported.                             *)
LEMMA PollOK ==
    ASSUME RouterOK, NEW w \in BrokerIds, Poll(w)
    PROVE  RouterOK' /\ StoreSteady({}) /\ UNCHANGED <<holdings, router, requests>>
<1>1. UNCHANGED <<tm, holdings, router, pass, requests, broker, market, submits>>
  BY DEF Poll
<1>2. events \in Seq(Event) /\ Maps /\ w \in DOMAIN broker
  BY DEF RouterOK, Types, Maps, Poll
<1>3. PICK id, seen : id = Resolve(w) /\ seen = [status |-> broker[w].status,
                                                 filled |-> broker[w].filled]
  OBVIOUS
<1>4. broker[w] \in BrokerOrder
  BY <1>2 DEF Maps
<1>5. id \in OrderIds
  <2>1. id \in OrderIds \cup {0}
    BY <1>2, <1>3, <1>4 DEF Resolve, Maps, BrokerOrder
  <2> QED BY <2>1, <1>3 DEF Poll
<1>6. /\ worker' = [worker EXCEPT !.tracked[id] = seen]
      /\ events' = Append(events, [kind |-> "Status", id |-> id, symbol |-> broker[w].symbol,
                                   status |-> seen.status, filled |-> seen.filled])
  BY <1>3 DEF Poll
<1>7. seen \in [status : BrokerStatus \cup {"Unseen"}, filled : Int]
  BY <1>3, <1>4 DEF BrokerOrder
<1>8. events' \in Seq(Event)
  <2>1. [kind |-> "Status", id |-> id, symbol |-> broker[w].symbol,
         status |-> seen.status, filled |-> seen.filled] \in Event
    BY <1>3, <1>4, <1>5 DEF Event, BrokerOrder
  <2> QED BY <2>1, <1>2, <1>6, CountAppend
<1>9. Maps'
  BY <1>1, <1>2, <1>5, <1>6, <1>7 DEF Maps
<1>10. Types'
  BY <1>1, <1>8, <1>9 DEF RouterOK, Types, Maps
<1> QED BY <1>1, <1>10, StoreAlone, StepOK

(* The brokerage works on an order of the account.                         *)
LEMMA BrokerageOK ==
    ASSUME RouterOK, NEW w \in BrokerIds,
           BrokerFills(w) \/ \E status \in {"Canceled", "Invalid"} : BrokerCloses(w, status)
    PROVE  RouterOK' /\ StoreSteady({}) /\ UNCHANGED <<holdings, router, requests, events>>
<1>1. UNCHANGED <<tm, holdings, router, pass, requests, events, worker, market, submits>>
  BY DEF BrokerFills, BrokerCloses
<1>2. Maps /\ w \in DOMAIN broker /\ broker[w] \in BrokerOrder
  BY DEF RouterOK, Types, Maps, BrokerFills, BrokerCloses
<1>3. PICK o \in BrokerOrder : broker' = [broker EXCEPT ![w] = o]
  <2>1. ASSUME BrokerFills(w) PROVE \E o \in BrokerOrder : broker' = [broker EXCEPT ![w] = o]
    <3>1. PICK left : left = broker[w].quantity - broker[w].filled
      OBVIOUS
    <3>2. PICK quantity \in IF left > 0 THEN 1..left ELSE left..(-1) :
              broker' = [broker EXCEPT
                  ![w].filled = @ + quantity,
                  ![w].status = IF quantity = left THEN "Filled"
                                ELSE IF @ = "Submitted" THEN "PartiallyFilled" ELSE @]
      BY <2>1, <3>1 DEF BrokerFills
    <3>3. quantity \in Int
      BY <1>2, <3>1, <3>2 DEF BrokerOrder
    <3>4. PICK status : status = IF quantity = left THEN "Filled"
                                 ELSE IF broker[w].status = "Submitted" THEN "PartiallyFilled"
                                 ELSE broker[w].status
      OBVIOUS
    <3>5. PICK o : o = [broker[w] EXCEPT !.filled = @ + quantity, !.status = status]
      OBVIOUS
    <3>6. o \in BrokerOrder
      <4>1. broker[w].filled + quantity \in Int
        BY <1>2, <3>3 DEF BrokerOrder
      <4>2. status \in BrokerStatus
        BY <1>2, <3>4 DEF BrokerOrder, BrokerStatus
      <4> QED BY <4>1, <4>2, <3>5, <1>2 DEF BrokerOrder
    <3>7. broker' = [broker EXCEPT ![w] = o]
      BY <3>2, <3>4, <3>5, <1>2 DEF Maps, BrokerOrder
    <3> QED BY <3>6, <3>7
  <2>2. ASSUME NEW status \in {"Canceled", "Invalid"}, BrokerCloses(w, status)
        PROVE  \E o \in BrokerOrder : broker' = [broker EXCEPT ![w] = o]
    <3>1. [broker[w] EXCEPT !.status = status] \in BrokerOrder
      BY <1>2 DEF BrokerOrder, BrokerStatus
    <3> QED BY <3>1, <2>2 DEF BrokerCloses
  <2> QED BY <2>1, <2>2
<1>4. Maps'
  BY <1>1, <1>2, <1>3 DEF Maps
<1>5. Types'
  BY <1>1, <1>4 DEF RouterOK, Types, Maps
<1> QED BY <1>1, <1>5, StoreAlone, StepOK

(* Bells, quotes and the passage of time.                                  *)
LEMMA ClockOK ==
    ASSUME RouterOK,
           RingBell \/ (\E symbol \in Symbols : Quote(symbol)) \/ \E id \in OrderIds : RetryElapses(id)
    PROVE  /\ RouterOK' /\ StoreSteady({}) /\ UNCHANGED <<holdings, requests, events>>
           /\ router'.applied = router.applied /\ router'.submitted = router.submitted
<1>1. UNCHANGED <<tm, holdings, pass, requests, events, worker, broker, submits>>
  BY DEF RingBell, Quote, RetryElapses
<1>2. /\ market \in [bells : 0..MaxBells, priced : SUBSET Symbols]
      /\ router \in Bookkeeping /\ MaxBells \in Nat
  BY BoundsAssumption DEF RouterOK, Types
<1>3. market' \in [bells : 0..MaxBells, priced : SUBSET Symbols]
  BY <1>2 DEF RingBell, Quote, RetryElapses
<1>4. /\ router' \in Bookkeeping
      /\ router'.applied = router.applied /\ router'.submitted = router.submitted
  BY <1>2 DEF RingBell, Quote, RetryElapses, Bookkeeping
<1>5. Types'
  BY <1>1, <1>3, <1>4 DEF RouterOK, Types
<1> QED BY <1>1, <1>4, <1>5, StoreAlone, StepOK

(* The event at the head of the queue, and the queue without it.           *)
LEMMA HeadEvent ==
    ASSUME RouterOK, NEW kind, Applying(kind)
    PROVE  /\ events \in Seq(Event) /\ events # <<>>
           /\ Head(events) \in Event /\ Head(events).kind = kind /\ Head(events).id \in OrderIds
           /\ Tail(events) \in Seq(Event)
           /\ kind = "Submitted" => Head(events) \in Acceptances
           /\ kind = "Status" => Head(events) \in Snapshots
<1>1. events \in Seq(Event) /\ events # <<>> /\ Head(events).kind = kind
  BY DEF RouterOK, Types, Applying
<1>2. Head(events) \in Event /\ Tail(events) \in Seq(Event)
  BY <1>1, CountTail
<1>3. Event = Acceptances \cup Failures \cup Snapshots
  BY DEF Event, Acceptances, Failures, Snapshots
<1> QED BY <1>1, <1>2, <1>3 DEF Acceptances, Failures, Snapshots

(* The router's bookkeeping with an order settled.                         *)
LEMMA SettledType ==
    ASSUME router \in Bookkeeping, NEW id \in OrderIds, NEW next, next = Settled(id)
    PROVE  /\ next \in Bookkeeping
           /\ next.applied = router.applied /\ next.submitted = router.submitted
BY DEF Settled, Bookkeeping

(* An order marked invalid, in the store.                                  *)
LEMMA MarkInvalidOK ==
    ASSUME RouterOK, NEW id \in OrderIds, Known(id), tm' = MarkInvalid(id)
    PROVE  StoreSteady({})
<1>1. PICK s, r : s = tm /\ r = tm'
  OBVIOUS
<1>2. StoreOK(s) /\ id \in DOMAIN s.orders /\ s.orders[id] \in Order
  BY <1>1, StoreFields DEF RouterOK, Known
<1>3. PICK o : o = WithStatus(s.orders[id], "Invalid")
  OBVIOUS
<1>4. o \in Order /\ o.symbol = s.orders[id].symbol /\ o.filled = s.orders[id].filled
  BY <1>2, <1>3 DEF WithStatus, Order, Status
<1>5. PICK q : q = AddOrUpdateOrder(s, id, o)
  OBVIOUS
<1>6. StoreOK(q) /\ Steady(s, q, {})
  BY <1>2, <1>4, <1>5, RewriteSteady
<1>7. r = Emit(q, id, "Invalid", 0)
  BY <1>1, <1>3, <1>5 DEF MarkInvalid
<1>8. StoreOK(r) /\ Steady(q, r, {})
  BY <1>6, <1>7, PlainEventOK
<1> QED BY <1>1, <1>6, <1>8, SteadyTwice DEF StoreSteady

(* An answer of the worker is applied.                                     *)
LEMMA AnswerOK ==
    ASSUME RouterOK, ApplySubmitted \/ ApplyInvalid \/ ApplySubmitFailed
    PROVE  /\ RouterOK' /\ StoreSteady({})
           /\ UNCHANGED <<holdings, requests>>
           /\ router'.applied = router.applied
<1>1. /\ UNCHANGED <<holdings, pass, requests, worker, broker, market, submits>>
      /\ events' = Tail(events)
  BY DEF ApplySubmitted, ApplyInvalid, ApplySubmitFailed
<1>2. router \in Bookkeeping /\ StoreOK(tm)
  BY DEF RouterOK, Types
<1> DEFINE Effects == StoreSteady({}) /\ router' \in Bookkeeping /\ router'.applied = router.applied
<1>3. PICK event : event = Head(events)
  OBVIOUS
<1>4. PICK id : id = event.id
  OBVIOUS
<1>5. ASSUME ApplySubmitted PROVE Effects /\ events' \in Seq(Event)
  <2>1. event \in Acceptances /\ id \in OrderIds /\ events' \in Seq(Event)
    BY <1>1, <1>3, <1>4, <1>5, HeadEvent DEF ApplySubmitted
  <2>2. CASE Known(id) /\ tm.orders[id].status = "New"
    <3>1. PICK s, r : s = tm /\ r = tm'
      OBVIOUS
    <3>2. StoreOK(s) /\ id \in DOMAIN s.orders /\ s.orders[id] \in Order
      BY <2>2, <3>1, <1>2, StoreFields DEF Known
    <3>3. PICK o : o = [s.orders[id] EXCEPT !.status = "Submitted",
                                            !.brokerageIds = event.brokerageIds]
      OBVIOUS
    <3>4. o \in Order /\ o.symbol = s.orders[id].symbol /\ o.filled = s.orders[id].filled
      <4>1. event.brokerageIds \in SUBSET BrokerIds /\ "Submitted" \in Status
        BY <2>1 DEF Acceptances, Status
      <4> QED BY <4>1, <3>2, <3>3 DEF Order
    <3>5. PICK q : q = AddOrUpdateOrder(s, id, o)
      OBVIOUS
    <3>6. StoreOK(q) /\ Steady(s, q, {})
      BY <3>2, <3>4, <3>5, RewriteSteady
    <3>7. r = Emit(q, id, "Submitted", 0) /\ router' = Settled(id)
      BY <1>3, <1>4, <1>5, <2>2, <3>1, <3>3, <3>5 DEF ApplySubmitted
    <3>8. StoreOK(r) /\ Steady(q, r, {})
      BY <2>1, <3>6, <3>7, PlainEventOK
    <3>9. StoreSteady({})
      BY <3>1, <3>6, <3>8, SteadyTwice DEF StoreSteady
    <3> QED BY <2>1, <3>7, <3>9, <1>2, SettledType
  <2>3. CASE ~(Known(id) /\ tm.orders[id].status = "New")
    <3>1. UNCHANGED <<tm, router>>
      BY <1>3, <1>4, <1>5, <2>3 DEF ApplySubmitted
    <3> QED BY <2>1, <3>1, <1>2, StoreAlone
  <2> QED BY <2>2, <2>3
<1>6. ASSUME ApplyInvalid PROVE Effects /\ events' \in Seq(Event)
  <2>1. id \in OrderIds /\ events' \in Seq(Event)
    BY <1>1, <1>3, <1>4, <1>6, HeadEvent DEF ApplyInvalid
  <2>2. CASE Known(id)
    <3>1. tm' = MarkInvalid(id) /\ router' = Settled(id)
      BY <1>3, <1>4, <1>6, <2>2 DEF ApplyInvalid
    <3> QED BY <2>1, <2>2, <3>1, <1>2, MarkInvalidOK, SettledType
  <2>3. CASE ~Known(id)
    <3>1. UNCHANGED <<tm, router>>
      BY <1>3, <1>4, <1>6, <2>3 DEF ApplyInvalid
    <3> QED BY <2>1, <3>1, <1>2, StoreAlone
  <2> QED BY <2>2, <2>3
<1>7. ASSUME ApplySubmitFailed PROVE Effects /\ events' \in Seq(Event)
  <2>1. id \in OrderIds /\ events' \in Seq(Event)
    BY <1>1, <1>3, <1>4, <1>7, HeadEvent DEF ApplySubmitFailed
  <2>2. CASE ~Known(id)
    <3>1. UNCHANGED <<tm, router>>
      BY <1>3, <1>4, <1>7, <2>2 DEF ApplySubmitFailed
    <3> QED BY <2>1, <3>1, <1>2, StoreAlone
  <2>3. CASE Known(id) /\ RetryLeft(id)
    <3>1. /\ router' = [router EXCEPT !.submitted = NoLongerInFlight(id), !.waiting = @ \cup {id}]
          /\ UNCHANGED tm
      BY <1>3, <1>4, <1>7, <2>3 DEF ApplySubmitFailed
    <3>2. router' \in Bookkeeping /\ router'.applied = router.applied
      BY <2>1, <3>1, <1>2 DEF Bookkeeping, NoLongerInFlight
    <3> QED BY <2>1, <3>1, <3>2, StoreAlone
  <2>4. CASE Known(id) /\ ~RetryLeft(id)
    <3>1. /\ tm' = MarkInvalid(id)
          /\ router' = [Settled(id) EXCEPT !.submitted = NoLongerInFlight(id)]
      BY <1>3, <1>4, <1>7, <2>4 DEF ApplySubmitFailed
    <3>2. PICK next : next = Settled(id)
      OBVIOUS
    <3>3. next \in Bookkeeping /\ next.applied = router.applied
      BY <2>1, <3>2, <1>2, SettledType
    <3>4. router' \in Bookkeeping /\ router'.applied = router.applied
      BY <3>1, <3>2, <3>3, <1>2 DEF Bookkeeping, NoLongerInFlight
    <3> QED BY <2>1, <2>4, <3>1, <3>4, MarkInvalidOK
  <2> QED BY <2>2, <2>3, <2>4
<1>8. Effects /\ events' \in Seq(Event)
  BY <1>5, <1>6, <1>7
<1>9. Types'
  BY <1>1, <1>8 DEF RouterOK, Types
<1> QED BY <1>1, <1>8, <1>9, StepOK

---------------------------------------------------------------------------
(* A step changes no fill anywhere, or applies the fill of one order to the *)
(* store, the portfolio and the router's bookkeeping alike.                *)
NoFill ==
    /\ StoreSteady({})
    /\ UNCHANGED holdings
    /\ router'.applied = router.applied

FillOf(id, total) ==
    LET delta == total - router.applied[id]
    IN  /\ StoreSteady({id})
        /\ DOMAIN tm'.orders = DOMAIN tm.orders
        /\ tm'.orders[id].filled = tm.orders[id].filled + delta
        /\ holdings' = [holdings EXCEPT ![tm.orders[id].symbol] = @ + delta]
        /\ router'.applied = [router.applied EXCEPT ![id] = total]

FillsAlike == NoFill \/ \E id \in DOMAIN tm.orders, total \in Int : FillOf(id, total)

(* A snapshot is applied.                                                  *)
LEMMA ApplyStatusOK ==
    ASSUME RouterOK, ApplyStatus
    PROVE  RouterOK' /\ FillsAlike /\ router'.submitted = router.submitted
<1>1. /\ UNCHANGED <<pass, requests, worker, broker, market, submits>>
      /\ events' = Tail(events)
  BY DEF ApplyStatus
<1>2. router \in Bookkeeping /\ holdings \in [Symbols -> Int] /\ StoreOK(tm)
  BY DEF RouterOK, Types
<1>3. PICK event, id : event = Head(events) /\ id = event.id
  OBVIOUS
<1>4. event \in Snapshots /\ id \in OrderIds /\ events' \in Seq(Event)
  BY <1>1, <1>3, HeadEvent DEF ApplyStatus
<1> DEFINE Effects == /\ router' \in Bookkeeping /\ holdings' \in [Symbols -> Int]
                      /\ router'.submitted = router.submitted
<1>5. CASE Ignored(event)
  <2>1. UNCHANGED <<tm, router, holdings>>
    BY <1>3, <1>5 DEF ApplyStatus
  <2>2. NoFill
    BY <2>1, StoreAlone DEF NoFill
  <2>3. Types'
    BY <1>1, <1>2, <1>4, <2>1 DEF RouterOK, Types
  <2> QED BY <2>1, <2>2, <2>3, <1>1, StepOK DEF NoFill, FillsAlike
<1>6. CASE ~Ignored(event)
  <2>1. /\ tm' = Emit(tm, id, event.status, FillDelta(event))
        /\ IF IsFill(event.status)
           THEN /\ holdings' = [holdings EXCEPT ![event.symbol] = @ + FillDelta(event)]
                /\ router' = [router EXCEPT !.applied[id] = event.filled]
           ELSE UNCHANGED <<holdings, router>>
    BY <1>3, <1>6 DEF ApplyStatus
  <2>2. id \in DOMAIN tm.orders /\ event.symbol = tm.orders[id].symbol
    BY <1>3, <1>6 DEF Ignored, Known
  <2>3. PICK delta : delta = event.filled - router.applied[id]
    OBVIOUS
  <2>4. FillDelta(event) = delta /\ delta \in Int /\ event.filled \in Int
    BY <2>3, <1>2, <1>3, <1>4 DEF FillDelta, Bookkeeping, Snapshots
  <2>5. PICK e : e = [orderId |-> id, status |-> event.status, fillQuantity |-> delta]
    OBVIOUS
  <2>6. e \in OrderEvent /\ e.orderId = id /\ e.status = event.status /\ e.fillQuantity = delta
    <3>1. event.status \in Status
      BY <1>4 DEF Snapshots, BrokerStatus, Status
    <3> QED BY <3>1, <2>4, <2>5, <1>4, EventType
  <2>7. PICK s, r : s = tm /\ r = tm'
    OBVIOUS
  <2>8. StoreOK(s) /\ r = ProcessOrderEvent(s, e) /\ id \in DOMAIN s.orders
    BY <2>1, <2>2, <2>4, <2>5, <2>7, <1>2 DEF Emit
  <2>9. CASE IsFill(event.status)
    <3>1. /\ StoreOK(r) /\ DOMAIN r.orders = DOMAIN s.orders /\ Steady(s, r, {id})
          /\ r.orders[id].filled = s.orders[id].filled + delta
      <4>1. e.orderId \in {id}
        BY <2>6
      <4> QED BY <4>1, <2>6, <2>8, <2>9, EventSteady
    <3>2. StoreSteady({id})
      BY <3>1, <2>7 DEF StoreSteady
    <3>3. /\ holdings' = [holdings EXCEPT ![tm.orders[id].symbol] = @ + delta]
          /\ router' = [router EXCEPT !.applied[id] = event.filled]
      BY <2>1, <2>2, <2>4, <2>9
    <3>4. router'.applied = [router.applied EXCEPT ![id] = event.filled]
      BY <3>3, <1>2 DEF Bookkeeping
    <3>5. FillOf(id, event.filled)
      BY <3>1, <3>2, <3>3, <3>4, <2>3, <2>7 DEF FillOf
    <3>6. Effects
      <4>1. tm.orders[id].symbol \in Symbols
        BY <2>7, <2>8, StoreFields DEF Order
      <4>2. holdings' \in [Symbols -> Int]
        BY <4>1, <3>3, <2>4, <1>2
      <4>3. router' \in Bookkeeping /\ router'.submitted = router.submitted
        <5>1. [router.applied EXCEPT ![id] = event.filled] \in [OrderIds -> Int]
          BY <2>4, <1>2 DEF Bookkeeping
        <5> QED BY <5>1, <3>3, <1>2 DEF Bookkeeping
      <4> QED BY <4>2, <4>3
    <3>7. Types'
      BY <1>1, <1>4, <3>6 DEF RouterOK, Types
    <3>8. RouterOK'
      BY <3>2, <3>7, <1>1, StepOK
    <3> QED BY <2>2, <2>4, <3>5, <3>6, <3>8 DEF FillsAlike
  <2>10. CASE ~IsFill(event.status)
    <3>1. StoreOK(r) /\ Steady(s, r, {})
      BY <2>6, <2>8, <2>10, EventSteady
    <3>2. StoreSteady({}) /\ UNCHANGED <<holdings, router>>
      BY <3>1, <2>1, <2>7, <2>10 DEF StoreSteady
    <3>3. Types'
      BY <1>1, <1>2, <1>4, <3>2 DEF RouterOK, Types
    <3>4. RouterOK'
      BY <3>2, <3>3, <1>1, StepOK
    <3> QED BY <3>2, <3>4 DEF NoFill, FillsAlike
  <2> QED BY <2>9, <2>10
<1> QED BY <1>5, <1>6

(* Every step keeps the types and the store, and the fills alike.          *)
LEMMA NextOK ==
    ASSUME RouterOK, [Next]_vars
    PROVE  RouterOK' /\ FillsAlike
<1>1. CASE \E id \in OrderIds : (\E item \in Menu[id] : Place(id, item)) \/ Cancel(id) \/ Update(id)
  BY <1>1, AlgorithmOK DEF FillsAlike, NoFill
<1>2. CASE \E id \in OrderIds : DispatchOne(id)
  BY <1>2, DispatchOK DEF FillsAlike, NoFill
<1>3. CASE RingBell \/ (\E symbol \in Symbols : Quote(symbol)) \/ \E id \in OrderIds : RetryElapses(id)
  BY <1>3, ClockOK DEF FillsAlike, NoFill
<1>4. CASE BeginPass
  BY <1>4, BeginPassOK DEF FillsAlike, NoFill
<1>5. CASE HandleRequest
  BY <1>5, HandleRequestOK DEF FillsAlike, NoFill
<1>6. CASE ApplyEvent
  BY <1>6, AnswerOK, ApplyStatusOK DEF ApplyEvent, FillsAlike, NoFill
<1>7. CASE \E w \in BrokerIds : Poll(w)
  BY <1>7, PollOK DEF FillsAlike, NoFill
<1>8. CASE \E w \in BrokerIds :
              BrokerFills(w) \/ \E status \in {"Canceled", "Invalid"} : BrokerCloses(w, status)
  BY <1>8, BrokerageOK DEF FillsAlike, NoFill
<1>9. CASE UNCHANGED vars
  <2>1. UNCHANGED <<tm, holdings, router, pass, requests, events, worker, broker, market, submits>>
    BY <1>9 DEF vars
  <2>2. Types'
    BY <2>1 DEF RouterOK, Types
  <2> QED BY <2>1, <2>2, StoreAlone, StepOK DEF FillsAlike, NoFill
<1> QED BY <1>1, <1>2, <1>3, <1>4, <1>5, <1>6, <1>7, <1>8, <1>9 DEF Next

(* In every reachable state the router's data have their types, the open-  *)
(* order index is exact and the tickets mirror the orders.                 *)
THEOREM RouterConsistent == Spec => [](TypeOK /\ BooksExact)
<1>1. RouterOK => TypeOK /\ BooksExact
  BY TypesFit DEF RouterOK
<1> QED BY <1>1, StartsOK, NextOK, PTL DEF Spec

(* The router, the worker, the queues and the account keep their types.    *)
THEOREM RouterTyped == Spec => []TypeOK
BY RouterConsistent, PTL

---------------------------------------------------------------------------
(* Fills.  What the router has not seen it has applied nothing of.         *)
Fills ==
    /\ \A id \in OrderIds \ DOMAIN tm.orders : router.applied[id] = 0
    /\ FilledAsApplied
    /\ HoldingsMatchFills

(* What is applied to a symbol is a sum over its orders.                   *)
LEMMA AppliedIsTotal ==
    ASSUME NEW symbol
    PROVE  /\ AppliedTo(symbol) = Total(router.applied, OrdersIn(tm, symbol))
           /\ AppliedTo(symbol)' = Total(router'.applied, OrdersIn(tm', symbol))
<1>1. AppliedTo(symbol) = SumFunctionOnSet(router.applied, OrdersIn(tm, symbol))
  BY DEF AppliedTo, OrdersIn
<1>2. AppliedTo(symbol)' = SumFunctionOnSet(router'.applied, OrdersIn(tm', symbol))
  BY DEF AppliedTo, OrdersIn
<1> QED BY <1>1, <1>2, SumFunctionOnSetIsTotal

(* New orders of a symbol add nothing to what is applied to it.            *)
LEMMA SteadyTotal ==
    ASSUME NEW s, StoreOK(s), NEW r, StoreOK(r), NEW refilled, Steady(s, r, refilled),
           NEW f \in [OrderIds -> Int], \A id \in OrderIds \ DOMAIN s.orders : f[id] = 0,
           NEW symbol
    PROVE  Total(f, OrdersIn(r, symbol)) = Total(f, OrdersIn(s, symbol))
<1>1. /\ IsFiniteSet(OrdersIn(r, symbol)) /\ OrdersIn(r, symbol) \subseteq OrderIds
      /\ OrdersIn(s, symbol) \subseteq OrdersIn(r, symbol)
  BY OrdersInFinite DEF Steady, OrdersIn
<1>2. \A id \in OrdersIn(r, symbol) \ OrdersIn(s, symbol) : f[id] = 0
  BY <1>1 DEF Steady, OrdersIn
<1> QED BY <1>1, <1>2, TotalZeros

(* A session starts with nothing applied.                                  *)
LEMMA StartsWithFills == Init => Fills
<1> SUFFICES ASSUME Init PROVE Fills
  OBVIOUS
<1>1. router.applied = [id \in OrderIds |-> 0] /\ holdings = InitialHoldings
  BY DEF Init
<1>2. DOMAIN tm.orders = ImportedIds /\ StoreOK(StartupStore)
  BY StartupOK DEF Init
<1>3. FilledAsApplied
  BY <1>2 DEF FilledAsApplied
<1>4. HoldingsMatchFills
  <2>1. ASSUME NEW symbol \in Symbols PROVE AppliedTo(symbol) = 0
    <3>1. IsFiniteSet(OrdersIn(tm, symbol)) /\ OrdersIn(tm, symbol) \subseteq OrderIds
      BY <1>2, OrdersInFinite DEF Init
    <3>2. \A id \in OrdersIn(tm, symbol) : router.applied[id] = 0
      BY <1>1, <3>1
    <3>3. Total(router.applied, OrdersIn(tm, symbol)) = Total(router.applied, {})
      BY <3>1, <3>2, TotalZeros
    <3>4. Total(router.applied, {}) = 0
      BY TotalUnfolds, FS_EmptySet
    <3> QED BY <3>3, <3>4, AppliedIsTotal
  <2>2. InitialHoldings \in [Symbols -> Int]
    BY HoldingsAssumption
  <2> QED BY <2>1, <2>2, <1>1 DEF HoldingsMatchFills
<1> QED BY <1>1, <1>3, <1>4 DEF Fills

(* A step without a fill.                                                  *)
LEMMA NoFillKeepsFills ==
    ASSUME RouterOK, RouterOK', Fills, NoFill
    PROVE  Fills'
<1>1. PICK s, r, f : s = tm /\ r = tm' /\ f = router.applied
  OBVIOUS
<1>2. StoreOK(s) /\ StoreOK(r) /\ Steady(s, r, {}) /\ f \in [OrderIds -> Int]
  BY <1>1 DEF RouterOK, NoFill, StoreSteady, Types, Bookkeeping
<1>3. router'.applied = f /\ holdings' = holdings
  BY <1>1 DEF NoFill
<1>4. \A id \in OrderIds \ DOMAIN s.orders : f[id] = 0
  BY <1>1 DEF Fills
<1>5. \A id \in OrderIds \ DOMAIN r.orders : f[id] = 0
  BY <1>2, <1>4 DEF Steady
<1>6. FilledAsApplied'
  <2>1. \A id \in DOMAIN s.orders \ ImportedIds : s.orders[id].filled = f[id]
    BY <1>1 DEF Fills, FilledAsApplied
  <2>2. \A id \in DOMAIN r.orders \ ImportedIds : r.orders[id].filled = f[id]
    <3>1. DOMAIN r.orders \subseteq OrderIds
      BY <1>2, StoreFields
    <3> QED BY <2>1, <3>1, <1>2, <1>4 DEF Steady
  <2> QED BY <2>2, <1>1, <1>3 DEF FilledAsApplied
<1>7. HoldingsMatchFills'
  <2>1. \A symbol \in Symbols : Total(f, OrdersIn(r, symbol)) = Total(f, OrdersIn(s, symbol))
    BY <1>2, <1>4, SteadyTotal
  <2>2. \A symbol \in Symbols : AppliedTo(symbol)' = AppliedTo(symbol)
    BY <2>1, <1>1, <1>3, AppliedIsTotal
  <2> QED BY <2>2, <1>3 DEF Fills, HoldingsMatchFills
<1> QED BY <1>1, <1>3, <1>5, <1>6, <1>7 DEF Fills

(* A step with a fill.                                                     *)
LEMMA FillKeepsFills ==
    ASSUME RouterOK, RouterOK', Fills, NEW id \in DOMAIN tm.orders, NEW total \in Int,
           FillOf(id, total)
    PROVE  Fills'
<1>1. PICK s, r, f, g : s = tm /\ r = tm' /\ f = router.applied /\ g = router'.applied
  OBVIOUS
<1>2. PICK delta : delta = total - f[id]
  OBVIOUS
<1>3. /\ StoreOK(s) /\ StoreOK(r) /\ Steady(s, r, {id}) /\ DOMAIN r.orders = DOMAIN s.orders
      /\ f \in [OrderIds -> Int] /\ holdings \in [Symbols -> Int]
  BY <1>1 DEF RouterOK, FillOf, StoreSteady, Types, Bookkeeping
<1>4. /\ r.orders[id].filled = s.orders[id].filled + delta
      /\ holdings' = [holdings EXCEPT ![s.orders[id].symbol] = @ + delta]
      /\ g = [f EXCEPT ![id] = total]
  BY <1>1, <1>2 DEF FillOf
<1>5. /\ id \in DOMAIN s.orders /\ DOMAIN s.orders \subseteq OrderIds /\ delta \in Int
      /\ s.orders[id].symbol \in Symbols
  <2>1. id \in DOMAIN s.orders /\ DOMAIN s.orders \subseteq OrderIds /\ s.orders[id] \in Order
    BY <1>1, <1>3, StoreFields
  <2> QED BY <2>1, <1>2, <1>3 DEF Order
<1>6. /\ g \in [OrderIds -> Int] /\ g[id] = total
      /\ \A i \in OrderIds : i # id => g[i] = f[i]
  BY <1>3, <1>4, <1>5
<1>7. \A i \in OrderIds \ DOMAIN r.orders : g[i] = 0
  BY <1>1, <1>3, <1>5, <1>6 DEF Fills
<1>8. FilledAsApplied'
  <2>1. \A i \in DOMAIN s.orders \ ImportedIds : s.orders[i].filled = f[i]
    BY <1>1 DEF Fills, FilledAsApplied
  <2>2. id \notin ImportedIds => r.orders[id].filled = g[id]
    BY <2>1, <1>2, <1>3, <1>4, <1>5, <1>6
  <2>3. \A i \in DOMAIN r.orders \ ImportedIds : r.orders[i].filled = g[i]
    BY <2>1, <2>2, <1>3, <1>5, <1>6 DEF Steady
  <2> QED BY <2>3, <1>1 DEF FilledAsApplied
<1>9. HoldingsMatchFills'
  <2> SUFFICES ASSUME NEW symbol \in Symbols
               PROVE  holdings'[symbol] = InitialHoldings[symbol] + AppliedTo(symbol)'
    BY DEF HoldingsMatchFills
  <2>1. PICK S : S = OrdersIn(s, symbol)
    OBVIOUS
  <2>2. IsFiniteSet(S) /\ S \subseteq OrderIds
    BY <2>1, <1>3, OrdersInFinite
  <2>3. OrdersIn(r, symbol) = S
    BY <2>1, <1>3 DEF Steady, OrdersIn
  <2>4. AppliedTo(symbol) = Total(f, S) /\ AppliedTo(symbol)' = Total(g, S)
    BY <2>1, <2>3, <1>1, AppliedIsTotal
  <2>5. holdings[symbol] = InitialHoldings[symbol] + Total(f, S) /\ Total(f, S) \in Int
    BY <2>2, <2>4, <1>3, TotalType DEF Fills, HoldingsMatchFills
  <2>6. CASE symbol = s.orders[id].symbol
    <3>1. id \in S
      BY <2>1, <2>6, <1>5 DEF OrdersIn
    <3>2. Total(g, S) = Total(f, S) + (g[id] - f[id])
      BY <3>1, <2>2, <1>3, <1>6, TotalChange
    <3>3. holdings'[symbol] = holdings[symbol] + delta
      BY <2>6, <1>3, <1>4, <1>5
    <3>4. InitialHoldings[symbol] \in Int
      BY HoldingsAssumption
    <3> QED BY <3>2, <3>3, <3>4, <2>4, <2>5, <1>2, <1>5, <1>6
  <2>7. CASE symbol # s.orders[id].symbol
    <3>1. \A i \in S : f[i] = g[i]
      BY <2>1, <2>2, <2>7, <1>6 DEF OrdersIn
    <3>2. Total(g, S) = Total(f, S)
      BY <3>1, <2>2, TotalSame
    <3>3. holdings'[symbol] = holdings[symbol]
      BY <2>7, <1>3, <1>4
    <3> QED BY <3>2, <3>3, <2>4, <2>5
  <2> QED BY <2>6, <2>7
<1> QED BY <1>1, <1>7, <1>8, <1>9 DEF Fills

(* In every reachable state the portfolio holds what it held at startup and *)
(* the fills applied, and the store counts as filled what was applied.      *)
THEOREM RouterFillsHold == Spec => [](HoldingsMatchFills /\ FilledAsApplied)
<1>1. RouterOK /\ Fills /\ [Next]_vars => RouterOK' /\ Fills'
  BY NextOK, NoFillKeepsFills, FillKeepsFills DEF FillsAlike
<1>2. Fills => HoldingsMatchFills /\ FilledAsApplied
  BY DEF Fills
<1> QED BY <1>1, <1>2, StartsOK, StartsWithFills, PTL DEF Spec

---------------------------------------------------------------------------
(* Submissions.  One of an order is a request on its way to the worker or   *)
(* an answer on its way back.                                              *)
SubmitsOf(id) == {m \in Request : m.kind = "Submit" /\ m.id = id}
AnswersOf(id) == {m \in Event : m.kind \in Answers /\ m.id = id}

InFlight(q, e, id) == Count(q, SubmitsOf(id)) + Count(e, AnswersOf(id))

AtMostOne(q, e, submitted, id) ==
    /\ Count(q, SubmitsOf(id)) \in Nat /\ Count(e, AnswersOf(id)) \in Nat
    /\ InFlight(q, e, id) =< IF id \in submitted THEN 1 ELSE 0

OneInFlight == \A id \in OrderIds : AtMostOne(requests, events, router.submitted, id)

(* The two ways of counting agree.                                         *)
LEMMA InFlightFits ==
    ASSUME RouterOK, OneInFlight
    PROVE  OneSubmissionInFlight
<1> SUFFICES ASSUME NEW id \in OrderIds
             PROVE  Cardinality({i \in DOMAIN requests :
                                    requests[i].kind = "Submit" /\ requests[i].id = id})
                  + Cardinality({i \in DOMAIN events :
                                    events[i].kind \in Answers /\ events[i].id = id})
                    =< IF id \in router.submitted THEN 1 ELSE 0
  BY DEF OneSubmissionInFlight
<1>1. requests \in Seq(Request) /\ events \in Seq(Event)
  BY DEF RouterOK, Types
<1>2. {i \in DOMAIN requests : requests[i].kind = "Submit" /\ requests[i].id = id}
          = Where(requests, SubmitsOf(id))
  BY <1>1 DEF Where, SubmitsOf
<1>3. {i \in DOMAIN events : events[i].kind \in Answers /\ events[i].id = id}
          = Where(events, AnswersOf(id))
  BY <1>1 DEF Where, AnswersOf
<1> QED BY <1>2, <1>3 DEF OneInFlight, AtMostOne, InFlight, Count

(* Queues that are left alone, with the marks of the router.               *)
LEMMA QueuesAlone ==
    ASSUME OneInFlight, UNCHANGED <<requests, events>>, router'.submitted = router.submitted
    PROVE  OneInFlight'
BY DEF OneInFlight

(* A request sent, that is no submission.                                  *)
LEMMA ForwardKeepsFlight ==
    ASSUME RouterOK, OneInFlight, NEW id \in OrderIds, ForwardCancel(id) \/ ForwardUpdate(id),
           RouterOK'
    PROVE  OneInFlight'
<1>1. PICK q, m : /\ q = requests /\ requests' = Append(q, m) /\ m \in Request
                  /\ m.kind # "Submit"
  <2>1. PICK kind \in {"Cancel", "Update"} :
            requests' = Append(requests, [kind |-> kind, id |-> id, order |-> tm.orders[id]])
    BY DEF ForwardCancel, ForwardUpdate
  <2>2. tm.orders[id] \in Order
    BY StoreFields DEF ForwardCancel, ForwardUpdate, Visit, RouterOK
  <2>3. [kind |-> kind, id |-> id, order |-> tm.orders[id]] \in Request
    BY <2>2 DEF Request
  <2> QED BY <2>1, <2>3
<1>2. q \in Seq(Request) /\ events' = events /\ router'.submitted = router.submitted
  BY <1>1 DEF RouterOK, Types, Bookkeeping, ForwardCancel, ForwardUpdate
<1>3. ASSUME NEW j \in OrderIds
      PROVE  Count(Append(q, m), SubmitsOf(j)) = Count(q, SubmitsOf(j))
  <2>1. m \notin SubmitsOf(j)
    BY <1>1 DEF SubmitsOf
  <2>2. Count(q, SubmitsOf(j)) \in Nat
    BY <1>2, CountType
  <2> QED BY <2>1, <2>2, <1>1, <1>2, CountAppend
<1> QED BY <1>1, <1>2, <1>3 DEF OneInFlight, AtMostOne, InFlight

(* A submission sent: none of the order was in flight.                     *)
LEMMA SubmitKeepsFlight ==
    ASSUME RouterOK, OneInFlight, NEW id \in OrderIds, Submit(id)
    PROVE  OneInFlight'
<1>1. PICK q, m : /\ q = requests /\ requests' = Append(q, m) /\ m \in Request
                  /\ m.kind = "Submit" /\ m.id = id
  <2>1. tm.orders[id] \in Order
    BY StoreFields DEF Submit, Visit, RouterOK
  <2>2. PICK o : o = [tm.orders[id] EXCEPT !.marketOnOpen = FALSE]
    OBVIOUS
  <2>3. o \in Order
    BY <2>1, <2>2 DEF Order
  <2>4. [kind |-> "Submit", id |-> id, order |-> o] \in Request
    BY <2>3 DEF Request
  <2> QED BY <2>2, <2>4 DEF Submit
<1>2. /\ q \in Seq(Request) /\ events' = events
      /\ router'.submitted = router.submitted \cup {id} /\ id \notin router.submitted
  BY <1>1 DEF RouterOK, Types, Bookkeeping, Submit, Due
<1> SUFFICES ASSUME NEW j \in OrderIds
             PROVE  AtMostOne(requests', events', router'.submitted, j)
  BY DEF OneInFlight
<1>3. AtMostOne(q, events, router.submitted, j)
  BY <1>1 DEF OneInFlight
<1>4. Count(Append(q, m), SubmitsOf(j)) = Count(q, SubmitsOf(j)) + (IF j = id THEN 1 ELSE 0)
  <2>1. m \in SubmitsOf(j) <=> j = id
    BY <1>1 DEF SubmitsOf
  <2> QED BY <2>1, <1>1, <1>2, CountAppend
<1> QED BY <1>1, <1>2, <1>3, <1>4 DEF AtMostOne, InFlight

(* A visit of a pass.                                                      *)
LEMMA DispatchKeepsFlight ==
    ASSUME RouterOK, OneInFlight, NEW id \in OrderIds, DispatchOne(id)
    PROVE  OneInFlight'
<1>1. RouterOK'
  BY DispatchOK
<1>2. CASE Submit(id)
  BY <1>2, SubmitKeepsFlight
<1>3. CASE ForwardCancel(id) \/ ForwardUpdate(id)
  BY <1>1, <1>3, ForwardKeepsFlight
<1>4. CASE PassOver(id) \/ Refuse(id) \/ ConvertToMarketOnOpen(id)
  <2>1. UNCHANGED <<requests, events>> /\ router'.submitted = router.submitted
    BY <1>4 DEF PassOver, Refuse, ConvertToMarketOnOpen, RouterOK, Types, Bookkeeping
  <2> QED BY <2>1, QueuesAlone
<1> QED BY <1>2, <1>3, <1>4 DEF DispatchOne

(* A submission leaves the queue of requests and its answer joins the other. *)
LEMMA AnswerKeepsFlight ==
    ASSUME RouterOK, OneInFlight, Serving("Submit"),
           NEW event \in Event, event.kind \in Answers, event.id = Head(requests).id,
           Answer(event), router' = router
    PROVE  OneInFlight'
<1>1. PICK q, e, id : q = requests /\ e = events /\ id = Head(requests).id
  OBVIOUS
<1>2. /\ q \in Seq(Request) /\ q # <<>> /\ e \in Seq(Event)
      /\ Head(q) \in Request /\ Head(q).kind = "Submit" /\ Head(q).id = id /\ event.id = id
      /\ requests' = Tail(q) /\ events' = Append(e, event)
  BY <1>1, HeadRequest DEF RouterOK, Types, Answer
<1> SUFFICES ASSUME NEW j \in OrderIds
             PROVE  AtMostOne(requests', events', router'.submitted, j)
  BY DEF OneInFlight
<1>3. AtMostOne(q, e, router.submitted, j)
  BY <1>1 DEF OneInFlight
<1>4. Count(Tail(q), SubmitsOf(j)) = Count(q, SubmitsOf(j)) - (IF j = id THEN 1 ELSE 0)
  <2>1. Head(q) \in SubmitsOf(j) <=> j = id
    BY <1>2 DEF SubmitsOf
  <2> QED BY <2>1, <1>2, CountTail
<1>5. Count(Append(e, event), AnswersOf(j)) = Count(e, AnswersOf(j)) + (IF j = id THEN 1 ELSE 0)
  <2>1. event \in AnswersOf(j) <=> j = id
    BY <1>2 DEF AnswersOf
  <2> QED BY <2>1, <1>2, CountAppend
<1>6. Count(Tail(q), SubmitsOf(j)) \in Nat
  BY <1>2, CountTail, CountType
<1> QED BY <1>2, <1>3, <1>4, <1>5, <1>6 DEF AtMostOne, InFlight

(* The worker serves a request.                                            *)
LEMMA HandleKeepsFlight ==
    ASSUME RouterOK, OneInFlight, HandleRequest
    PROVE  OneInFlight'
<1>1. router' = router
  BY HandleRequestOK
<1>2. CASE (\E w \in BrokerIds : Accept(w) \/ LoseAck(w)) \/ Reject \/ FailToSubmit
  <2>1. Serving("Submit")
    BY <1>2 DEF Accept, LoseAck, Reject, FailToSubmit
  <2>2. PICK id : id = Head(requests).id
    OBVIOUS
  <2>3. id \in OrderIds
    BY <2>1, <2>2, HeadRequest
  <2>4. PICK event \in Event : event.kind \in Answers /\ event.id = id /\ Answer(event)
    <3>1. ASSUME NEW w \in BrokerIds, Accept(w)
          PROVE  \E event \in Event : event.kind \in Answers /\ event.id = id /\ Answer(event)
      <4>1. PICK event : event = [kind |-> "Submitted", id |-> id, brokerageIds |-> {w}]
        OBVIOUS
      <4>2. event \in Event /\ event.kind \in Answers /\ event.id = id
        BY <4>1, <2>3 DEF Event, Answers
      <4> QED BY <4>1, <4>2, <3>1, <2>2 DEF Accept
    <3>2. ASSUME Reject
          PROVE  \E event \in Event : event.kind \in Answers /\ event.id = id /\ Answer(event)
      <4>1. PICK event : event = [kind |-> "Invalid", id |-> id]
        OBVIOUS
      <4>2. event \in Event /\ event.kind \in Answers /\ event.id = id
        BY <4>1, <2>3 DEF Event, Answers
      <4> QED BY <4>1, <4>2, <3>2, <2>2 DEF Reject
    <3>3. ASSUME FailToSubmit \/ \E w \in BrokerIds : LoseAck(w)
          PROVE  \E event \in Event : event.kind \in Answers /\ event.id = id /\ Answer(event)
      <4>1. PICK event : event = [kind |-> "SubmitFailed", id |-> id]
        OBVIOUS
      <4>2. event \in Event /\ event.kind \in Answers /\ event.id = id
        BY <4>1, <2>3 DEF Event, Answers
      <4> QED BY <4>1, <4>2, <3>3, <2>2 DEF FailToSubmit, LoseAck
    <3> QED BY <3>1, <3>2, <3>3, <1>2
  <2> QED BY <2>1, <2>2, <2>4, <1>1, AnswerKeepsFlight
<1>3. CASE ServeCancel \/ ServeUpdate
  <2> DEFINE q == requests
  <2>1. PICK kind \in {"Cancel", "Update"} :
            requests' = Tail(q) /\ events' = events /\ Serving(kind)
    BY <1>3 DEF ServeCancel, ServeUpdate
  <2>2. /\ q \in Seq(Request) /\ q # <<>> /\ Head(q) \in Request /\ Head(q).kind = kind
    BY <2>1, HeadRequest
  <2>3. ASSUME NEW j \in OrderIds
        PROVE  Count(Tail(q), SubmitsOf(j)) = Count(q, SubmitsOf(j))
    <3>1. Head(q) \notin SubmitsOf(j)
      BY <2>2 DEF SubmitsOf
    <3>2. Count(q, SubmitsOf(j)) \in Nat
      BY <2>2, CountType
    <3> QED BY <3>1, <3>2, <2>2, CountTail
  <2> QED BY <2>1, <2>3, <1>1 DEF OneInFlight, AtMostOne, InFlight
<1> QED BY <1>2, <1>3 DEF HandleRequest

(* A snapshot is no answer.                                                *)
LEMMA PollKeepsFlight ==
    ASSUME RouterOK, OneInFlight, NEW w \in BrokerIds, Poll(w)
    PROVE  OneInFlight'
<1>1. RouterOK' /\ requests' = requests /\ router' = router
  BY PollOK
<1>2. PICK e, event : /\ e = events /\ events' = Append(e, event) /\ event.kind = "Status"
  BY DEF Poll
<1>3. e \in Seq(Event) /\ Append(e, event) \in Seq(Event)
  BY <1>1, <1>2 DEF RouterOK, Types
<1>4. event \in Event
  <2>1. Append(e, event)[Len(e) + 1] = event /\ Len(e) + 1 \in DOMAIN Append(e, event)
    BY <1>3
  <2> QED BY <2>1, <1>3
<1>5. ASSUME NEW j \in OrderIds
      PROVE  Count(Append(e, event), AnswersOf(j)) = Count(e, AnswersOf(j))
  <2>1. event \notin AnswersOf(j)
    BY <1>2 DEF AnswersOf, Answers
  <2>2. Count(e, AnswersOf(j)) \in Nat
    BY <1>3, CountType
  <2> QED BY <2>1, <2>2, <1>3, <1>4, CountAppend
<1> QED BY <1>1, <1>2, <1>5 DEF OneInFlight, AtMostOne, InFlight

(* An event unmarks its order only if it is a failed submission.           *)
LEMMA UnmarkedByFailure ==
    ASSUME RouterOK, ApplyEvent, NEW event, event = Head(events)
    PROVE  \/ router'.submitted = router.submitted
           \/ router'.submitted = router.submitted \ {event.id} /\ event.kind = "SubmitFailed"
<1>1. router \in Bookkeeping
  BY DEF RouterOK, Types
<1>2. CASE ApplyStatus
  BY <1>2, ApplyStatusOK
<1>3. CASE ApplySubmitted \/ ApplyInvalid
  <2>1. router' = router \/ router' = Settled(event.id)
    BY <1>3 DEF ApplySubmitted, ApplyInvalid
  <2> QED BY <2>1, <1>1 DEF Settled, Bookkeeping
<1>4. CASE ApplySubmitFailed
  <2>1. event.kind = "SubmitFailed"
    BY <1>4 DEF ApplySubmitFailed, Applying
  <2>2. PICK id : id = event.id
    OBVIOUS
  <2>3. \/ router' = router
        \/ router' = [router EXCEPT !.submitted = NoLongerInFlight(id), !.waiting = @ \cup {id}]
        \/ router' = [Settled(id) EXCEPT !.submitted = NoLongerInFlight(id)]
    BY <1>4, <2>2 DEF ApplySubmitFailed
  <2> QED BY <2>1, <2>2, <2>3, <1>1 DEF Settled, Bookkeeping, NoLongerInFlight
<1> QED BY <1>2, <1>3, <1>4 DEF ApplyEvent

(* An event is taken: an order is unmarked only with the answer it had in   *)
(* flight.                                                                 *)
LEMMA EventKeepsFlight ==
    ASSUME RouterOK, OneInFlight, ApplyEvent
    PROVE  OneInFlight'
<1>1. PICK e, event, id : e = events /\ event = Head(e) /\ id = event.id
  OBVIOUS
<1>2. /\ e \in Seq(Event) /\ e # <<>> /\ event \in Event /\ events' = Tail(e)
      /\ requests' = requests
  <2>1. e \in Seq(Event) /\ e # <<>> /\ events' = Tail(e) /\ requests' = requests
    BY <1>1 DEF RouterOK, Types, Applying, ApplyEvent, ApplySubmitted, ApplyInvalid,
                ApplySubmitFailed, ApplyStatus
  <2> QED BY <2>1, <1>1, CountTail
<1>3. \/ router'.submitted = router.submitted
      \/ router'.submitted = router.submitted \ {id} /\ event.kind = "SubmitFailed"
  BY <1>1, UnmarkedByFailure
<1> SUFFICES ASSUME NEW j \in OrderIds
             PROVE  AtMostOne(requests', events', router'.submitted, j)
  BY DEF OneInFlight
<1>4. AtMostOne(requests, e, router.submitted, j)
  BY <1>1 DEF OneInFlight
<1>5. /\ Count(Tail(e), AnswersOf(j)) =
             Count(e, AnswersOf(j)) - (IF event \in AnswersOf(j) THEN 1 ELSE 0)
      /\ Count(Tail(e), AnswersOf(j)) \in Nat
  <2>1. /\ Tail(e) \in Seq(Event)
        /\ Count(Tail(e), AnswersOf(j)) =
               Count(e, AnswersOf(j)) - (IF Head(e) \in AnswersOf(j) THEN 1 ELSE 0)
    BY <1>2, CountTail
  <2>2. Count(Tail(e), AnswersOf(j)) \in Nat
    BY <2>1, CountType
  <2> QED BY <2>1, <2>2, <1>1
<1>6. event.kind = "SubmitFailed" /\ j = id => event \in AnswersOf(j)
  BY <1>1, <1>2 DEF AnswersOf, Answers
<1>7. CASE j \in router'.submitted <=> j \in router.submitted
  BY <1>2, <1>4, <1>5, <1>7 DEF AtMostOne, InFlight
<1>8. CASE j = id /\ event.kind = "SubmitFailed"
  <2>1. PICK r, c, d : /\ r = Count(requests, SubmitsOf(j)) /\ c = Count(e, AnswersOf(j))
                       /\ d = Count(Tail(e), AnswersOf(j))
    OBVIOUS
  <2>2. r \in Nat /\ c \in Nat /\ d \in Nat /\ r + c =< 1
    BY <2>1, <1>4, <1>5 DEF AtMostOne, InFlight
  <2>3. d = c - 1
    BY <2>1, <1>5, <1>6, <1>8
  <2>4. r + d =< 0
    BY <2>2, <2>3
  <2>5. Count(requests', SubmitsOf(j)) = r /\ Count(events', AnswersOf(j)) = d
    BY <2>1, <1>2
  <2>6. InFlight(requests', events', j) = r + d
    BY <2>5 DEF InFlight
  <2>7. r + d =< IF j \in router'.submitted THEN 1 ELSE 0
    BY <2>2, <2>4
  <2> QED BY <2>2, <2>5, <2>6, <2>7 DEF AtMostOne
<1> QED BY <1>3, <1>7, <1>8

(* A session starts with empty queues.                                     *)
LEMMA StartsWithNoneInFlight == Init => OneInFlight
<1> SUFFICES ASSUME Init, NEW id \in OrderIds
             PROVE  AtMostOne(requests, events, router.submitted, id)
  BY DEF OneInFlight
<1>1. requests = <<>> /\ events = <<>>
  BY DEF Init
<1>2. Count(requests, SubmitsOf(id)) = 0 /\ Count(events, AnswersOf(id)) = 0
  BY <1>1, CountEmpty
<1> QED BY <1>2 DEF AtMostOne, InFlight

(* Every step keeps it so.                                                 *)
LEMMA NextKeepsFlight ==
    ASSUME RouterOK, OneInFlight, [Next]_vars
    PROVE  OneInFlight'
<1>1. CASE \E id \in OrderIds : (\E item \in Menu[id] : Place(id, item)) \/ Cancel(id) \/ Update(id)
  BY <1>1, AlgorithmOK, QueuesAlone
<1>2. CASE \E id \in OrderIds : DispatchOne(id)
  BY <1>2, DispatchKeepsFlight
<1>3. CASE RingBell \/ (\E symbol \in Symbols : Quote(symbol)) \/ \E id \in OrderIds : RetryElapses(id)
  BY <1>3, ClockOK, QueuesAlone
<1>4. CASE BeginPass
  BY <1>4, BeginPassOK, QueuesAlone
<1>5. CASE HandleRequest
  BY <1>5, HandleKeepsFlight
<1>6. CASE ApplyEvent
  BY <1>6, EventKeepsFlight
<1>7. CASE \E w \in BrokerIds : Poll(w)
  BY <1>7, PollKeepsFlight
<1>8. CASE \E w \in BrokerIds :
              BrokerFills(w) \/ \E status \in {"Canceled", "Invalid"} : BrokerCloses(w, status)
  BY <1>8, BrokerageOK, QueuesAlone
<1>9. CASE UNCHANGED vars
  BY <1>9, QueuesAlone DEF vars
<1> QED BY <1>1, <1>2, <1>3, <1>4, <1>5, <1>6, <1>7, <1>8, <1>9 DEF Next

(* An order never has two submissions between the two threads, nor one that *)
(* is not marked: no pass, retry or answer in any order sends a second one. *)
THEOREM SubmissionsNeverOverlap == Spec => []OneSubmissionInFlight
<1>1. RouterOK /\ OneInFlight => OneSubmissionInFlight
  BY InFlightFits
<1>2. RouterOK /\ OneInFlight /\ [Next]_vars => RouterOK' /\ OneInFlight'
  BY NextOK, NextKeepsFlight
<1> QED BY <1>1, <1>2, StartsOK, StartsWithNoneInFlight, PTL DEF Spec

---------------------------------------------------------------------------
(* Placed once.  An order that the worker linked to one of the account      *)
(* stays marked as submitted, is on its way no more and is not refused.     *)
FailuresOf(id) == {m \in Event : m.kind \in {"Invalid", "SubmitFailed"} /\ m.id = id}

Taken(id) ==
    /\ id \in router.submitted
    /\ submits[id] > 0
    /\ Count(requests, SubmitsOf(id)) = 0
    /\ Count(events, FailuresOf(id)) = 0

Sent == \A id \in OrderIds : Count(requests, SubmitsOf(id)) > 0 => submits[id] > 0

(* What a step may do to the counts of an order: its submission joins the   *)
(* requests when it is new and was not marked, a failure joins the events   *)
(* when its submission leaves the requests.                                *)
QueueStep(id) ==
    \/ /\ Count(requests, SubmitsOf(id))' = Count(requests, SubmitsOf(id)) + 1
       /\ Count(events, FailuresOf(id))' = Count(events, FailuresOf(id))
       /\ IsNew(id) /\ id \notin router.submitted /\ submits'[id] > 0
    \/ /\ Count(requests, SubmitsOf(id))' =< Count(requests, SubmitsOf(id))
       /\ \/ Count(events, FailuresOf(id))' =< Count(events, FailuresOf(id))
          \/ Count(requests, SubmitsOf(id)) > 0
       /\ submits'[id] = submits[id]
       /\ id \in router.submitted =>
             id \in router'.submitted \/ Count(events, FailuresOf(id)) > 0

(* The counts are numbers.                                                 *)
LEMMA CountsType ==
    ASSUME RouterOK, NEW id
    PROVE  Count(requests, SubmitsOf(id)) \in Nat /\ Count(events, FailuresOf(id)) \in Nat
BY CountType DEF RouterOK, Types

(* Nothing sent or taken.                                                  *)
LEMMA QueueStepAlone ==
    ASSUME RouterOK, UNCHANGED <<requests, events, submits>>, router'.submitted = router.submitted,
           NEW id \in OrderIds
    PROVE  QueueStep(id)
<1>1. Count(requests, SubmitsOf(id)) \in Nat /\ Count(events, FailuresOf(id)) \in Nat
  BY CountsType
<1>2. /\ Count(requests, SubmitsOf(id))' = Count(requests, SubmitsOf(id))
      /\ Count(events, FailuresOf(id))' = Count(events, FailuresOf(id))
  OBVIOUS
<1> QED BY <1>1, <1>2 DEF QueueStep

(* A visit of a pass.                                                      *)
LEMMA DispatchQueueStep ==
    ASSUME RouterOK, NEW i \in OrderIds, DispatchOne(i), NEW id \in OrderIds
    PROVE  QueueStep(id)
<1>1. /\ requests \in Seq(Request) /\ router \in Bookkeeping /\ submits \in [OrderIds -> Nat]
      /\ Count(requests, SubmitsOf(id)) \in Nat /\ Count(events, FailuresOf(id)) \in Nat
  BY CountsType DEF RouterOK, Types
<1>2. tm.orders[i] \in Order /\ [tm.orders[i] EXCEPT !.marketOnOpen = FALSE] \in Order
  <2>1. Visit(i)
    BY DEF DispatchOne, PassOver, Refuse, ConvertToMarketOnOpen, Submit, ForwardCancel, ForwardUpdate
  <2>2. tm.orders[i] \in Order
    BY <2>1, StoreFields DEF Visit, RouterOK
  <2> QED BY <2>2 DEF Order
<1>3. CASE Submit(i)
  <2>1. PICK m : m = [kind |-> "Submit", id |-> i,
                      order |-> [tm.orders[i] EXCEPT !.marketOnOpen = FALSE]]
    OBVIOUS
  <2>2. m \in Request /\ (m \in SubmitsOf(id) <=> id = i)
    BY <2>1, <1>2 DEF Request, SubmitsOf
  <2>3. /\ requests' = Append(requests, m) /\ events' = events
        /\ IsNew(i) /\ i \notin router.submitted
        /\ router'.submitted = router.submitted \cup {i}
        /\ submits' = [submits EXCEPT ![i] = @ + 1]
    BY <2>1, <1>1, <1>3 DEF Submit, Visit, Due, Bookkeeping, IsNew, Known, RouterOK
  <2>4. Count(requests', SubmitsOf(id)) =
            Count(requests, SubmitsOf(id)) + (IF id = i THEN 1 ELSE 0)
    BY <2>2, <2>3, <1>1, CountAppend
  <2>5. /\ Count(requests, SubmitsOf(id))' = Count(requests', SubmitsOf(id))
        /\ Count(events, FailuresOf(id))' = Count(events, FailuresOf(id))
    BY <2>3
  <2>6. CASE id = i
    BY <2>3, <2>4, <2>5, <2>6, <1>1 DEF QueueStep
  <2>7. CASE id # i
    BY <2>3, <2>4, <2>5, <2>7, <1>1 DEF QueueStep
  <2> QED BY <2>6, <2>7
<1>4. CASE ForwardCancel(i) \/ ForwardUpdate(i)
  <2>1. PICK m \in Request : m.kind # "Submit" /\ requests' = Append(requests, m)
    BY <1>2, <1>4 DEF Request, ForwardCancel, ForwardUpdate
  <2>2. m \notin SubmitsOf(id)
    BY <2>1 DEF SubmitsOf
  <2>3. Count(requests', SubmitsOf(id)) = Count(requests, SubmitsOf(id))
    BY <2>1, <2>2, <1>1, CountAppend
  <2>4. /\ Count(requests, SubmitsOf(id))' = Count(requests', SubmitsOf(id))
        /\ Count(events, FailuresOf(id))' = Count(events, FailuresOf(id))
    BY <1>4 DEF ForwardCancel, ForwardUpdate
  <2>5. submits' = submits /\ router'.submitted = router.submitted
    BY <1>1, <1>4 DEF ForwardCancel, ForwardUpdate, Bookkeeping
  <2> QED BY <2>3, <2>4, <2>5, <1>1 DEF QueueStep
<1>5. CASE PassOver(i) \/ Refuse(i) \/ ConvertToMarketOnOpen(i)
  <2>1. UNCHANGED <<requests, events, submits>> /\ router'.submitted = router.submitted
    BY <1>1, <1>5 DEF PassOver, Refuse, ConvertToMarketOnOpen, Bookkeeping
  <2> QED BY <2>1, QueueStepAlone
<1> QED BY <1>3, <1>4, <1>5 DEF DispatchOne

(* The worker serves a request: a failure is of the order it served.       *)
LEMMA HandleQueueStep ==
    ASSUME RouterOK, HandleRequest, NEW id \in OrderIds
    PROVE  QueueStep(id)
<1>1. /\ requests \in Seq(Request) /\ events \in Seq(Event)
      /\ Count(requests, SubmitsOf(id)) \in Nat /\ Count(events, FailuresOf(id)) \in Nat
  BY CountsType DEF RouterOK, Types
<1>2. router' = router /\ submits' = submits /\ requests # <<>> /\ requests' = Tail(requests)
  BY DEF HandleRequest, Accept, LoseAck, Reject, FailToSubmit, ServeCancel, ServeUpdate, Answer, Serving
<1>3. PICK m : m = Head(requests)
  OBVIOUS
<1>4. /\ Count(Tail(requests), SubmitsOf(id)) =
             Count(requests, SubmitsOf(id)) - (IF m \in SubmitsOf(id) THEN 1 ELSE 0)
      /\ Count(Tail(requests), SubmitsOf(id)) \in Nat
  <2>1. PICK q : q = requests
    OBVIOUS
  <2>2. /\ q \in Seq(Request) /\ Tail(q) \in Seq(Request)
        /\ Count(Tail(q), SubmitsOf(id)) =
               Count(q, SubmitsOf(id)) - (IF Head(q) \in SubmitsOf(id) THEN 1 ELSE 0)
    BY <2>1, <1>1, <1>2, CountTail
  <2>3. Count(Tail(q), SubmitsOf(id)) \in Nat
    BY <2>2, CountType
  <2> QED BY <2>1, <2>2, <2>3, <1>3
<1>5. \/ events' = events
      \/ \E event \in Event :
            /\ events' = Append(events, event)
            /\ event \in FailuresOf(id) => m \in SubmitsOf(id)
  <2>1. CASE (\E w \in BrokerIds : Accept(w) \/ LoseAck(w)) \/ Reject \/ FailToSubmit
    <3>1. m \in Request /\ m.kind = "Submit" /\ m.id \in OrderIds
      <4>1. Serving("Submit")
        BY <2>1 DEF Accept, LoseAck, Reject, FailToSubmit
      <4> QED BY <4>1, <1>3, HeadRequest
    <3>2. ASSUME NEW event \in Event, event.id = m.id, Answer(event)
          PROVE  \E e \in Event : /\ events' = Append(events, e)
                                  /\ e \in FailuresOf(id) => m \in SubmitsOf(id)
      BY <3>1, <3>2 DEF Answer, FailuresOf, SubmitsOf
    <3>3. /\ \A w \in BrokerIds :
                [kind |-> "Submitted", id |-> m.id, brokerageIds |-> {w}] \in Event
          /\ [kind |-> "Invalid", id |-> m.id] \in Event
          /\ [kind |-> "SubmitFailed", id |-> m.id] \in Event
      BY <3>1 DEF Event
    <3>4. \/ \E w \in BrokerIds :
                Answer([kind |-> "Submitted", id |-> m.id, brokerageIds |-> {w}])
          \/ Answer([kind |-> "Invalid", id |-> m.id])
          \/ Answer([kind |-> "SubmitFailed", id |-> m.id])
      BY <2>1, <1>3 DEF Accept, LoseAck, Reject, FailToSubmit
    <3> QED BY <3>2, <3>3, <3>4
  <2>2. CASE ServeCancel \/ ServeUpdate
    BY <2>2 DEF ServeCancel, ServeUpdate
  <2> QED BY <2>1, <2>2 DEF HandleRequest
<1>6. m \in SubmitsOf(id) => Count(requests, SubmitsOf(id)) > 0
  <2>1. m \in SubmitsOf(id) => Count(requests, SubmitsOf(id)) - 1 \in Nat
    BY <1>4
  <2> QED BY <2>1, <1>1
<1>7. \/ Count(events', FailuresOf(id)) =< Count(events, FailuresOf(id))
      \/ Count(requests, SubmitsOf(id)) > 0
  <2>1. CASE events' = events
    BY <2>1, <1>1
  <2>2. ASSUME NEW event \in Event, events' = Append(events, event),
               event \in FailuresOf(id) => m \in SubmitsOf(id)
        PROVE  \/ Count(events', FailuresOf(id)) =< Count(events, FailuresOf(id))
               \/ Count(requests, SubmitsOf(id)) > 0
    <3>1. event \notin FailuresOf(id) =>
              Count(events', FailuresOf(id)) = Count(events, FailuresOf(id))
      BY <2>2, <1>1, CountAppend
    <3> QED BY <3>1, <2>2, <1>1, <1>6
  <2> QED BY <2>1, <2>2, <1>5
<1>8. /\ Count(requests, SubmitsOf(id))' = Count(Tail(requests), SubmitsOf(id))
      /\ Count(events, FailuresOf(id))' = Count(events', FailuresOf(id))
  BY <1>2
<1>9. Count(requests, SubmitsOf(id))' =< Count(requests, SubmitsOf(id))
  BY <1>1, <1>4, <1>8
<1> QED BY <1>2, <1>7, <1>8, <1>9 DEF QueueStep

(* A snapshot is no failure.                                               *)
LEMMA PollQueueStep ==
    ASSUME RouterOK, NEW w \in BrokerIds, Poll(w), NEW id \in OrderIds
    PROVE  QueueStep(id)
<1>1. /\ events \in Seq(Event) /\ events' \in Seq(Event)
      /\ Count(requests, SubmitsOf(id)) \in Nat /\ Count(events, FailuresOf(id)) \in Nat
  BY PollOK, CountsType DEF RouterOK, Types
<1>2. UNCHANGED <<requests, router, submits>>
  BY DEF Poll
<1>3. PICK event : event.kind = "Status" /\ events' = Append(events, event)
  BY DEF Poll
<1>4. event \in Event
  <2>1. /\ Append(events, event)[Len(events) + 1] = event
        /\ Len(events) + 1 \in DOMAIN Append(events, event)
    BY <1>1
  <2> QED BY <2>1, <1>1, <1>3
<1>5. event \notin FailuresOf(id)
  BY <1>3 DEF FailuresOf
<1>6. Count(events', FailuresOf(id)) = Count(events, FailuresOf(id))
  BY <1>1, <1>3, <1>4, <1>5, CountAppend
<1>7. /\ Count(events, FailuresOf(id))' = Count(events', FailuresOf(id))
      /\ Count(requests, SubmitsOf(id))' = Count(requests, SubmitsOf(id))
  BY <1>2
<1> QED BY <1>1, <1>2, <1>6, <1>7 DEF QueueStep

(* An event is taken.                                                      *)
LEMMA EventQueueStep ==
    ASSUME RouterOK, ApplyEvent, NEW id \in OrderIds
    PROVE  QueueStep(id)
<1>1. /\ events \in Seq(Event) /\ events # <<>> /\ events' = Tail(events)
      /\ requests' = requests /\ submits' = submits
      /\ Count(requests, SubmitsOf(id)) \in Nat /\ Count(events, FailuresOf(id)) \in Nat
  BY CountsType DEF RouterOK, Types, Applying, ApplyEvent, ApplySubmitted, ApplyInvalid,
                    ApplySubmitFailed, ApplyStatus
<1>2. PICK event : event = Head(events)
  OBVIOUS
<1>3. /\ event \in Event
      /\ Count(Tail(events), FailuresOf(id)) =
             Count(events, FailuresOf(id)) - (IF event \in FailuresOf(id) THEN 1 ELSE 0)
      /\ Count(Tail(events), FailuresOf(id)) \in Nat
  <2>1. PICK e : e = events
    OBVIOUS
  <2>2. /\ e \in Seq(Event) /\ Tail(e) \in Seq(Event) /\ Head(e) \in Event
        /\ Count(Tail(e), FailuresOf(id)) =
               Count(e, FailuresOf(id)) - (IF Head(e) \in FailuresOf(id) THEN 1 ELSE 0)
    BY <2>1, <1>1, CountTail
  <2>3. Count(Tail(e), FailuresOf(id)) \in Nat
    BY <2>2, CountType
  <2> QED BY <2>1, <2>2, <2>3, <1>2
<1>4. id \in router.submitted => id \in router'.submitted \/ event \in FailuresOf(id)
  <2>1. \/ router'.submitted = router.submitted
        \/ router'.submitted = router.submitted \ {event.id} /\ event.kind = "SubmitFailed"
    BY <1>2, UnmarkedByFailure
  <2> QED BY <2>1, <1>3 DEF FailuresOf
<1>5. event \in FailuresOf(id) => Count(events, FailuresOf(id)) > 0
  <2>1. event \in FailuresOf(id) => Count(events, FailuresOf(id)) - 1 \in Nat
    BY <1>3
  <2> QED BY <2>1, <1>1
<1>6. /\ Count(events, FailuresOf(id))' = Count(Tail(events), FailuresOf(id))
      /\ Count(requests, SubmitsOf(id))' = Count(requests, SubmitsOf(id))
  BY <1>1
<1>7. Count(events, FailuresOf(id))' =< Count(events, FailuresOf(id))
  BY <1>1, <1>3, <1>6
<1> QED BY <1>1, <1>4, <1>5, <1>6, <1>7 DEF QueueStep

(* Every step is such a step for every order.                              *)
LEMMA NextQueueStep ==
    ASSUME RouterOK, [Next]_vars, NEW id \in OrderIds
    PROVE  QueueStep(id)
<1>1. CASE \E i \in OrderIds : (\E item \in Menu[i] : Place(i, item)) \/ Cancel(i) \/ Update(i)
  <2>1. UNCHANGED <<router, requests, events, submits>>
    BY <1>1 DEF Place, Cancel, Update
  <2> QED BY <2>1, QueueStepAlone
<1>2. CASE \E i \in OrderIds : DispatchOne(i)
  BY <1>2, DispatchQueueStep
<1>3. CASE RingBell \/ (\E symbol \in Symbols : Quote(symbol)) \/ \E i \in OrderIds : RetryElapses(i)
  <2>1. UNCHANGED submits
    BY <1>3 DEF RingBell, Quote, RetryElapses
  <2> QED BY <2>1, <1>3, ClockOK, QueueStepAlone
<1>4. CASE BeginPass
  BY <1>4, QueueStepAlone DEF BeginPass
<1>5. CASE HandleRequest
  BY <1>5, HandleQueueStep
<1>6. CASE ApplyEvent
  BY <1>6, EventQueueStep
<1>7. CASE \E w \in BrokerIds : Poll(w)
  BY <1>7, PollQueueStep
<1>8. CASE \E w \in BrokerIds :
              BrokerFills(w) \/ \E status \in {"Canceled", "Invalid"} : BrokerCloses(w, status)
  BY <1>8, QueueStepAlone DEF BrokerFills, BrokerCloses
<1>9. CASE UNCHANGED vars
  BY <1>9, QueueStepAlone DEF vars
<1> QED BY <1>1, <1>2, <1>3, <1>4, <1>5, <1>6, <1>7, <1>8, <1>9 DEF Next

(* What the worker linked to engine orders: the account took it from the    *)
(* engine, under an engine id that is Taken, and no two under the same.     *)
Linked(w) == w \in DOMAIN worker.engineOf
Engine(w) == w \in DOMAIN broker \ DOMAIN AccountOrders

Once ==
    /\ Sent
    /\ DOMAIN AccountOrders \subseteq DOMAIN broker
    /\ \A w \in BrokerIds : Linked(w) => Engine(w) /\ Taken(worker.engineOf[w])
    /\ \A v, w \in BrokerIds :
          Linked(v) /\ Linked(w) /\ worker.engineOf[v] = worker.engineOf[w] => v = w

(* While no answer is lost, that is all the account took.                  *)
AllLinked == \A w \in BrokerIds : Engine(w) => Linked(w)

(* An order taken stays so.                                                *)
LEMMA TakenStays ==
    ASSUME RouterOK, RouterOK', NEW id \in OrderIds, QueueStep(id), Taken(id)
    PROVE  Taken(id)'
<1>1. PICK r, r1, f, f1 : /\ r = Count(requests, SubmitsOf(id)) /\ f = Count(events, FailuresOf(id))
                          /\ r1 = Count(requests, SubmitsOf(id))'
                          /\ f1 = Count(events, FailuresOf(id))'
  OBVIOUS
<1>2. r \in Nat /\ f \in Nat /\ r1 \in Nat /\ f1 \in Nat
  <2>1. r \in Nat /\ f \in Nat
    BY <1>1, CountsType
  <2>2. requests' \in Seq(Request) /\ events' \in Seq(Event)
    BY DEF RouterOK, Types
  <2>3. Count(requests', SubmitsOf(id)) \in Nat /\ Count(events', FailuresOf(id)) \in Nat
    BY <2>2, CountType
  <2>4. r1 = Count(requests', SubmitsOf(id)) /\ f1 = Count(events', FailuresOf(id))
    BY <1>1
  <2> QED BY <2>1, <2>3, <2>4
<1>3. r = 0 /\ f = 0 /\ id \in router.submitted /\ submits[id] > 0
  BY <1>1 DEF Taken
<1>4. /\ r1 =< r /\ (f1 =< f \/ r > 0) /\ submits'[id] = submits[id]
      /\ id \in router'.submitted \/ f > 0
  BY <1>1, <1>3 DEF QueueStep
<1>5. r1 = 0 /\ f1 = 0 /\ id \in router'.submitted /\ submits'[id] > 0
  BY <1>2, <1>3, <1>4
<1> QED BY <1>1, <1>5 DEF Taken

(* An order on its way was sent.                                           *)
LEMMA SentStays ==
    ASSUME RouterOK, RouterOK', \A id \in OrderIds : QueueStep(id), Sent
    PROVE  Sent'
<1> SUFFICES ASSUME NEW id \in OrderIds, Count(requests, SubmitsOf(id))' > 0
             PROVE  submits'[id] > 0
  BY DEF Sent
<1>1. PICK r, r1 : r = Count(requests, SubmitsOf(id)) /\ r1 = Count(requests, SubmitsOf(id))'
  OBVIOUS
<1>2. r \in Nat /\ r1 \in Nat
  <2>1. r \in Nat
    BY <1>1, CountsType
  <2>2. requests' \in Seq(Request)
    BY DEF RouterOK, Types
  <2>3. Count(requests', SubmitsOf(id)) \in Nat
    BY <2>2, CountType
  <2>4. r1 = Count(requests', SubmitsOf(id))
    BY <1>1
  <2> QED BY <2>1, <2>3, <2>4
<1>3. \/ submits'[id] > 0
      \/ r1 =< r /\ submits'[id] = submits[id]
  BY <1>1 DEF QueueStep
<1>4. r > 0 => submits[id] > 0
  BY <1>1 DEF Sent
<1> QED BY <1>1, <1>2, <1>3, <1>4

(* The submission being accepted was on its way, so it was the only one,    *)
(* and no failure of its order is.                                         *)
LEMMA AcceptTakes ==
    ASSUME RouterOK, OneInFlight, Sent, NEW w \in BrokerIds, Accept(w)
    PROVE  \E id \in OrderIds : id = Head(requests).id /\ ~Taken(id) /\ Taken(id)'
<1>1. PICK q, e, m, id : q = requests /\ e = events /\ m = Head(q) /\ id = m.id
  OBVIOUS
<1>2. /\ q \in Seq(Request) /\ e \in Seq(Event) /\ q # <<>>
      /\ m \in Request /\ m.kind = "Submit" /\ id \in OrderIds
  <2>1. Serving("Submit")
    BY DEF Accept
  <2>2. q \in Seq(Request) /\ e \in Seq(Event) /\ q # <<>>
    BY <2>1, <1>1 DEF RouterOK, Types, Serving
  <2> QED BY <2>1, <2>2, <1>1, HeadRequest
<1>3. m \in SubmitsOf(id)
  BY <1>1, <1>2 DEF SubmitsOf
<1>4. PICK event : event = [kind |-> "Submitted", id |-> id, brokerageIds |-> {w}]
  OBVIOUS
<1>5. event \in Event /\ event \notin FailuresOf(id)
  BY <1>2, <1>4 DEF Event, FailuresOf
<1>6. /\ requests' = Tail(q) /\ events' = Append(e, event)
      /\ router' = router /\ submits' = submits
  BY <1>1, <1>4 DEF Accept, Answer
<1>7. PICK r, r1, a, f, f1 :
         /\ r = Count(q, SubmitsOf(id)) /\ r1 = Count(Tail(q), SubmitsOf(id))
         /\ a = Count(e, AnswersOf(id)) /\ f = Count(e, FailuresOf(id))
         /\ f1 = Count(Append(e, event), FailuresOf(id))
  OBVIOUS
<1>8. r \in Nat /\ r1 \in Nat /\ a \in Nat /\ f \in Nat /\ r1 = r - 1
  <2>1. /\ Tail(q) \in Seq(Request)
        /\ Count(Tail(q), SubmitsOf(id)) = Count(q, SubmitsOf(id)) - 1
    BY <1>1, <1>2, <1>3, CountTail
  <2>2. /\ Count(q, SubmitsOf(id)) \in Nat /\ Count(Tail(q), SubmitsOf(id)) \in Nat
        /\ Count(e, AnswersOf(id)) \in Nat /\ Count(e, FailuresOf(id)) \in Nat
    BY <2>1, <1>2, CountType
  <2> QED BY <2>1, <2>2, <1>7
<1>9. r + a =< 1 /\ (r + a > 0 => id \in router.submitted)
  <2>1. r + a =< IF id \in router.submitted THEN 1 ELSE 0
    BY <1>1, <1>2, <1>7 DEF OneInFlight, AtMostOne, InFlight
  <2> QED BY <2>1, <1>8
<1>10. f =< a
  <2>1. Where(e, FailuresOf(id)) \subseteq Where(e, AnswersOf(id))
    BY DEF Where, FailuresOf, AnswersOf, Answers
  <2>2. IsFiniteSet(Where(e, AnswersOf(id)))
    BY <1>2, CountType
  <2> QED BY <2>1, <2>2, <1>7, FS_Subset DEF Count
<1>11. f1 = f
  BY <1>2, <1>5, <1>7, <1>8, CountAppend
<1>12. r = 1 /\ r1 = 0 /\ f1 = 0 /\ id \in router.submitted
  BY <1>8, <1>9, <1>10, <1>11
<1>13. submits[id] > 0
  BY <1>1, <1>2, <1>7, <1>12 DEF Sent
<1>14. ~Taken(id)
  BY <1>1, <1>7, <1>12 DEF Taken
<1>15. /\ Count(requests, SubmitsOf(id))' = r1
       /\ Count(events, FailuresOf(id))' = f1
  BY <1>6, <1>7
<1>16. Taken(id)'
  BY <1>6, <1>12, <1>13, <1>15 DEF Taken
<1> QED BY <1>1, <1>2, <1>14, <1>16

(* Only an acceptance, or one whose answer is lost, adds to the account, and *)
(* only the first links.                                                   *)
LEMMA AccountStep ==
    ASSUME RouterOK, [Next]_vars
    PROVE  \/ /\ DOMAIN broker \subseteq DOMAIN broker' /\ worker'.engineOf = worker.engineOf
              /\ ~LostAcks => DOMAIN broker' = DOMAIN broker
           \/ \E w \in BrokerIds : Accept(w)
<1>1. CASE UNCHANGED <<broker, worker>>
  BY <1>1
<1>2. CASE \E w \in BrokerIds : Poll(w)
  <2>1. PICK w \in BrokerIds : Poll(w)
    BY <1>2
  <2>2. UNCHANGED broker
    BY <2>1 DEF Poll
  <2>3. worker \in [engineOf : [DOMAIN worker.engineOf -> OrderIds],
                     tracked  : [OrderIds -> [status : BrokerStatus \cup {"Unseen"}, filled : Int]]]
    BY DEF RouterOK, Types, Maps
  <2>4. worker'.engineOf = worker.engineOf
    BY <2>1, <2>3 DEF Poll
  <2> QED BY <2>2, <2>4
<1>3. CASE ServeCancel
  BY <1>3 DEF ServeCancel
<1>4. CASE \E w \in BrokerIds :
              BrokerFills(w) \/ \E status \in {"Canceled", "Invalid"} : BrokerCloses(w, status)
  BY <1>4 DEF BrokerFills, BrokerCloses
<1>5. CASE \E w \in BrokerIds : LoseAck(w)
  BY <1>5 DEF LoseAck, With
<1> QED
  BY <1>1, <1>2, <1>3, <1>4, <1>5
  DEF Next, vars, HandleRequest, Reject, FailToSubmit, ServeUpdate, Place, Cancel, Update,
      BeginPass, RingBell, Quote, RetryElapses, DispatchOne, PassOver, Refuse,
      ConvertToMarketOnOpen, Submit, ForwardCancel, ForwardUpdate, ApplyEvent, ApplySubmitted,
      ApplyInvalid, ApplySubmitFailed, ApplyStatus

(* An acceptance links the order of its submission.                        *)
LEMMA AcceptLinks ==
    ASSUME RouterOK, NEW w \in BrokerIds, Accept(w), NEW new, new = Head(requests).id
    PROVE  /\ w \notin DOMAIN broker /\ DOMAIN broker' = DOMAIN broker \cup {w}
           /\ ~Linked(w) /\ DOMAIN worker'.engineOf = DOMAIN worker.engineOf \cup {w}
           /\ worker'.engineOf[w] = new
           /\ \A v \in DOMAIN worker.engineOf : worker'.engineOf[v] = worker.engineOf[v]
           /\ worker'.tracked = worker.tracked
<1>1. PICK f, f1 : f = worker.engineOf /\ f1 = worker'.engineOf
  OBVIOUS
<1>2. f \in [DOMAIN f -> OrderIds] /\ DOMAIN f \subseteq DOMAIN broker /\ w \notin DOMAIN broker
  BY <1>1 DEF RouterOK, Types, Accept
<1>3. f1 = With(f, w, new) /\ worker'.tracked = worker.tracked
  <2>1. worker \in [engineOf : [DOMAIN worker.engineOf -> OrderIds],
                     tracked  : [OrderIds -> [status : BrokerStatus \cup {"Unseen"}, filled : Int]]]
    BY DEF RouterOK, Types
  <2>2. worker' = [worker EXCEPT !.engineOf = With(@, w, new)]
    BY DEF Accept
  <2> QED BY <2>1, <2>2, <1>1
<1>4. /\ DOMAIN f1 = DOMAIN f \cup {w} /\ f1[w] = new
      /\ \A v \in DOMAIN f : f1[v] = f[v]
  BY <1>2, <1>3 DEF With
<1>5. DOMAIN broker' = DOMAIN broker \cup {w}
  BY DEF Accept, With
<1> QED BY <1>1, <1>2, <1>3, <1>4, <1>5 DEF Linked

(* Once is kept when the worker links nothing...                           *)
LEMMA AccountAloneKeepsOnce ==
    ASSUME RouterOK, RouterOK', \A id \in OrderIds : QueueStep(id), Once,
           DOMAIN broker \subseteq DOMAIN broker', worker'.engineOf = worker.engineOf
    PROVE  Once'
<1>1. Sent'
  BY SentStays DEF Once
<1>2. ASSUME NEW w \in BrokerIds, Linked(w)'
      PROVE  Engine(w)' /\ Taken(worker.engineOf[w])'
  <2>1. PICK id : id = worker.engineOf[w]
    OBVIOUS
  <2>2. Linked(w) /\ Engine(w) /\ Taken(id)
    BY <1>2, <2>1 DEF Linked, Once
  <2>3. id \in OrderIds
    BY <2>1, <2>2 DEF RouterOK, Types, Linked
  <2>4. Taken(id)'
    BY <2>2, <2>3, TakenStays
  <2>5. id = worker.engineOf[w]'
    BY <2>1
  <2> QED BY <2>2, <2>4, <2>5 DEF Engine
<1>3. ASSUME NEW v \in BrokerIds, NEW w \in BrokerIds, Linked(v)', Linked(w)',
             worker'.engineOf[v] = worker'.engineOf[w]
      PROVE  v = w
  BY <1>3 DEF Linked, Once
<1>4. DOMAIN AccountOrders \subseteq DOMAIN broker'
  BY DEF Once
<1> QED BY <1>1, <1>2, <1>3, <1>4 DEF Once

(* ... and when it links what the account accepted.                        *)
LEMMA AcceptKeepsOnce ==
    ASSUME RouterOK, RouterOK', OneInFlight, \A id \in OrderIds : QueueStep(id), Once,
           NEW w \in BrokerIds, Accept(w)
    PROVE  Once'
<1>1. Sent'
  BY SentStays DEF Once
<1>2. PICK new \in OrderIds : new = Head(requests).id /\ ~Taken(new) /\ Taken(new)'
  BY AcceptTakes DEF Once
<1>3. PICK f, f1 : f = worker.engineOf /\ f1 = worker'.engineOf
  OBVIOUS
<1>4. /\ w \notin DOMAIN broker /\ DOMAIN broker' = DOMAIN broker \cup {w}
      /\ DOMAIN f1 = DOMAIN f \cup {w} /\ f1[w] = new
      /\ \A v \in DOMAIN f : f1[v] = f[v]
  BY <1>2, <1>3, AcceptLinks
<1>5. w \notin DOMAIN AccountOrders
  BY <1>4 DEF Once
<1>6. ASSUME NEW v \in BrokerIds, Linked(v)', v # w
      PROVE  Engine(v) /\ v \in DOMAIN f /\ f1[v] = f[v] /\ Taken(f[v]) /\ f[v] \in OrderIds
  <2>1. v \in DOMAIN f
    BY <1>3, <1>4, <1>6 DEF Linked
  <2>2. Engine(v) /\ Taken(f[v]) /\ f[v] \in OrderIds
    BY <2>1, <1>3 DEF Once, Linked, RouterOK, Types
  <2> QED BY <2>1, <2>2, <1>4
<1>7. ASSUME NEW v \in BrokerIds, Linked(v)'
      PROVE  Engine(v)' /\ \E id \in OrderIds : id = f1[v] /\ Taken(id)'
  <2>1. CASE v = w
    BY <2>1, <1>2, <1>4, <1>5 DEF Engine
  <2>2. CASE v # w
    <3>1. PICK id : id = f[v]
      OBVIOUS
    <3>2. id \in OrderIds /\ Taken(id) /\ Engine(v) /\ f1[v] = id
      BY <3>1, <2>2, <1>6, <1>7
    <3>3. Taken(id)'
      BY <3>2, TakenStays
    <3> QED BY <3>2, <3>3, <1>4 DEF Engine
  <2> QED BY <2>1, <2>2
<1>8. ASSUME NEW v \in BrokerIds, Linked(v)'
       PROVE  Engine(v)' /\ Taken(worker.engineOf[v])'
  <2>1. PICK id \in OrderIds : id = f1[v] /\ Taken(id)'
    BY <1>7, <1>8
  <2>2. id = worker.engineOf[v]'
    BY <2>1, <1>3
  <2> QED BY <2>1, <2>2, <1>7, <1>8
<1>9. ASSUME NEW u \in BrokerIds, NEW v \in BrokerIds, Linked(u)', Linked(v)', f1[u] = f1[v]
       PROVE  u = v
  <2>1. CASE u # w /\ v # w
    <3>1. Linked(u) /\ Linked(v) /\ f[u] = f[v]
      BY <2>1, <1>3, <1>6, <1>9 DEF Linked
    <3> QED BY <3>1, <1>3 DEF Once
  <2>2. ASSUME NEW x \in BrokerIds, Linked(x)', x # w, f1[x] = f1[w]
        PROVE  FALSE
    <3>1. f[x] = new /\ Taken(f[x])
      BY <2>2, <1>4, <1>6
    <3> QED BY <3>1, <1>2
  <2> QED BY <2>1, <2>2, <1>9
<1>10. DOMAIN AccountOrders \subseteq DOMAIN broker'
  BY <1>4 DEF Once
<1> QED BY <1>1, <1>3, <1>8, <1>9, <1>10 DEF Once

(* Every step keeps it.                                                    *)
LEMMA NextKeepsOnce ==
    ASSUME RouterOK, RouterOK', OneInFlight, Once, [Next]_vars
    PROVE  Once'
<1>1. \A id \in OrderIds : QueueStep(id)
  BY NextQueueStep
<1>2. CASE DOMAIN broker \subseteq DOMAIN broker' /\ worker'.engineOf = worker.engineOf
  BY <1>1, <1>2, AccountAloneKeepsOnce
<1>3. CASE \E w \in BrokerIds : Accept(w)
  BY <1>1, <1>3, AcceptKeepsOnce
<1> QED BY <1>2, <1>3, AccountStep

(* Without lost answers, every step keeps the account linked.              *)
LEMMA NextKeepsLinked ==
    ASSUME ~LostAcks, RouterOK, AllLinked, [Next]_vars
    PROVE  AllLinked'
<1>1. CASE DOMAIN broker' = DOMAIN broker /\ worker'.engineOf = worker.engineOf
  BY <1>1 DEF AllLinked, Engine, Linked
<1>2. CASE \E w \in BrokerIds : Accept(w)
  <2>1. PICK w \in BrokerIds : Accept(w)
    BY <1>2
  <2>2. PICK new : new = Head(requests).id
    OBVIOUS
  <2>3. /\ DOMAIN broker' = DOMAIN broker \cup {w}
        /\ DOMAIN worker'.engineOf = DOMAIN worker.engineOf \cup {w}
    BY <2>1, <2>2, AcceptLinks
  <2> QED BY <2>3 DEF AllLinked, Engine, Linked
<1> QED BY <1>1, <1>2, AccountStep

(* A session starts with nothing sent or linked.                           *)
LEMMA StartsOnce == Init => Once /\ AllLinked
<1> SUFFICES ASSUME Init PROVE Once /\ AllLinked
  OBVIOUS
<1>1. \A id \in OrderIds : Count(requests, SubmitsOf(id)) = 0
  BY CountEmpty DEF Init
<1>2. \A w \in BrokerIds : ~Engine(w) /\ ~Linked(w)
  BY DEF Init, Engine, Linked
<1>3. DOMAIN AccountOrders \subseteq DOMAIN broker
  BY DEF Init
<1> QED BY <1>1, <1>2, <1>3 DEF Once, AllLinked, Sent

(* Engine orders of the account are no more than the orders sent.          *)
LEMMA OnceFits ==
    ASSUME RouterOK, Once, AllLinked
    PROVE  PlacedOnce
<1> DEFINE S == DOMAIN broker \ DOMAIN AccountOrders
           T == {id \in OrderIds : submits[id] > 0}
           f == [w \in S |-> worker.engineOf[w]]
<1>1. S \subseteq BrokerIds
  BY DEF RouterOK, Types, Maps
<1>2. \A w \in S : f[w] \in T
  <2> SUFFICES ASSUME NEW w \in S PROVE worker.engineOf[w] \in T
    OBVIOUS
  <2>1. w \in DOMAIN worker.engineOf /\ Taken(worker.engineOf[w])
    BY <1>1 DEF Once, AllLinked, Engine, Linked
  <2>2. worker.engineOf[w] \in OrderIds
    BY <2>1 DEF RouterOK, Types, Maps
  <2> QED BY <2>1, <2>2 DEF Taken
<1>3. \A v, w \in S : f[v] = f[w] => v = w
  BY <1>1 DEF Once, AllLinked, Engine
<1>4. f \in Injection(S, T)
  BY <1>2, <1>3 DEF Injection, IsInjective
<1>5. IsFiniteSet(T)
  BY OrderIdsAssumption, FS_Subset
<1> HIDE DEF S, T, f
<1>6. Cardinality(S) =< Cardinality(T)
  BY <1>4, <1>5, FS_Injection
<1> QED BY <1>6 DEF PlacedOnce, S, T

(* While every answer of the account reaches the worker, the account holds  *)
(* at most one order for each order the engine sent, whatever failed and    *)
(* was retried: handle_submit, apply_event's retry and submitted_ids.      *)
THEOREM PlacedOnceWhenAnswered == ~LostAcks => (Spec => []PlacedOnce)
<1> SUFFICES ASSUME ~LostAcks PROVE Spec => []PlacedOnce
  OBVIOUS
<1>1. RouterOK /\ Once /\ AllLinked => PlacedOnce
  BY OnceFits
<1>2. RouterOK /\ OneInFlight /\ Once /\ [Next]_vars => RouterOK' /\ OneInFlight' /\ Once'
  BY NextOK, NextKeepsFlight, NextKeepsOnce
<1>3. RouterOK /\ AllLinked /\ [Next]_vars => AllLinked'
  BY NextKeepsLinked
<1> QED BY <1>1, <1>2, <1>3, StartsOK, StartsWithNoneInFlight, StartsOnce, PTL DEF Spec

---------------------------------------------------------------------------
(* Reductions first.  A pass under way that holds nothing back has nothing  *)
(* to wait for: whatever reduced a position was open when it began, and in  *)
(* a pass orders are only closed or converted.                             *)
Deferral ==
    CashAccount /\ pass.left # {} /\ ~pass.deferring => \A id \in tm.openIds : ~Reduces(id)

Narrowed ==
    /\ tm'.openIds \subseteq tm.openIds
    /\ \A id \in tm'.openIds :
          /\ tm'.orders[id].symbol = tm.orders[id].symbol
          /\ tm'.orders[id].quantity = tm.orders[id].quantity
          /\ tm'.orders[id].filled = tm.orders[id].filled

(* Rewriting an order keeps the open orders as they are, if it keeps what   *)
(* is left of the order or closes it.                                      *)
LEMMA RewriteNarrows ==
    ASSUME StoreOK(tm), StoreOK(tm'), NEW i \in DOMAIN tm.orders, IsOpen(tm.orders[i].status),
           NEW o, tm'.orders = [tm.orders EXCEPT ![i] = o],
           \/ ~IsOpen(o.status)
           \/ /\ o.symbol = tm.orders[i].symbol /\ o.quantity = tm.orders[i].quantity
              /\ o.filled = tm.orders[i].filled
    PROVE  Narrowed
<1>1. PICK s, r : s = tm /\ r = tm'
  OBVIOUS
<1>2. /\ s.openIds = {j \in DOMAIN s.orders : IsOpen(s.orders[j].status)}
      /\ r.openIds = {j \in DOMAIN r.orders : IsOpen(r.orders[j].status)}
  BY <1>1, StoreFields
<1>3. /\ DOMAIN r.orders = DOMAIN s.orders /\ r.orders[i] = o
      /\ \A j \in DOMAIN s.orders : j # i => r.orders[j] = s.orders[j]
  BY <1>1
<1>4. r.openIds \subseteq s.openIds
  BY <1>1, <1>2, <1>3
<1>5. \A j \in r.openIds : j = i => IsOpen(o.status)
  BY <1>2, <1>3
<1>6. \A j \in r.openIds : /\ r.orders[j].symbol = s.orders[j].symbol
                           /\ r.orders[j].quantity = s.orders[j].quantity
                           /\ r.orders[j].filled = s.orders[j].filled
  BY <1>1, <1>2, <1>3, <1>5
<1> QED BY <1>1, <1>4, <1>6 DEF Narrowed

(* A visit of a pass leaves the other orders and the holdings alone.       *)
LEMMA DispatchNarrows ==
    ASSUME RouterOK, RouterOK', NEW i \in OrderIds, DispatchOne(i)
    PROVE  Narrowed
<1>1. Visit(i)
  BY DEF DispatchOne, PassOver, Refuse, ConvertToMarketOnOpen, Submit, ForwardCancel, ForwardUpdate
<1>2. PICK s, r : s = tm /\ r = tm'
  OBVIOUS
<1>3. StoreOK(s) /\ StoreOK(r) /\ i \in DOMAIN s.orders /\ s.orders[i] \in Order
  <2>1. StoreOK(s) /\ StoreOK(r) /\ i \in DOMAIN s.orders
    BY <1>1, <1>2 DEF RouterOK, Visit, StoreOK, IsStore, IndexExact, TicketsMirror
  <2> QED BY <2>1, StoreFields
<1>4. StoreOK(tm) /\ StoreOK(tm')
  BY <1>2, <1>3
<1>5. CASE Refuse(i)
  <2>1. PICK event : event = [orderId |-> i, status |-> "Invalid", fillQuantity |-> 0]
    OBVIOUS
  <2>2. PICK o : o = WithEvent(s.orders[i], event)
    OBVIOUS
  <2>3. r.orders = [s.orders EXCEPT ![i] = o]
    <3>1. r = ProcessOrderEvent(s, event)
      BY <2>1, <1>2, <1>5 DEF Refuse
    <3> QED BY <3>1, <2>1, <2>2, <1>3 DEF ProcessOrderEvent, Write, AdjustOpenOrderIndex,
                                        StoreOK, IsStore
  <2>4. ~IsOpen(o.status) /\ IsOpen(s.orders[i].status)
    BY <2>1, <2>2, <1>2, <1>3, <1>5 DEF WithEvent, Order, IsOpen, Refuse, Due
  <2> QED BY <2>3, <2>4, <1>2, <1>3, <1>4, RewriteNarrows
<1>6. CASE ConvertToMarketOnOpen(i)
  <2>1. PICK o : o = [s.orders[i] EXCEPT !.marketOnOpen = TRUE]
    OBVIOUS
  <2>2. /\ o \in Order /\ o.symbol = s.orders[i].symbol /\ o.filled = s.orders[i].filled
        /\ o.quantity = s.orders[i].quantity
    BY <2>1, <1>3 DEF Order
  <2>3. r = AddOrUpdateOrder(s, i, o) /\ IsOpen(s.orders[i].status)
    BY <2>1, <1>2, <1>6 DEF ConvertToMarketOnOpen, Due, IsOpen
  <2>4. r.orders = [s.orders EXCEPT ![i] = o]
    BY <2>2, <2>3, <1>3, RewriteSteady
  <2> QED BY <2>2, <2>3, <2>4, <1>2, <1>3, <1>4, RewriteNarrows
<1>7. CASE PassOver(i) \/ Submit(i) \/ ForwardCancel(i) \/ ForwardUpdate(i)
  BY <1>7 DEF PassOver, Submit, ForwardCancel, ForwardUpdate, Narrowed
<1> QED BY <1>5, <1>6, <1>7 DEF DispatchOne

(* What reduced no position does not begin to.                             *)
LEMMA NarrowedKeepsDeferral ==
    ASSUME Deferral, Narrowed, holdings' = holdings,
           pass'.left # {} /\ ~pass'.deferring => pass.left # {} /\ ~pass.deferring
    PROVE  Deferral'
<1> SUFFICES ASSUME CashAccount, pass'.left # {}, ~pass'.deferring, NEW id \in tm'.openIds,
                    Reduces(id)'
             PROVE  FALSE
  BY DEF Deferral
<1>1. id \in tm.openIds /\ ~Reduces(id)
  BY DEF Deferral, Narrowed
<1>2. PICK held, left : held = holdings[tm.orders[id].symbol] /\ left = Remaining(tm.orders[id])
  OBVIOUS
<1>3. held = holdings'[tm'.orders[id].symbol] /\ left = Remaining(tm'.orders[id])
  BY <1>2 DEF Narrowed, Remaining
<1>4. /\ (held > 0 /\ left < 0) \/ (held < 0 /\ left > 0)
      /\ Abs(held + left) < Abs(held)
  BY <1>3 DEF Reduces, Remaining
<1> QED BY <1>1, <1>2, <1>4 DEF Reduces

(* Every step keeps what a pass holds back.                                *)
LEMMA NextKeepsDeferral ==
    ASSUME RouterOK, RouterOK', Deferral, [Next]_vars
    PROVE  Deferral'
<1>1. CASE \E id \in OrderIds : DispatchOne(id)
  <2>1. PICK i \in OrderIds : DispatchOne(i)
    BY <1>1
  <2>2. Visit(i) /\ holdings' = holdings
    BY <2>1 DEF DispatchOne, PassOver, Refuse, ConvertToMarketOnOpen, Submit, ForwardCancel,
                ForwardUpdate
  <2>3. pass.deferring \in BOOLEAN
    BY DEF RouterOK, Types
  <2>4. pass'.left # {} /\ ~pass'.deferring => pass.left # {} /\ ~pass.deferring
    BY <2>2, <2>3 DEF Visit
  <2> QED BY <2>1, <2>2, <2>4, DispatchNarrows, NarrowedKeepsDeferral
<1>2. CASE BeginPass
  <2>1. /\ pass'.deferring = (CashAccount /\ \E id \in tm.openIds : Reduces(id))
        /\ tm' = tm /\ holdings' = holdings
    BY <1>2 DEF BeginPass
  <2>2. \A id : Reduces(id)' = Reduces(id)
    BY <2>1 DEF Reduces, Remaining
  <2> QED BY <2>1, <2>2 DEF Deferral
<1>3. CASE UNCHANGED <<tm, holdings, pass>>
  BY <1>3, NarrowedKeepsDeferral DEF Narrowed
<1>4. CASE LoopIdle /\ pass' = pass
  BY <1>4 DEF LoopIdle, Deferral
<1> QED
  BY <1>1, <1>2, <1>3, <1>4
  DEF Next, vars, Place, Cancel, Update, HandleRequest, Accept, LoseAck, Reject, FailToSubmit,
      ServeCancel, ServeUpdate, Poll, BrokerFills, BrokerCloses, RingBell, Quote, RetryElapses,
      ApplyEvent, ApplySubmitted, ApplyInvalid, ApplySubmitFailed, ApplyStatus, Applying

(* Only a visit sends, and only what reduces or is not held back.          *)
LEMMA SendsReductionsFirst ==
    ASSUME RouterOK, Deferral, [Next]_vars, NEW id \in OrderIds,
           CashAccount, submits'[id] > submits[id]
    PROVE  Reduces(id) \/ \A other \in tm.openIds : ~Reduces(other)
<1>1. submits[id] \in Nat
  BY DEF RouterOK, Types
<1>2. submits' # submits
  BY <1>1
<1>3. PICK i \in OrderIds : Submit(i)
  BY <1>2
  DEF Next, vars, Place, Cancel, Update, HandleRequest, Accept, LoseAck, Reject, FailToSubmit,
      ServeCancel, ServeUpdate, Poll, BrokerFills, BrokerCloses, RingBell, Quote, RetryElapses,
      ApplyEvent, ApplySubmitted, ApplyInvalid, ApplySubmitFailed, ApplyStatus, BeginPass,
      DispatchOne, PassOver, Refuse, ConvertToMarketOnOpen, ForwardCancel, ForwardUpdate
<1>4. i = id
  BY <1>1, <1>3 DEF Submit, RouterOK, Types
<1>5. id \in pass.left /\ ~Deferred(id)
  BY <1>3, <1>4 DEF Submit, Visit, Due
<1> QED BY <1>5 DEF Deferred, Deferral

(* A cash account sends no order that needs buying power while an order     *)
(* that would release some is open: dispatch_pending's sort and deferral.  *)
THEOREM ReductionsGoFirst == Spec => ReductionsFirst
<1>1. Init => Deferral
  BY DEF Init, Deferral
<1>2. RouterOK /\ Deferral /\ [Next]_vars => RouterOK' /\ Deferral'
  BY NextOK, NextKeepsDeferral
<1>3. RouterOK /\ Deferral /\ [Next]_vars =>
          [\A id \in OrderIds :
              CashAccount /\ submits'[id] > submits[id] =>
                  Reduces(id) \/ \A other \in tm.openIds : ~Reduces(other)]_vars
  BY SendsReductionsFirst
<1> QED BY <1>1, <1>2, <1>3, StartsOK, PTL DEF Spec, ReductionsFirst

---------------------------------------------------------------------------
(* What becomes of an order.  A step writes one order of the store, with    *)
(* this status, and leaves the others.                                     *)
Turns(id, status) ==
    /\ id \in DOMAIN tm.orders
    /\ DOMAIN tm'.orders = DOMAIN tm.orders
    /\ tm'.orders[id].status = status
    /\ tm'.orders[id].symbol = tm.orders[id].symbol
    /\ \A other \in DOMAIN tm.orders \ {id} : tm'.orders[other] = tm.orders[other]

(* An order that is placed is new, of the menu, and leaves the others.     *)
LEMMA PlaceTurns ==
    ASSUME RouterOK, NEW id \in OrderIds, NEW item \in Menu[id], Place(id, item)
    PROVE  /\ id \notin DOMAIN tm.orders
           /\ DOMAIN tm'.orders = DOMAIN tm.orders \cup {id}
           /\ tm'.orders[id].status = "New" /\ tm'.orders[id].symbol = item.symbol
           /\ \A other \in DOMAIN tm.orders : tm'.orders[other] = tm.orders[other]
<1>1. PICK s, r : s = tm /\ r = tm'
  OBVIOUS
<1>2. PICK o : o = [symbol |-> item.symbol, quantity |-> item.quantity, filled |-> 0,
                    status |-> "New", marketOnOpen |-> item.marketOnOpen,
                    brokerageIds |-> {}, terms |-> 0]
  OBVIOUS
<1>3. o.status = "New" /\ o.symbol = item.symbol
  BY <1>2
<1>4. id \notin DOMAIN s.orders /\ r = AddOrder(s, id, o)
  BY <1>1, <1>2 DEF Place
<1>5. r.orders = Put(s.orders, id, o)
  BY <1>1, <1>4 DEF AddOrder, RouterOK, StoreOK, IsStore
<1>6. /\ DOMAIN r.orders = DOMAIN s.orders \cup {id} /\ r.orders[id] = o
      /\ \A other \in DOMAIN s.orders : r.orders[other] = s.orders[other]
  BY <1>4, <1>5 DEF Put
<1> QED BY <1>1, <1>3, <1>4, <1>6

(* What the algorithm asks for.                                            *)
LEMMA RequestTurns ==
    ASSUME RouterOK, NEW id \in OrderIds
    PROVE  /\ Cancel(id) => Turns(id, "CancelPending") /\ IsOpen(tm.orders[id].status)
           /\ Update(id) => /\ Turns(id, IF tm.orders[id].status = "New" THEN "New"
                                         ELSE "UpdateSubmitted")
                            /\ tm'.orders[id].marketOnOpen = tm.orders[id].marketOnOpen
                            /\ IsOpen(tm.orders[id].status)
<1>1. PICK s, r : s = tm /\ r = tm'
  OBVIOUS
<1>2. StoreOK(s)
  BY <1>1 DEF RouterOK
<1>3. ASSUME Cancel(id) PROVE Turns(id, "CancelPending") /\ IsOpen(tm.orders[id].status)
  <2>1. CanRequestCancel(s, id) /\ r = RequestCancelOrder(s, id)
    BY <1>1, <1>3 DEF Cancel
  <2>2. id \in DOMAIN s.orders /\ IsOpen(s.orders[id].status)
    BY <2>1 DEF CanRequestCancel
  <2>3. /\ DOMAIN r.orders = DOMAIN s.orders /\ Kept(s, r, {})
        /\ r.orders[id].status = "CancelPending"
        /\ \A i \in DOMAIN s.orders : i # id => r.orders[i] = s.orders[i]
    BY <2>1, <1>2, CancelKeeps
  <2> QED BY <2>2, <2>3, <1>1 DEF Turns, Kept
<1>4. ASSUME Update(id)
      PROVE  /\ Turns(id, IF tm.orders[id].status = "New" THEN "New" ELSE "UpdateSubmitted")
             /\ tm'.orders[id].marketOnOpen = tm.orders[id].marketOnOpen
             /\ IsOpen(tm.orders[id].status)
  <2>1. PICK quantity : quantity = s.orders[id].quantity
    OBVIOUS
  <2>2. CanRequestUpdate(s, id) /\ r = RequestUpdateOrder(s, id, quantity)
    BY <1>1, <1>4, <2>1 DEF Update
  <2>3. id \in DOMAIN s.orders /\ IsOpen(s.orders[id].status)
    BY <2>2 DEF CanRequestUpdate
  <2>4. quantity \in Int
    BY <2>1, <2>3, <1>2, StoreFields DEF Order
  <2>5. /\ StoreOK(r) /\ DOMAIN r.orders = DOMAIN s.orders
        /\ Kept(s, r, {id}) /\ Amended(s, r, id)
    BY <2>2, <2>4, <1>2, UpdateKeeps
  <2> QED BY <2>3, <2>5, <1>1 DEF Turns, Kept, Amended
<1> QED BY <1>3, <1>4

(* An event turns its order to the event's status.                         *)
LEMMA EventTurns ==
    ASSUME RouterOK, NEW event \in OrderEvent, event.orderId \in DOMAIN tm.orders,
           tm' = ProcessOrderEvent(tm, event)
    PROVE  Turns(event.orderId, event.status)
<1>1. PICK s, r, refilled : s = tm /\ r = tm' /\ refilled = {event.orderId}
  OBVIOUS
<1>2. StoreOK(s) /\ r = ProcessOrderEvent(s, event) /\ event.orderId \in refilled
  BY <1>1 DEF RouterOK
<1>3. /\ DOMAIN r.orders = DOMAIN s.orders /\ Steady(s, r, refilled)
      /\ event.orderId \in DOMAIN s.orders => r.orders[event.orderId].status = event.status
      /\ \A i \in DOMAIN s.orders : i # event.orderId => r.orders[i] = s.orders[i]
  BY <1>2, EventSteady
<1> QED BY <1>1, <1>3 DEF Turns, Steady

(* An order rewritten, then the event of its new status.                   *)
LEMMA RewriteTurns ==
    ASSUME RouterOK, NEW id \in DOMAIN tm.orders, NEW o \in Order, o.symbol = tm.orders[id].symbol,
           o.filled = tm.orders[id].filled, NEW status \in {"Submitted", "Invalid"},
           tm' = Emit(AddOrUpdateOrder(tm, id, o), id, status, 0)
    PROVE  Turns(id, status)
<1>1. PICK s, r, q : s = tm /\ r = tm' /\ q = AddOrUpdateOrder(s, id, o)
  OBVIOUS
<1>2. StoreOK(s) /\ id \in DOMAIN s.orders /\ id \in OrderIds
  BY <1>1, StoreFields DEF RouterOK
<1>3. StoreOK(q) /\ DOMAIN q.orders = DOMAIN s.orders /\ q.orders = [s.orders EXCEPT ![id] = o]
  BY <1>1, <1>2, RewriteSteady
<1>4. PICK event : event = [orderId |-> id, status |-> status, fillQuantity |-> 0]
  OBVIOUS
<1>5. event \in OrderEvent /\ event.status = status /\ event.orderId = id /\ ~IsFill(event.status)
  BY <1>2, <1>4, EventType DEF Status, IsFill
<1>6. r = ProcessOrderEvent(q, event)
  BY <1>1, <1>4 DEF Emit
<1>7. /\ DOMAIN r.orders = DOMAIN q.orders /\ Steady(q, r, {})
      /\ event.orderId \in DOMAIN q.orders => r.orders[event.orderId].status = event.status
      /\ \A i \in DOMAIN q.orders : i # event.orderId => r.orders[i] = q.orders[i]
  BY <1>3, <1>5, <1>6, EventSteady
<1>8. q.orders[id] = o /\ \A i \in DOMAIN s.orders : i # id => q.orders[i] = s.orders[i]
  BY <1>2, <1>3
<1> QED BY <1>1, <1>2, <1>3, <1>5, <1>7, <1>8 DEF Turns, Steady

(* MarkInvalid, and nothing else.                                          *)
LEMMA MarkInvalidTurns ==
    ASSUME RouterOK, NEW id, Known(id), tm' = MarkInvalid(id)
    PROVE  Turns(id, "Invalid")
<1>1. id \in DOMAIN tm.orders /\ tm.orders[id] \in Order
  BY StoreFields DEF RouterOK, Known
<1>2. PICK o : o = WithStatus(tm.orders[id], "Invalid")
  OBVIOUS
<1>3. o \in Order /\ o.symbol = tm.orders[id].symbol /\ o.filled = tm.orders[id].filled
  BY <1>1, <1>2 DEF WithStatus, Order, Status
<1>4. tm' = Emit(AddOrUpdateOrder(tm, id, o), id, "Invalid", 0)
  BY <1>2 DEF MarkInvalid
<1> QED BY <1>1, <1>3, <1>4, RewriteTurns

(* The handlers of the loop that write the store.                          *)
LEMMA RefuseTurns ==
    ASSUME RouterOK, NEW id \in OrderIds, Refuse(id)
    PROVE  Turns(id, "Invalid")
<1>1. PICK event : event = [orderId |-> id, status |-> "Invalid", fillQuantity |-> 0]
  OBVIOUS
<1>2. event \in OrderEvent /\ event.status = "Invalid" /\ event.orderId = id
  BY <1>1, EventType DEF Status
<1>3. id \in DOMAIN tm.orders /\ tm' = ProcessOrderEvent(tm, event)
  BY <1>1 DEF Refuse, Visit, RouterOK
<1> QED BY <1>2, <1>3, EventTurns

(* An order held for the next open is new still.                           *)
LEMMA ConvertTurns ==
    ASSUME RouterOK, NEW id \in OrderIds, ConvertToMarketOnOpen(id)
    PROVE  Turns(id, "New") /\ tm'.orders[id].marketOnOpen
<1>1. PICK s, r, o : s = tm /\ r = tm' /\ o = [s.orders[id] EXCEPT !.marketOnOpen = TRUE]
  OBVIOUS
<1>2. StoreOK(s) /\ id \in DOMAIN s.orders /\ s.orders[id] \in Order /\ s.orders[id].status = "New"
  BY <1>1, StoreFields DEF RouterOK, ConvertToMarketOnOpen, Visit, Due
<1>3. /\ o \in Order /\ o.symbol = s.orders[id].symbol /\ o.filled = s.orders[id].filled
      /\ o.status = "New" /\ o.marketOnOpen = TRUE
  BY <1>1, <1>2 DEF Order
<1>4. r = AddOrUpdateOrder(s, id, o)
  BY <1>1 DEF ConvertToMarketOnOpen
<1>5. DOMAIN r.orders = DOMAIN s.orders /\ r.orders = [s.orders EXCEPT ![id] = o]
  BY <1>2, <1>3, <1>4, RewriteSteady
<1>6. r.orders[id] = o /\ \A i \in DOMAIN s.orders : i # id => r.orders[i] = s.orders[i]
  BY <1>2, <1>5
<1> QED BY <1>1, <1>2, <1>3, <1>5, <1>6 DEF Turns

(* An acceptance turns a new order only.                                   *)
LEMMA SubmittedTurns ==
    ASSUME RouterOK, ApplySubmitted, NEW id, id = Head(events).id
    PROVE  \/ UNCHANGED <<tm, router>>
           \/ Turns(id, "Submitted") /\ tm.orders[id].status = "New" /\ router' = Settled(id)
<1>1. PICK event : event = Head(events)
  OBVIOUS
<1>2. event \in Acceptances
  BY <1>1, HeadEvent DEF ApplySubmitted
<1>3. ASSUME Known(id), tm.orders[id].status = "New"
      PROVE  Turns(id, "Submitted") /\ router' = Settled(id)
  <2>1. id \in DOMAIN tm.orders /\ tm.orders[id] \in Order
    BY <1>3, StoreFields DEF RouterOK, Known
  <2>2. PICK o : o = [tm.orders[id] EXCEPT !.status = "Submitted",
                                           !.brokerageIds = event.brokerageIds]
    OBVIOUS
  <2>3. o \in Order /\ o.symbol = tm.orders[id].symbol /\ o.filled = tm.orders[id].filled
    <3>1. event.brokerageIds \in SUBSET BrokerIds /\ "Submitted" \in Status
      BY <1>2 DEF Acceptances, Status
    <3> QED BY <3>1, <2>1, <2>2 DEF Order
  <2>4. /\ tm' = Emit(AddOrUpdateOrder(tm, id, o), id, "Submitted", 0)
        /\ router' = Settled(id)
    BY <1>1, <1>3, <2>2 DEF ApplySubmitted
  <2> QED BY <2>1, <2>3, <2>4, RewriteTurns
<1>4. ASSUME ~(Known(id) /\ tm.orders[id].status = "New") PROVE UNCHANGED <<tm, router>>
  BY <1>4 DEF ApplySubmitted
<1> QED BY <1>3, <1>4

(* A snapshot that is not ignored turns its order to what it reports.      *)
LEMMA StatusTurns ==
    ASSUME RouterOK, ApplyStatus, NEW event, event = Head(events)
    PROVE  \/ Ignored(event) /\ UNCHANGED <<tm, router, holdings>>
           \/ /\ ~Ignored(event) /\ Turns(event.id, event.status)
              /\ router' = router \/ router' = [router EXCEPT !.applied[event.id] = event.filled]
<1>1. event \in Snapshots /\ router \in Bookkeeping
  BY HeadEvent DEF ApplyStatus, RouterOK, Types
<1>2. CASE Ignored(event)
  BY <1>2 DEF ApplyStatus
<1>3. CASE ~Ignored(event)
  <2>1. PICK delta : delta = FillDelta(event)
    OBVIOUS
  <2>2. delta \in Int
    BY <2>1, <1>1 DEF FillDelta, Snapshots, Bookkeeping
  <2>3. PICK e : e = [orderId |-> event.id, status |-> event.status, fillQuantity |-> delta]
    OBVIOUS
  <2>4. e \in OrderEvent /\ e.orderId = event.id /\ e.status = event.status
    <3>1. event.status \in Status /\ event.id \in OrderIds
      BY <1>1 DEF Snapshots, BrokerStatus, Status
    <3> QED BY <3>1, <2>2, <2>3, EventType
  <2>5. tm' = ProcessOrderEvent(tm, e) /\ event.id \in DOMAIN tm.orders
    BY <1>3, <2>1, <2>3 DEF ApplyStatus, Emit, Ignored, Known
  <2>6. router' = router \/ router' = [router EXCEPT !.applied[event.id] = event.filled]
    BY <1>3 DEF ApplyStatus
  <2> QED BY <1>3, <2>4, <2>5, <2>6, EventTurns
<1> QED BY <1>2, <1>3
---------------------------------------------------------------------------
(* The retry budget.  An order that left New never returns to it, and one   *)
(* held for the next open is not held again; so its attempts are counted    *)
(* from the start at most twice.                                           *)
Attempted(id) ==
    /\ router.attempts[id] =< IF id \in router.submitted THEN Retries + 1 ELSE Retries
    /\ submits[id] =< router.attempts[id] + IF tm.orders[id].marketOnOpen THEN Retries ELSE 0

Budgeted(id) ==
    /\ ~Known(id) => submits[id] = 0 /\ router.attempts[id] = 0 /\ id \notin router.submitted
    /\ IsNew(id) => Attempted(id)
    /\ submits[id] =< 2 * Retries + 1

(* What a step may do to the retries of an order.                          *)
SameCounts(id) ==
    /\ router'.attempts[id] = router.attempts[id] /\ submits'[id] = submits[id]
    /\ id \in router'.submitted <=> id \in router.submitted

SameTurn(id) ==
    tm'.orders[id].status = tm.orders[id].status
        /\ tm'.orders[id].marketOnOpen = tm.orders[id].marketOnOpen

RetryStep(id) ==
    \/ SameCounts(id) /\ (Known(id) => SameTurn(id))
    \/ Known(id) /\ tm'.orders[id].status # "New" /\ submits'[id] = submits[id]
    \/ /\ IsNew(id) /\ SameTurn(id)       \* it is sent
       /\ id \notin router.submitted /\ id \in router'.submitted
       /\ router'.attempts[id] = router.attempts[id] + 1 /\ submits'[id] = submits[id] + 1
    \/ /\ IsNew(id) /\ id \notin router.submitted     \* held for the next open
       /\ ~tm.orders[id].marketOnOpen /\ tm'.orders[id].marketOnOpen
       /\ router'.attempts[id] = 0 /\ submits'[id] = submits[id]
    \/ /\ Known(id) /\ SameTurn(id)      \* the attempt failed, another is left
       /\ router.attempts[id] =< Retries /\ router'.attempts[id] = router.attempts[id]
       /\ submits'[id] = submits[id]

(* The budget is kept by such steps.                                       *)
LEMMA RetryStepBudgeted ==
    ASSUME RouterOK, RouterOK', NEW id \in OrderIds, Budgeted(id), RetryStep(id),
           DOMAIN tm.orders \subseteq DOMAIN tm'.orders
    PROVE  Budgeted(id)'
<1> USE DEF Known, IsNew
<1>1. /\ Retries \in Nat /\ submits[id] \in Nat /\ submits'[id] \in Nat
      /\ router.attempts[id] \in Nat /\ router'.attempts[id] \in Nat
  BY BoundsAssumption DEF RouterOK, Types, Bookkeeping
<1>2. Known(id) => Known(id)'
  OBVIOUS
<1>3. CASE SameCounts(id) /\ (Known(id) => SameTurn(id))
  <2>1. CASE Known(id)
    BY <2>1, <1>2, <1>3 DEF Budgeted, Attempted, SameCounts, SameTurn
  <2>2. CASE ~Known(id)
    BY <2>2, <1>1, <1>3 DEF Budgeted, Attempted, SameCounts
  <2> QED BY <2>1, <2>2
<1>4. CASE Known(id) /\ tm'.orders[id].status # "New" /\ submits'[id] = submits[id]
  BY <1>2, <1>4 DEF Budgeted
<1>5. CASE /\ IsNew(id) /\ SameTurn(id)
           /\ id \notin router.submitted /\ id \in router'.submitted
           /\ router'.attempts[id] = router.attempts[id] + 1 /\ submits'[id] = submits[id] + 1
  <2>1. /\ router.attempts[id] =< Retries
        /\ submits[id] =< router.attempts[id] + IF tm.orders[id].marketOnOpen THEN Retries ELSE 0
    BY <1>5 DEF Budgeted, Attempted
  <2> QED BY <2>1, <1>1, <1>2, <1>5 DEF Budgeted, Attempted, SameTurn
<1>6. CASE /\ IsNew(id) /\ id \notin router.submitted
           /\ ~tm.orders[id].marketOnOpen /\ tm'.orders[id].marketOnOpen
           /\ router'.attempts[id] = 0 /\ submits'[id] = submits[id]
  <2>1. submits[id] =< Retries
    BY <1>1, <1>6 DEF Budgeted, Attempted
  <2> QED BY <2>1, <1>1, <1>2, <1>6 DEF Budgeted, Attempted
<1>7. CASE /\ Known(id) /\ SameTurn(id)
           /\ router.attempts[id] =< Retries /\ router'.attempts[id] = router.attempts[id]
           /\ submits'[id] = submits[id]
  BY <1>1, <1>2, <1>7 DEF Budgeted, Attempted, SameTurn
<1> QED BY <1>3, <1>4, <1>5, <1>6, <1>7 DEF RetryStep

(* An order that is not the one the step turns.                            *)
LEMMA OtherRetryStep ==
    ASSUME NEW i, NEW status, Turns(i, status), NEW id, id # i, SameCounts(id)
    PROVE  RetryStep(id)
BY DEF Turns, RetryStep, SameTurn, Known

(* The steps of the algorithm...                                           *)
LEMMA AlgorithmRetryStep ==
    ASSUME RouterOK, NEW i \in OrderIds,
           (\E item \in Menu[i] : Place(i, item)) \/ Cancel(i) \/ Update(i), NEW id \in OrderIds
    PROVE  RetryStep(id)
<1>1. SameCounts(id)
  BY DEF Place, Cancel, Update, SameCounts
<1>2. CASE \E item \in Menu[i] : Place(i, item)
  <2>1. \A other \in DOMAIN tm.orders : tm'.orders[other] = tm.orders[other]
    BY <1>2, PlaceTurns
  <2> QED BY <2>1, <1>1 DEF RetryStep, SameTurn, Known
<1>3. CASE Cancel(i)
  <2>1. Turns(i, "CancelPending") /\ submits' = submits
    BY <1>3, RequestTurns DEF Cancel
  <2>2. CASE id = i
    BY <2>1, <2>2 DEF RetryStep, Turns, Known
  <2> QED BY <2>1, <2>2, <1>1, OtherRetryStep
<1>4. CASE Update(i)
  <2>1. /\ Turns(i, IF tm.orders[i].status = "New" THEN "New" ELSE "UpdateSubmitted")
        /\ tm'.orders[i].marketOnOpen = tm.orders[i].marketOnOpen /\ submits' = submits
    BY <1>4, RequestTurns DEF Update
  <2>2. CASE id = i
    BY <2>1, <2>2, <1>1 DEF RetryStep, SameTurn, Turns, Known
  <2> QED BY <2>1, <2>2, <1>1, OtherRetryStep
<1> QED BY <1>2, <1>3, <1>4

(* ... of a pass...                                                        *)
LEMMA DispatchRetryStep ==
    ASSUME RouterOK, NEW i \in OrderIds, DispatchOne(i), NEW id \in OrderIds
    PROVE  RetryStep(id)
<1>1. i \in DOMAIN tm.orders /\ router \in Bookkeeping /\ submits \in [OrderIds -> Nat]
  BY DEF DispatchOne, PassOver, Refuse, ConvertToMarketOnOpen, Submit, ForwardCancel,
         ForwardUpdate, Visit, RouterOK, Types
<1>2. CASE PassOver(i) \/ ForwardCancel(i) \/ ForwardUpdate(i)
  <2>1. UNCHANGED <<tm, submits>> /\ router'.attempts = router.attempts
        /\ router'.submitted = router.submitted
    BY <1>1, <1>2 DEF PassOver, ForwardCancel, ForwardUpdate, Bookkeeping
  <2> QED BY <2>1 DEF RetryStep, SameCounts, SameTurn
<1>3. CASE Refuse(i)
  <2>1. Turns(i, "Invalid") /\ UNCHANGED <<router, submits>>
    BY <1>3, RefuseTurns DEF Refuse
  <2>2. CASE id = i
    BY <2>1, <2>2 DEF RetryStep, Turns, Known
  <2> QED BY <2>1, <2>2, OtherRetryStep DEF SameCounts
<1>4. CASE ConvertToMarketOnOpen(i)
  <2>1. Turns(i, "New") /\ tm'.orders[i].marketOnOpen /\ submits' = submits
    BY <1>4, ConvertTurns DEF ConvertToMarketOnOpen
  <2>2. /\ IsNew(i) /\ i \notin router.submitted /\ ~tm.orders[i].marketOnOpen
    BY <1>1, <1>4 DEF ConvertToMarketOnOpen, Due, ClosedBeforeRetry, IsNew, Known
  <2>3. /\ router'.attempts = [router.attempts EXCEPT ![i] = 0]
        /\ router'.submitted = router.submitted
    BY <1>1, <1>4 DEF ConvertToMarketOnOpen, Bookkeeping
  <2>4. CASE id = i
    BY <2>1, <2>2, <2>3, <2>4, <1>1 DEF RetryStep, Bookkeeping
  <2>5. CASE id # i
    BY <2>1, <2>3, <2>5, <1>1, OtherRetryStep DEF SameCounts, Bookkeeping
  <2> QED BY <2>4, <2>5
<1>5. CASE Submit(i)
  <2>1. IsNew(i) /\ i \notin router.submitted /\ tm' = tm
    BY <1>1, <1>5 DEF Submit, Due, IsNew, Known
  <2>2. /\ router'.attempts = [router.attempts EXCEPT ![i] = @ + 1]
        /\ router'.submitted = router.submitted \cup {i}
        /\ submits' = [submits EXCEPT ![i] = @ + 1]
    BY <1>1, <1>5 DEF Submit, Bookkeeping
  <2>3. CASE id = i
    BY <2>1, <2>2, <2>3, <1>1 DEF RetryStep, SameTurn, Bookkeeping
  <2>4. CASE id # i
    BY <2>1, <2>2, <2>4, <1>1 DEF RetryStep, SameCounts, SameTurn, Bookkeeping
  <2> QED BY <2>3, <2>4
<1> QED BY <1>2, <1>3, <1>4, <1>5 DEF DispatchOne

(* The router's counts of the other orders, when one is settled.           *)
LEMMA SettledCounts ==
    ASSUME RouterOK, NEW i \in OrderIds, NEW next, next = Settled(i), NEW id \in OrderIds, id # i
    PROVE  /\ next.attempts[id] = router.attempts[id]
           /\ next.submitted = router.submitted
BY DEF RouterOK, Types, Bookkeeping, Settled

(* ... and of the events.                                                  *)
LEMMA EventRetryStep ==
    ASSUME RouterOK, ApplyEvent, NEW id \in OrderIds
    PROVE  RetryStep(id)
<1>1. PICK event, i : event = Head(events) /\ i = event.id
  OBVIOUS
<1>2. router \in Bookkeeping /\ submits' = submits /\ i \in OrderIds
  <2>1. Applying("Submitted") \/ Applying("Invalid") \/ Applying("SubmitFailed") \/ Applying("Status")
    BY DEF ApplyEvent, ApplySubmitted, ApplyInvalid, ApplySubmitFailed, ApplyStatus
  <2> QED BY <2>1, <1>1, HeadEvent
          DEF RouterOK, Types, ApplyEvent, ApplySubmitted, ApplyInvalid, ApplySubmitFailed, ApplyStatus
<1>3. ASSUME UNCHANGED <<tm, router>> PROVE RetryStep(id)
  BY <1>2, <1>3 DEF RetryStep, SameCounts, SameTurn
<1>4. ASSUME NEW status, status # "New", Turns(i, status), id # i => SameCounts(id)
      PROVE  RetryStep(id)
  <2>1. CASE id = i
    BY <2>1, <1>2, <1>4 DEF RetryStep, Turns, Known
  <2> QED BY <2>1, <1>4, OtherRetryStep
<1>5. CASE ApplySubmitted
  <2>1. \/ UNCHANGED <<tm, router>>
        \/ Turns(i, "Submitted") /\ router' = Settled(i)
    BY <1>1, <1>5, SubmittedTurns
  <2>2. ASSUME router' = Settled(i), id # i PROVE SameCounts(id)
    BY <2>2, <1>2, SettledCounts DEF SameCounts
  <2> QED BY <2>1, <2>2, <1>3, <1>4
<1>6. CASE ApplyInvalid
  <2>1. \/ UNCHANGED <<tm, router>>
        \/ Known(i) /\ tm' = MarkInvalid(i) /\ router' = Settled(i)
    BY <1>1, <1>6 DEF ApplyInvalid
  <2>2. ASSUME router' = Settled(i), id # i PROVE SameCounts(id)
    BY <2>2, <1>2, SettledCounts DEF SameCounts
  <2> QED BY <2>1, <2>2, <1>3, <1>4, MarkInvalidTurns
<1>7. CASE ApplySubmitFailed
  <2>1. CASE ~Known(i)
    BY <2>1, <1>1, <1>3, <1>7 DEF ApplySubmitFailed
  <2>2. CASE Known(i) /\ RetryLeft(i)
    <3>1. /\ tm' = tm
          /\ router' = [router EXCEPT !.submitted = NoLongerInFlight(i), !.waiting = @ \cup {i}]
      BY <2>2, <1>1, <1>7 DEF ApplySubmitFailed
    <3>2. router'.attempts = router.attempts /\ router'.submitted = router.submitted \ {i}
      BY <3>1, <1>2 DEF Bookkeeping, NoLongerInFlight
    <3>3. CASE id = i
      BY <2>2, <3>1, <3>2, <3>3, <1>2 DEF RetryStep, SameTurn, RetryLeft
    <3>4. CASE id # i
      BY <3>1, <3>2, <3>4, <1>2 DEF RetryStep, SameCounts, SameTurn
    <3> QED BY <3>3, <3>4
  <2>3. CASE Known(i) /\ ~RetryLeft(i)
    <3>1. /\ tm' = MarkInvalid(i)
          /\ router' = [Settled(i) EXCEPT !.submitted = NoLongerInFlight(i)]
      BY <2>3, <1>1, <1>7 DEF ApplySubmitFailed
    <3>2. ASSUME id # i PROVE SameCounts(id)
      <4>1. PICK next : next = Settled(i)
        OBVIOUS
      <4>2. next \in Bookkeeping /\ next.attempts[id] = router.attempts[id]
        BY <4>1, <3>2, <1>2, SettledType, SettledCounts
      <4>3. router' = [next EXCEPT !.submitted = router.submitted \ {i}]
        BY <3>1, <4>1 DEF NoLongerInFlight
      <4>4. router'.attempts = next.attempts /\ router'.submitted = router.submitted \ {i}
        BY <4>2, <4>3 DEF Bookkeeping
      <4> QED BY <3>2, <4>2, <4>4, <1>2 DEF SameCounts
    <3> QED BY <2>3, <3>1, <3>2, <1>4, MarkInvalidTurns
  <2> QED BY <2>1, <2>2, <2>3
<1>8. CASE ApplyStatus
  <2>1. \/ UNCHANGED <<tm, router>>
        \/ /\ Turns(i, event.status)
           /\ router' = router \/ router' = [router EXCEPT !.applied[i] = event.filled]
    BY <1>1, <1>8, StatusTurns
  <2>2. event.status # "New"
    BY <1>1, <1>8, HeadEvent DEF ApplyStatus, Snapshots, BrokerStatus
  <2>3. ASSUME router' = router \/ router' = [router EXCEPT !.applied[i] = event.filled]
        PROVE  SameCounts(id)
    BY <2>3, <1>2 DEF SameCounts, Bookkeeping
  <2> QED BY <2>1, <2>2, <2>3, <1>3, <1>4
<1> QED BY <1>5, <1>6, <1>7, <1>8 DEF ApplyEvent

(* Every step is such a step for every order.                              *)
LEMMA NextRetryStep ==
    ASSUME RouterOK, [Next]_vars, NEW id \in OrderIds
    PROVE  RetryStep(id)
<1>1. CASE \E i \in OrderIds : (\E item \in Menu[i] : Place(i, item)) \/ Cancel(i) \/ Update(i)
  BY <1>1, AlgorithmRetryStep
<1>2. CASE \E i \in OrderIds : DispatchOne(i)
  BY <1>2, DispatchRetryStep
<1>3. CASE ApplyEvent
  BY <1>3, EventRetryStep
<1>4. CASE UNCHANGED <<tm, submits>> /\ router'.attempts = router.attempts
           /\ router'.submitted = router.submitted
  BY <1>4 DEF RetryStep, SameCounts, SameTurn
<1>5. router \in Bookkeeping
  BY DEF RouterOK, Types
<1> QED
  BY <1>1, <1>2, <1>3, <1>4, <1>5
  DEF Next, vars, BeginPass, HandleRequest, Accept, LoseAck, Reject, FailToSubmit, ServeCancel,
      ServeUpdate, Poll, BrokerFills, BrokerCloses, RingBell, Quote, RetryElapses, Bookkeeping

(* No order is sent more often than the retry schedule allows, whatever     *)
(* fails, times out or is converted in between: submit_attempts against    *)
(* submit_backoff, and the single conversion to the next open.             *)
THEOREM RetriesAreBounded == Spec => []RetryBudget
<1> DEFINE AllBudgeted == \A id \in OrderIds : Budgeted(id)
<1>1. Init => AllBudgeted
  <2> SUFFICES ASSUME Init, NEW id \in OrderIds PROVE Budgeted(id)
    OBVIOUS
  <2>1. submits[id] = 0 /\ router.attempts[id] = 0 /\ router.submitted = {} /\ Retries \in Nat
    BY BoundsAssumption DEF Init
  <2>2. submits[id] =< router.attempts[id] + (IF tm.orders[id].marketOnOpen THEN Retries ELSE 0)
    BY <2>1
  <2> QED BY <2>1, <2>2 DEF Budgeted, Attempted
<1>2. RouterOK /\ AllBudgeted /\ [Next]_vars => RouterOK' /\ AllBudgeted'
  <2> SUFFICES ASSUME RouterOK, AllBudgeted, [Next]_vars PROVE RouterOK' /\ AllBudgeted'
    OBVIOUS
  <2>1. RouterOK' /\ DOMAIN tm.orders \subseteq DOMAIN tm'.orders
    BY NextOK DEF FillsAlike, NoFill, FillOf, StoreSteady, Steady
  <2>2. ASSUME NEW id \in OrderIds PROVE Budgeted(id)'
    BY <2>1, NextRetryStep, RetryStepBudgeted
  <2> QED BY <2>1, <2>2
<1>3. AllBudgeted => RetryBudget
  BY DEF Budgeted, RetryBudget
<1> QED BY <1>1, <1>2, <1>3, StartsOK, PTL DEF Spec
---------------------------------------------------------------------------
(* What the brokerage filled lies between nothing and the quantity.        *)
Within(order) ==
    \/ 0 =< order.filled /\ order.filled =< order.quantity
    \/ order.quantity =< order.filled /\ order.filled =< 0

(* The orders sent are the engine's: imported ones are not sent.           *)
OurOrders ==
    /\ router.submitted \subseteq DOMAIN tm.orders \ ImportedIds
    /\ ImportedIds \subseteq DOMAIN tm.orders
    /\ \A id \in ImportedIds : tm.orders[id].status # "New"

OurAccount == \A w \in DOMAIN broker : Within(broker[w])

(* What a step may do to an order of the account.                          *)
Onward(o, p) ==
    /\ p.number = o.number /\ p.symbol = o.symbol
    /\ Within(o) => Within(p) /\ Abs(o.filled) =< Abs(p.filled)
    /\ ~IsOpen(o.status) => p.status = o.status

AccountOnward ==
    /\ \A w \in DOMAIN broker : w \in DOMAIN broker' /\ Onward(broker[w], broker'[w])
    /\ \A w \in DOMAIN broker' \ DOMAIN broker : Within(broker'[w])

(* A status is changed of what is worked on only.                          *)
LEMMA StatusOnward ==
    ASSUME RouterOK, NEW w \in DOMAIN broker, Working(broker[w]),
           NEW status, broker' = [broker EXCEPT ![w].status = status]
    PROVE  AccountOnward
<1>1. PICK b, c, o : b = broker /\ c = broker' /\ o = b[w]
  OBVIOUS
<1>2. b \in [DOMAIN b -> BrokerOrder] /\ w \in DOMAIN b /\ o \in BrokerOrder
  BY <1>1 DEF RouterOK, Types
<1>3. c = [b EXCEPT ![w] = [o EXCEPT !.status = status]]
  BY <1>1, <1>2
<1>4. Onward(o, [o EXCEPT !.status = status])
  BY <1>1, <1>2 DEF Onward, Within, Abs, BrokerOrder, Working, IsOpen
<1>5. ASSUME NEW v \in DOMAIN b PROVE v \in DOMAIN c /\ Onward(b[v], c[v])
  <2>1. CASE v = w
    BY <2>1, <1>1, <1>2, <1>3, <1>4
  <2>2. CASE v # w
    <3>1. c[v] = b[v] /\ b[v] \in BrokerOrder
      BY <2>2, <1>2, <1>3
    <3> QED BY <3>1, <1>3 DEF Onward, Abs, BrokerOrder
  <2> QED BY <2>1, <2>2
<1> QED BY <1>1, <1>3, <1>5 DEF AccountOnward

(* A fill moves towards the quantity.                                      *)
LEMMA FillOnward ==
    ASSUME RouterOK, NEW w, BrokerFills(w)
    PROVE  AccountOnward
<1>1. PICK b, c, o : b = broker /\ c = broker' /\ o = b[w]
  OBVIOUS
<1>2. /\ b \in [DOMAIN b -> BrokerOrder] /\ w \in DOMAIN b /\ o \in BrokerOrder
      /\ Working(o)
  BY <1>1 DEF RouterOK, Types, BrokerFills
<1>3. PICK left \in Int, quantity \in Int, status \in BrokerStatus :
         /\ left = o.quantity - o.filled
         /\ quantity \in IF left > 0 THEN 1..left ELSE left..(-1)
         /\ c = [b EXCEPT ![w] = [o EXCEPT !.filled = @ + quantity, !.status = status]]
  <2>1. PICK left : left = o.quantity - o.filled
    OBVIOUS
  <2>2. left \in Int
    BY <2>1, <1>2 DEF BrokerOrder
  <2>3. PICK quantity \in IF left > 0 THEN 1..left ELSE left..(-1) :
           c = [b EXCEPT ![w].filled = @ + quantity,
                         ![w].status = IF quantity = left THEN "Filled"
                                       ELSE IF @ = "Submitted" THEN "PartiallyFilled" ELSE @]
    BY <2>1, <1>1 DEF BrokerFills
  <2>4. PICK status : status = IF quantity = left THEN "Filled"
                               ELSE IF o.status = "Submitted" THEN "PartiallyFilled" ELSE o.status
    OBVIOUS
  <2>5. c = [b EXCEPT ![w] = [o EXCEPT !.filled = @ + quantity, !.status = status]]
    BY <2>3, <2>4, <1>1, <1>2 DEF BrokerOrder
  <2>6. quantity \in Int
    BY <2>2, <2>3
  <2>7. status \in BrokerStatus
    BY <2>4, <1>2 DEF BrokerOrder, BrokerStatus
  <2> QED BY <2>1, <2>2, <2>3, <2>5, <2>6, <2>7
<1>4. PICK p : p = [o EXCEPT !.filled = @ + quantity, !.status = status]
  OBVIOUS
<1>5. p.number = o.number /\ p.symbol = o.symbol /\ p.quantity = o.quantity
      /\ p.filled = o.filled + quantity
  BY <1>2, <1>4 DEF BrokerOrder
<1>6. Within(o) => Within(p) /\ Abs(o.filled) =< Abs(p.filled)
  <2>1. o.quantity \in Int /\ o.filled \in Int
    BY <1>2 DEF BrokerOrder
  <2>2. PICK a, z : a = o.filled /\ z = o.quantity
    OBVIOUS
  <2>3. /\ a \in Int /\ z \in Int /\ quantity \in Int /\ left = z - a
        /\ quantity \in IF left > 0 THEN 1..left ELSE left..(-1)
        /\ p.filled = a + quantity /\ p.quantity = z
    BY <2>1, <2>2, <1>3, <1>5
  <2> QED BY <2>2, <2>3 DEF Within, Abs
<1>7. Onward(o, p)
  BY <1>2, <1>5, <1>6 DEF Onward, Working, IsOpen
<1>8. ASSUME NEW v \in DOMAIN b PROVE v \in DOMAIN c /\ Onward(b[v], c[v])
  <2>1. CASE v = w
    BY <2>1, <1>1, <1>2, <1>3, <1>4, <1>7
  <2>2. CASE v # w
    <3>1. c[v] = b[v] /\ b[v] \in BrokerOrder
      BY <2>2, <1>2, <1>3
    <3> QED BY <3>1, <1>3 DEF Onward, Abs, BrokerOrder
  <2> QED BY <2>1, <2>2
<1> QED BY <1>1, <1>3, <1>8 DEF AccountOnward

(* An order placed is unfilled.                                            *)
LEMMA PlacedOnward ==
    ASSUME RouterOK, NEW w \in BrokerIds, w \notin DOMAIN broker, Serving("Submit"),
           NEW number \in Numbering[Head(requests).id],
           broker' = With(broker, w, PlacedOrder(Head(requests).order, number))
    PROVE  AccountOnward
<1>1. PICK b, c, o : b = broker /\ c = broker' /\ o = PlacedOrder(Head(requests).order, number)
  OBVIOUS
<1>2. b \in [DOMAIN b -> BrokerOrder] /\ c = With(b, w, o) /\ o \in BrokerOrder
  BY <1>1, HeadRequest, PlacedType, NumberingAssumption DEF RouterOK, Types
<1>3. o.filled = 0
  BY <1>1 DEF PlacedOrder
<1>4. Within(o)
  BY <1>2, <1>3 DEF Within, BrokerOrder
<1>5. DOMAIN c = DOMAIN b \cup {w} /\ c[w] = o
  BY <1>2 DEF With
<1>6. ASSUME NEW v \in DOMAIN b PROVE v \in DOMAIN c /\ Onward(b[v], c[v])
  <2>1. c[v] = b[v] /\ b[v] \in BrokerOrder
    BY <1>1, <1>2 DEF With
  <2> QED BY <2>1, <1>5 DEF Onward, Abs, BrokerOrder
<1> QED BY <1>1, <1>4, <1>5, <1>6 DEF AccountOnward

(* Every step moves the account on.                                        *)
LEMMA NextOnward ==
    ASSUME RouterOK, [Next]_vars
    PROVE  AccountOnward
<1>1. CASE UNCHANGED broker
  <2>1. ASSUME NEW w \in DOMAIN broker PROVE Onward(broker[w], broker[w])
    <3>1. broker[w] \in BrokerOrder
      BY DEF RouterOK, Types
    <3> QED BY <3>1 DEF Onward, Abs, BrokerOrder
  <2> QED BY <2>1, <1>1 DEF AccountOnward
<1>2. CASE ServeCancel
  BY <1>1, <1>2, StatusOnward DEF ServeCancel
<1>3. CASE \E w \in BrokerIds : BrokerFills(w)
  BY <1>3, FillOnward
<1>4. CASE \E w \in BrokerIds : \E status \in {"Canceled", "Invalid"} : BrokerCloses(w, status)
  BY <1>4, StatusOnward DEF BrokerCloses
<1>5. CASE \E w \in BrokerIds : Accept(w) \/ LoseAck(w)
  BY <1>5, PlacedOnward DEF Accept, LoseAck
<1> QED
  BY <1>1, <1>2, <1>3, <1>4, <1>5
  DEF Next, vars, HandleRequest, Reject, FailToSubmit, ServeUpdate, Place, Cancel, Update,
      BeginPass, Poll, RingBell, Quote, RetryElapses, DispatchOne, PassOver, Refuse,
      ConvertToMarketOnOpen, Submit, ForwardCancel, ForwardUpdate, ApplyEvent, ApplySubmitted,
      ApplyInvalid, ApplySubmitFailed, ApplyStatus

(* The account stays ours.                                                 *)
LEMMA NextKeepsAccount ==
    ASSUME RouterOK, OurAccount, [Next]_vars
    PROVE  OurAccount'
BY NextOnward DEF OurAccount, AccountOnward, Onward

(* It is at startup.                                                       *)
LEMMA StartsWithAccount == Init => OurAccount
<1> SUFFICES ASSUME NEW w \in DOMAIN AccountOrders PROVE Within(AccountOrders[w])
  BY DEF Init, OurAccount
<1>1. PICK filled, quantity : /\ filled = AccountOrders[w].filled
                              /\ quantity = AccountOrders[w].quantity
  OBVIOUS
<1>2. filled \in Int /\ quantity \in Int /\ filled \in 0..quantity \cup quantity..0
  BY <1>1, AccountAssumption DEF BrokerOrder
<1> QED BY <1>1, <1>2 DEF Within
---------------------------------------------------------------------------
(* The algorithm may place the symbol under the id.                        *)
Mine(id, symbol) == \E item \in Menu[id] : item.symbol = symbol

(* What a step may do to an order of the store.  Status unchanged; placed;  *)
(* refused before it was sent; turned while open; closed by a failure; or  *)
(* turned by a snapshot.                                                   *)
SameStatus(id) ==
    /\ Known(id)' <=> Known(id)
    /\ Known(id) => tm'.orders[id].status = tm.orders[id].status

Placed(id) ==
    /\ ~Known(id)
    /\ id \in DOMAIN tm'.orders
    /\ tm'.orders[id].status = "New" /\ Mine(id, tm'.orders[id].symbol)

RefusedUnsent(id) ==
    /\ IsNew(id) /\ id \notin router.submitted
    /\ tm'.orders[id].status = "Invalid"
    /\ UNCHANGED <<router, requests, events, worker, broker>>

TurnedOpen(id) ==
    /\ Known(id) /\ IsOpen(tm.orders[id].status)
    /\ IsOpen(tm'.orders[id].status)
    /\ tm'.orders[id].status = "New" => tm.orders[id].status = "New"

Failed(id) ==
    /\ Known(id) /\ events # <<>> /\ Head(events) \in FailuresOf(id)
    /\ tm'.orders[id].status = "Invalid"
    /\ events' = Tail(events) /\ UNCHANGED <<requests, worker, broker>>

Reported(id) ==
    /\ Known(id) /\ events # <<>> /\ Head(events) \in Snapshots
    /\ Head(events).id = id /\ ~Ignored(Head(events))
    /\ tm'.orders[id].status = Head(events).status
    /\ events' = Tail(events) /\ UNCHANGED <<requests, worker, broker>>

OrderStep(id) ==
    \/ SameStatus(id) \/ Placed(id) \/ RefusedUnsent(id) \/ TurnedOpen(id)
    \/ Failed(id) \/ Reported(id)

(* Of the orders that a step does not turn.                                *)
LEMMA OtherSameStatus ==
    ASSUME NEW i, NEW status, Turns(i, status), NEW id, id # i
    PROVE  SameStatus(id)
BY DEF Turns, SameStatus, Known

(* The algorithm's steps...                                                *)
LEMMA AlgorithmOrderStep ==
    ASSUME RouterOK, NEW i \in OrderIds,
           (\E item \in Menu[i] : Place(i, item)) \/ Cancel(i) \/ Update(i), NEW id \in OrderIds
    PROVE  OrderStep(id)
<1>1. ASSUME NEW item \in Menu[i], Place(i, item) PROVE OrderStep(id)
  <2>1. /\ i \notin DOMAIN tm.orders
        /\ DOMAIN tm'.orders = DOMAIN tm.orders \cup {i}
        /\ tm'.orders[i].status = "New" /\ tm'.orders[i].symbol = item.symbol
        /\ \A other \in DOMAIN tm.orders : tm'.orders[other] = tm.orders[other]
    BY <1>1, PlaceTurns
  <2>2. CASE id = i
    BY <2>1, <2>2 DEF OrderStep, Placed, Known, Mine
  <2>3. CASE id # i
    BY <2>1, <2>3 DEF OrderStep, SameStatus, Known
  <2> QED BY <2>2, <2>3
<1>2. CASE Cancel(i)
  <2>1. Turns(i, "CancelPending") /\ IsOpen(tm.orders[i].status)
    BY <1>2, RequestTurns
  <2>2. CASE id = i
    BY <2>1, <2>2 DEF OrderStep, TurnedOpen, Turns, Known, IsOpen
  <2> QED BY <2>1, <2>2, OtherSameStatus DEF OrderStep
<1>3. CASE Update(i)
  <2>1. PICK status : status = IF tm.orders[i].status = "New" THEN "New" ELSE "UpdateSubmitted"
    OBVIOUS
  <2>2. Turns(i, status) /\ IsOpen(tm.orders[i].status)
    BY <1>3, <2>1, RequestTurns
  <2>3. CASE id = i
    BY <2>1, <2>2, <2>3 DEF OrderStep, TurnedOpen, Turns, Known, IsOpen
  <2> QED BY <2>2, <2>3, OtherSameStatus DEF OrderStep
<1> QED BY <1>1, <1>2, <1>3

(* ... those of a pass...                                                  *)
LEMMA DispatchOrderStep ==
    ASSUME RouterOK, NEW i \in OrderIds, DispatchOne(i), NEW id \in OrderIds
    PROVE  OrderStep(id)
<1>1. CASE UNCHANGED tm
  BY <1>1 DEF OrderStep, SameStatus, Known
<1>2. CASE Refuse(i)
  <2>1. Turns(i, "Invalid")
    BY <1>2, RefuseTurns
  <2>2. UNCHANGED <<router, requests, events, worker, broker>>
    BY <1>2 DEF Refuse
  <2>3. IsNew(i) /\ i \notin router.submitted
    BY <1>2, <2>1 DEF Refuse, Due, IsNew, Known, Turns
  <2>4. CASE id = i
    BY <2>1, <2>2, <2>3, <2>4 DEF OrderStep, RefusedUnsent, Turns
  <2> QED BY <2>1, <2>4, OtherSameStatus DEF OrderStep
<1>3. CASE ConvertToMarketOnOpen(i)
  <2>1. Turns(i, "New") /\ tm.orders[i].status = "New"
    BY <1>3, ConvertTurns DEF ConvertToMarketOnOpen, Due
  <2>2. CASE id = i
    BY <2>1, <2>2 DEF OrderStep, SameStatus, Turns, Known
  <2> QED BY <2>1, <2>2, OtherSameStatus DEF OrderStep
<1> QED BY <1>1, <1>2, <1>3 DEF DispatchOne, PassOver, Submit, ForwardCancel, ForwardUpdate

(* ... and those of the events.                                            *)
LEMMA EventOrderStep ==
    ASSUME RouterOK, ApplyEvent, NEW id \in OrderIds
    PROVE  OrderStep(id)
<1>1. PICK event, i : event = Head(events) /\ i = event.id
  OBVIOUS
<1>2. UNCHANGED <<requests, worker, broker>> /\ events' = Tail(events) /\ events # <<>>
  BY DEF ApplyEvent, ApplySubmitted, ApplyInvalid, ApplySubmitFailed, ApplyStatus, Applying
<1>3. CASE UNCHANGED tm
  BY <1>3 DEF OrderStep, SameStatus, Known
<1>4. CASE ApplySubmitted
  <2>1. UNCHANGED <<tm, router>> \/ (Turns(i, "Submitted") /\ tm.orders[i].status = "New")
    BY <1>1, <1>4, SubmittedTurns
  <2>2. CASE Turns(i, "Submitted") /\ tm.orders[i].status = "New" /\ id = i
    BY <2>2 DEF OrderStep, TurnedOpen, Turns, Known, IsOpen
  <2> QED BY <1>3, <2>1, <2>2, OtherSameStatus DEF OrderStep
<1>5. ASSUME event.kind \in {"Invalid", "SubmitFailed"}, Applying(event.kind),
             Known(i), tm' = MarkInvalid(i)
      PROVE  OrderStep(id)
  <2>1. event \in Event
    BY <1>1, <1>5, HeadEvent
  <2>2. Turns(i, "Invalid")
    BY <1>5, MarkInvalidTurns
  <2>3. CASE id = i
    BY <1>1, <1>2, <1>5, <2>1, <2>2, <2>3 DEF OrderStep, Failed, FailuresOf, Turns
  <2> QED BY <2>2, <2>3, OtherSameStatus DEF OrderStep
<1>6. CASE ApplyInvalid
  <2>1. Applying("Invalid") /\ event.kind = "Invalid"
    BY <1>1, <1>6 DEF ApplyInvalid, Applying
  <2>2. UNCHANGED tm \/ (Known(i) /\ tm' = MarkInvalid(i))
    BY <1>1, <1>6 DEF ApplyInvalid
  <2> QED BY <1>3, <1>5, <2>1, <2>2
<1>7. CASE ApplySubmitFailed
  <2>1. Applying("SubmitFailed") /\ event.kind = "SubmitFailed"
    BY <1>1, <1>7 DEF ApplySubmitFailed, Applying
  <2>2. UNCHANGED tm \/ (Known(i) /\ tm' = MarkInvalid(i))
    BY <1>1, <1>7 DEF ApplySubmitFailed
  <2> QED BY <1>3, <1>5, <2>1, <2>2
<1>8. CASE ApplyStatus
  <2>1. event \in Snapshots
    BY <1>1, <1>8, HeadEvent DEF ApplyStatus
  <2>2. UNCHANGED tm \/ (~Ignored(event) /\ Turns(i, event.status))
    BY <1>1, <1>8, StatusTurns
  <2>3. CASE ~Ignored(event) /\ Turns(i, event.status) /\ id = i
    BY <1>1, <1>2, <2>1, <2>3 DEF OrderStep, Reported, Turns, Known
  <2> QED BY <1>3, <2>2, <2>3, OtherSameStatus DEF OrderStep
<1> QED BY <1>4, <1>6, <1>7, <1>8 DEF ApplyEvent

(* Every step is such a step for every order.                              *)
LEMMA NextOrderStep ==
    ASSUME RouterOK, [Next]_vars, NEW id \in OrderIds
    PROVE  OrderStep(id)
<1>1. CASE \E i \in OrderIds : (\E item \in Menu[i] : Place(i, item)) \/ Cancel(i) \/ Update(i)
  BY <1>1, AlgorithmOrderStep
<1>2. CASE \E i \in OrderIds : DispatchOne(i)
  BY <1>2, DispatchOrderStep
<1>3. CASE ApplyEvent
  BY <1>3, EventOrderStep
<1>4. CASE UNCHANGED tm
  BY <1>4 DEF OrderStep, SameStatus, Known
<1> QED
  BY <1>1, <1>2, <1>3, <1>4
  DEF Next, vars, BeginPass, HandleRequest, Accept, LoseAck, Reject, FailToSubmit, ServeCancel,
      ServeUpdate, Poll, BrokerFills, BrokerCloses, RingBell, Quote, RetryElapses
---------------------------------------------------------------------------
(* What is marked as submitted stays, but for a new order that is sent.    *)
LEMMA MarksStep ==
    ASSUME RouterOK, [Next]_vars
    PROVE  \/ router'.submitted \subseteq router.submitted
           \/ \E id \in OrderIds : IsNew(id) /\ router'.submitted = router.submitted \cup {id}
<1>1. router \in Bookkeeping
  BY DEF RouterOK, Types
<1>2. CASE UNCHANGED router
  BY <1>2
<1>3. CASE \E id \in OrderIds : DispatchOne(id) \/ RetryElapses(id)
  BY <1>1, <1>3 DEF RetryElapses, DispatchOne, PassOver, Refuse, ConvertToMarketOnOpen, Submit,
                    ForwardCancel, ForwardUpdate, Bookkeeping, Due, IsNew, Known, RouterOK, Visit
<1>4. CASE ApplyEvent
  BY <1>4, UnmarkedByFailure
<1> QED
  BY <1>1, <1>2, <1>3, <1>4
  DEF Next, vars, BeginPass, HandleRequest, Accept, LoseAck, Reject, FailToSubmit, ServeCancel,
      ServeUpdate, Poll, BrokerFills, BrokerCloses, RingBell, Quote, Place, Cancel, Update

(* The orders stay ours.                                                   *)
LEMMA NextKeepsOrders ==
    ASSUME RouterOK, RouterOK', OurOrders, [Next]_vars
    PROVE  OurOrders'
<1>1. /\ DOMAIN tm.orders \subseteq DOMAIN tm'.orders
      /\ \A id \in DOMAIN tm.orders : tm'.orders[id].symbol = tm.orders[id].symbol
  BY NextOK DEF FillsAlike, NoFill, FillOf, StoreSteady, Steady
<1>2. DOMAIN tm'.orders \subseteq OrderIds
  BY DEF RouterOK, StoreOK, IsStore
<1>3. router'.submitted \subseteq DOMAIN tm'.orders \ ImportedIds
  BY <1>1, MarksStep DEF OurOrders, IsNew, Known
<1>4. ASSUME NEW id \in ImportedIds PROVE tm'.orders[id].status # "New"
  <2>1. id \in DOMAIN tm.orders /\ tm.orders[id].status # "New" /\ id \in OrderIds
    BY DEF OurOrders, RouterOK, StoreOK, IsStore
  <2>2. OrderStep(id)
    BY <2>1, NextOrderStep
  <2>3. Head(events) \in Snapshots => Head(events).status # "New"
    BY DEF Snapshots, BrokerStatus
  <2> QED BY <2>1, <2>2, <2>3 DEF OrderStep, SameStatus, Placed, RefusedUnsent, TurnedOpen,
                                  Failed, Reported, Known
<1> QED BY <1>1, <1>3, <1>4 DEF OurOrders

(* They are at startup.                                                    *)
LEMMA StartsWithOrders == Init => OurOrders
<1> SUFFICES ASSUME Init PROVE OurOrders
  OBVIOUS
<1>1. DOMAIN tm.orders = ImportedIds /\ router.submitted = {}
  BY StartupOK DEF Init
<1>2. ASSUME NEW id \in ImportedIds PROVE tm.orders[id].status # "New"
  <2>1. PICK w : w = CHOOSE v \in Imported : AccountOrders[v].number = id
    OBVIOUS
  <2>2. w \in Imported
    BY <2>1 DEF ImportedIds
  <2>3. AccountOrders[w].status # "New"
    BY <2>2, AccountAssumption DEF Imported, BrokerOrder, BrokerStatus
  <2>4. tm.orders[id] = ImportedOrder(w)
    BY <2>1 DEF Init, StartupStore, EmptyStore
  <2> QED BY <2>3, <2>4 DEF ImportedOrder
<1> QED BY <1>1, <1>2 DEF OurOrders
---------------------------------------------------------------------------
(* Snapshots under way.  Each is of an account order that resolves to the   *)
(* engine order it names; it shows no more fills than the account has by   *)
(* now, and a closed status is the final one.  It is booked if it has the  *)
(* symbol of the engine order, and of an order that is alone, none follows *)
(* a closed one with another status.                                       *)
Own(event) ==
    /\ event.kind = "Status" /\ Known(event.id)
    /\ event.symbol = tm.orders[event.id].symbol

Source(event, w) ==
    /\ w \in DOMAIN broker /\ Resolve(w) = event.id /\ broker[w].symbol = event.symbol
    /\ Abs(event.filled) =< Abs(broker[w].filled)
    /\ ~IsOpen(event.status) => broker[w].status = event.status

Faithful(event) == event.kind = "Status" => \E w \in BrokerIds : Source(event, w)

Ending(q) ==
    \A i, j \in DOMAIN q :
        i < j /\ Own(q[i]) /\ Own(q[j]) /\ q[i].id = q[j].id /\ Alone(q[i].id)
              /\ ~IsOpen(q[i].status)
            => q[j].status = q[i].status

SnapshotsOK == (\A i \in DOMAIN events : Faithful(events[i])) /\ Ending(events)

(* What the worker linked stays so, and what it did not link at first it    *)
(* never does.                                                             *)
LinksOnward ==
    /\ \A w \in DOMAIN worker.engineOf :
          w \in DOMAIN worker'.engineOf /\ worker'.engineOf[w] = worker.engineOf[w]
    /\ \A w \in DOMAIN broker \ DOMAIN worker.engineOf : w \notin DOMAIN worker'.engineOf

(* Every step is such a step.                                              *)
LEMMA NextLinksOnward ==
    ASSUME RouterOK, [Next]_vars
    PROVE  LinksOnward
<1>1. CASE worker'.engineOf = worker.engineOf
  BY <1>1 DEF LinksOnward
<1>2. ASSUME NEW v \in BrokerIds, Accept(v) PROVE LinksOnward
  <2>1. PICK new : new = Head(requests).id
    OBVIOUS
  <2> QED BY <2>1, <1>2, AcceptLinks DEF LinksOnward, Linked
<1> QED BY <1>1, <1>2, AccountStep

(* An order of the account that resolves to an engine order...             *)
LEMMA ResolvedKnown ==
    ASSUME RouterOK, OurOrders, Once, NEW w \in DOMAIN broker, NEW id, id = Resolve(w), id # 0
    PROVE  /\ id \in OrderIds /\ id \in DOMAIN tm.orders \ ImportedIds
           /\ \E v \in BrokerIds : Linked(v) /\ worker.engineOf[v] = id
<1>1. \E v \in DOMAIN worker.engineOf : worker.engineOf[v] = id
  BY DEF Resolve
<1>2. PICK v \in BrokerIds : Linked(v) /\ worker.engineOf[v] = id
  BY <1>1 DEF RouterOK, Types, Linked
<1>3. id \in OrderIds /\ id \in router.submitted
  BY <1>2 DEF Once, Taken, Linked, RouterOK, Types
<1> QED BY <1>2, <1>3 DEF OurOrders

(* ... does so for good.                                                   *)
LEMMA ResolvedStays ==
    ASSUME RouterOK, [Next]_vars, NEW w \in DOMAIN broker, NEW id, id = Resolve(w), id # 0
    PROVE  w \in DOMAIN broker' /\ Resolve(w)' = id
<1>1. LinksOnward /\ AccountOnward
  BY NextLinksOnward, NextOnward
<1>2. w \in DOMAIN broker' /\ broker'[w].number = broker[w].number
  BY <1>1 DEF AccountOnward, Onward
<1>3. CASE w \in DOMAIN worker.engineOf
  BY <1>1, <1>2, <1>3 DEF LinksOnward, Resolve
<1>4. CASE w \notin DOMAIN worker.engineOf
  <2>1. id = broker[w].number /\ \E v \in DOMAIN worker.engineOf : worker.engineOf[v] = id
    BY <1>4 DEF Resolve
  <2>2. \E v \in DOMAIN worker'.engineOf : worker'.engineOf[v] = broker'[w].number
    BY <2>1, <1>1, <1>2 DEF LinksOnward
  <2>3. w \notin DOMAIN worker'.engineOf
    BY <1>1, <1>4 DEF LinksOnward
  <2> QED BY <2>1, <2>2, <2>3, <1>2 DEF Resolve
<1> QED BY <1>3, <1>4

(* A known order keeps its symbol.                                         *)
LEMMA SymbolStays ==
    ASSUME RouterOK, [Next]_vars, NEW id, Known(id)
    PROVE  Known(id)' /\ tm'.orders[id].symbol = tm.orders[id].symbol
BY NextOK DEF FillsAlike, NoFill, FillOf, StoreSteady, Steady, Known

(* What feeds an order goes on doing so...                                 *)
LEMMA FeedingStays ==
    ASSUME RouterOK, [Next]_vars, NEW id \in OrderIds, Known(id), NEW w \in Feeding(id)
    PROVE  w \in Feeding(id)'
<1>1. w \in DOMAIN broker /\ Resolve(w) = id /\ broker[w].symbol = tm.orders[id].symbol
  BY DEF Feeding
<1>2. id # 0
  BY OrderIdsArePositive
<1>3. w \in DOMAIN broker' /\ Resolve(w)' = id
  BY <1>1, <1>2, ResolvedStays
<1>4. broker'[w].symbol = broker[w].symbol
  BY <1>1, NextOnward DEF AccountOnward, Onward
<1>5. tm'.orders[id].symbol = tm.orders[id].symbol
  BY SymbolStays
<1> QED BY <1>1, <1>3, <1>4, <1>5 DEF Feeding

(* ... so an order that is alone always was.                               *)
LEMMA AloneBefore ==
    ASSUME RouterOK, [Next]_vars, NEW id \in OrderIds, Known(id), Alone(id)'
    PROVE  Alone(id)
<1> SUFFICES ASSUME NEW w \in Feeding(id), w \notin DOMAIN worker.engineOf PROVE FALSE
  BY DEF Alone
<1>1. w \in Feeding(id)'
  BY FeedingStays
<1>2. w \in DOMAIN worker'.engineOf
  BY <1>1 DEF Alone
<1>3. w \notin DOMAIN worker'.engineOf
  BY NextLinksOnward DEF LinksOnward, Feeding
<1> QED BY <1>2, <1>3

(* The source of a snapshot stays its source...                            *)
LEMMA SourceStays ==
    ASSUME RouterOK, RouterOK', OurAccount, [Next]_vars, NEW event \in Snapshots, NEW w,
           Source(event, w)
    PROVE  Source(event, w)'
<1>1. event.id \in OrderIds /\ event.id # 0 /\ event.filled \in Int
  BY OrderIdsArePositive DEF Snapshots
<1>2. w \in DOMAIN broker' /\ Resolve(w)' = event.id
  BY <1>1, ResolvedStays DEF Source
<1>3. Onward(broker[w], broker'[w]) /\ Within(broker[w])
  BY NextOnward DEF AccountOnward, OurAccount, Source
<1>4. Abs(event.filled) =< Abs(broker'[w].filled)
  <2>1. PICK a, b, c : a = event.filled /\ b = broker[w].filled /\ c = broker'[w].filled
    OBVIOUS
  <2>2. b \in Int /\ c \in Int
    BY <2>1, <1>2 DEF RouterOK, Types, BrokerOrder, Source
  <2>3. Abs(a) =< Abs(b) /\ Abs(b) =< Abs(c)
    BY <2>1, <1>3 DEF Onward, Source
  <2> QED BY <2>1, <2>2, <2>3, <1>1 DEF Abs
<1>5. ~IsOpen(event.status) => broker'[w].status = event.status
  BY <1>3 DEF Onward, Source
<1>6. broker'[w].symbol = event.symbol
  BY <1>3 DEF Onward, Source
<1> QED BY <1>2, <1>4, <1>5, <1>6 DEF Source

(* ... so a faithful snapshot stays so...                                  *)
LEMMA FaithfulStays ==
    ASSUME RouterOK, RouterOK', OurAccount, [Next]_vars, NEW event \in Event, Faithful(event)
    PROVE  Faithful(event)'
<1> SUFFICES ASSUME event.kind = "Status" PROVE \E w \in BrokerIds : Source(event, w)'
  BY DEF Faithful
<1>1. event \in Snapshots
  BY DEF Event, Snapshots
<1>2. PICK w \in BrokerIds : Source(event, w)
  BY DEF Faithful
<1> QED BY <1>1, <1>2, SourceStays

(* ... and is booked after a step only if it was before.                   *)
LEMMA OwnBefore ==
    ASSUME RouterOK, OurOrders, Once, [Next]_vars, NEW event \in Event, Faithful(event),
           Own(event)'
    PROVE  Own(event) /\ event \in Snapshots /\ event.id \in OrderIds /\ Known(event.id)
<1>1. event.kind = "Status"
  BY DEF Own
<1>2. event \in Snapshots /\ event.id \in OrderIds
  BY <1>1 DEF Event, Snapshots
<1>3. PICK w \in BrokerIds : Source(event, w)
  BY <1>1 DEF Faithful
<1>4. event.id # 0 /\ w \in DOMAIN broker /\ Resolve(w) = event.id
  BY <1>2, <1>3, OrderIdsArePositive DEF Source
<1>5. Known(event.id)
  BY <1>4, ResolvedKnown DEF Known
<1>6. event.symbol = tm'.orders[event.id].symbol
  BY DEF Own
<1>7. event.symbol = tm.orders[event.id].symbol
  BY <1>5, <1>6, SymbolStays
<1> QED BY <1>1, <1>2, <1>5, <1>7 DEF Own

(* A snapshot booked on an order that is alone is of the one linked to it. *)
LEMMA AloneSource ==
    ASSUME NEW event, Own(event), Alone(event.id), NEW w, Source(event, w)
    PROVE  Linked(w) /\ worker.engineOf[w] = event.id
<1>1. w \in Feeding(event.id)
  BY DEF Feeding, Source, Own
<1> QED BY <1>1 DEF Alone, Linked, Source, Resolve

(* A snapshot polled is faithful.                                          *)
LEMMA PolledFaithful ==
    ASSUME RouterOK, OurOrders, Once, NEW w \in BrokerIds, Poll(w)
    PROVE  \E event \in Event :
              /\ events' = Append(events, event) /\ Source(event, w)
              /\ event.status = broker[w].status
<1>1. PICK id : id = Resolve(w)
  OBVIOUS
<1>2. PICK event : event = [kind |-> "Status", id |-> id, symbol |-> broker[w].symbol,
                            status |-> broker[w].status, filled |-> broker[w].filled]
  OBVIOUS
<1>3. events' = Append(events, event) /\ w \in DOMAIN broker /\ id # 0
  BY <1>1, <1>2 DEF Poll
<1>4. broker[w] \in BrokerOrder
  BY <1>3 DEF RouterOK, Types
<1>5. id \in OrderIds
  BY <1>1, <1>3, ResolvedKnown
<1>6. event \in Event
  BY <1>2, <1>4, <1>5 DEF Event, BrokerOrder
<1>7. Source(event, w)
  <2>1. /\ event.id = id /\ event.symbol = broker[w].symbol
        /\ event.status = broker[w].status /\ event.filled = broker[w].filled
    BY <1>2
  <2>2. Abs(event.filled) =< Abs(broker[w].filled)
    <3>1. PICK a : a = broker[w].filled
      OBVIOUS
    <3>2. a \in Int
      BY <3>1, <1>4 DEF BrokerOrder
    <3> QED BY <3>1, <3>2, <2>1 DEF Abs
  <2> QED BY <2>1, <2>2, <1>1, <1>3 DEF Source
<1>8. event.status = broker[w].status
  BY <1>2
<1> QED BY <1>3, <1>6, <1>7, <1>8

(* What a step may do to the events.                                       *)
LEMMA EventsStep ==
    ASSUME RouterOK, [Next]_vars
    PROVE  \/ events' = events
           \/ events # <<>> /\ events' = Tail(events)
           \/ \E event \in Event : event.kind # "Status" /\ events' = Append(events, event)
           \/ \E w \in BrokerIds : Poll(w)
<1>1. CASE (\E w \in BrokerIds : Accept(w) \/ LoseAck(w)) \/ Reject \/ FailToSubmit
  <2>1. PICK m : m = Head(requests)
    OBVIOUS
  <2>2. m.id \in OrderIds
    <3>1. Serving("Submit")
      BY <1>1 DEF Accept, LoseAck, Reject, FailToSubmit
    <3> QED BY <3>1, <2>1, HeadRequest
  <2>3. \/ \E w \in BrokerIds :
              Answer([kind |-> "Submitted", id |-> m.id, brokerageIds |-> {w}])
        \/ Answer([kind |-> "Invalid", id |-> m.id])
        \/ Answer([kind |-> "SubmitFailed", id |-> m.id])
    BY <1>1, <2>1 DEF Accept, LoseAck, Reject, FailToSubmit
  <2>4. /\ \A w \in BrokerIds :
              [kind |-> "Submitted", id |-> m.id, brokerageIds |-> {w}] \in Event
        /\ [kind |-> "Invalid", id |-> m.id] \in Event
        /\ [kind |-> "SubmitFailed", id |-> m.id] \in Event
    BY <2>2 DEF Event
  <2>5. ASSUME NEW event \in Event, event.kind # "Status", Answer(event)
        PROVE  \E x \in Event : x.kind # "Status" /\ events' = Append(events, x)
    BY <2>5 DEF Answer
  <2> QED BY <2>3, <2>4, <2>5
<1>2. CASE ApplyEvent
  BY <1>2 DEF ApplyEvent, ApplySubmitted, ApplyInvalid, ApplySubmitFailed, ApplyStatus, Applying
<1> QED
  BY <1>1, <1>2
  DEF Next, vars, BeginPass, HandleRequest, ServeCancel, ServeUpdate, Place, Cancel, Update,
      BrokerFills, BrokerCloses, RingBell, Quote, RetryElapses, DispatchOne, PassOver, Refuse,
      ConvertToMarketOnOpen, Submit, ForwardCancel, ForwardUpdate

(* The places of a queue that a message joins.                             *)
LEMMA AppendPlaces ==
    ASSUME NEW T, NEW q \in Seq(T), NEW x \in T, NEW r, r = Append(q, x)
    PROVE  /\ Len(q) \in Nat /\ DOMAIN q = 1..Len(q) /\ DOMAIN r = 1..(Len(q) + 1)
           /\ \A i \in DOMAIN q : r[i] = q[i] /\ q[i] \in T
           /\ r[Len(q) + 1] = x
OBVIOUS

(* The places of a queue that lost its head.                               *)
LEMMA TailPlaces ==
    ASSUME NEW T, NEW q \in Seq(T), q # <<>>, NEW r, r = Tail(q)
    PROVE  /\ DOMAIN r \subseteq Nat
           /\ Head(q) = q[1] /\ 1 \in DOMAIN q
           /\ \A i \in DOMAIN r : i >= 1 /\ i + 1 \in DOMAIN q /\ r[i] = q[i + 1]
OBVIOUS

(* The snapshots stay faithful.                                            *)
LEMMA NextKeepsSnapshots ==
    ASSUME RouterOK, RouterOK', OurOrders, OurAccount, Once, SnapshotsOK, [Next]_vars
    PROVE  SnapshotsOK'
<1>1. PICK q, r : q = events /\ r = events'
  OBVIOUS
<1>2. q \in Seq(Event) /\ \A i \in DOMAIN q : q[i] \in Event /\ Faithful(q[i])
  BY <1>1 DEF RouterOK, Types, SnapshotsOK
<1>3. ASSUME NEW i \in DOMAIN q PROVE Faithful(q[i])'
  <2>1. PICK event : event = q[i]
    OBVIOUS
  <2>2. event \in Event /\ Faithful(event)
    BY <2>1, <1>2
  <2>3. Faithful(event)'
    BY <2>2, FaithfulStays
  <2> QED BY <2>1, <2>3
<1>4. ASSUME NEW i \in DOMAIN q, Own(q[i])'
      PROVE  Own(q[i]) /\ q[i].id \in OrderIds /\ Known(q[i].id)
  <2>1. PICK event : event = q[i]
    OBVIOUS
  <2>2. event \in Event /\ Faithful(event) /\ Own(event)'
    BY <2>1, <1>2, <1>4
  <2>3. Own(event) /\ event.id \in OrderIds /\ Known(event.id)
    BY <2>2, OwnBefore
  <2> QED BY <2>1, <2>3
<1>5. ASSUME NEW i \in DOMAIN q, NEW j \in DOMAIN q, i < j, Own(q[i])', Own(q[j])',
             q[i].id = q[j].id, Alone(q[i].id)', ~IsOpen(q[i].status)
      PROVE  q[j].status = q[i].status
  <2>1. Own(q[i]) /\ Own(q[j]) /\ q[i].id \in OrderIds /\ Known(q[i].id)
    BY <1>4, <1>5
  <2>2. PICK id : id = q[i].id
    OBVIOUS
  <2>3. id \in OrderIds /\ Known(id) /\ Alone(id)'
    BY <2>1, <2>2, <1>5
  <2>4. Alone(id)
    BY <2>3, AloneBefore
  <2>5. Ending(q)
    BY <1>1 DEF SnapshotsOK
  <2> QED BY <2>1, <2>2, <2>4, <2>5, <1>5 DEF Ending
<1>6. CASE r = q
  <2>1. Ending(q)'
    BY <1>5 DEF Ending
  <2> QED BY <1>1, <1>3, <1>6, <2>1 DEF SnapshotsOK
<1>7. CASE q # <<>> /\ r = Tail(q)
  <2>1. /\ DOMAIN r \subseteq Nat
        /\ \A i \in DOMAIN r : i >= 1 /\ i + 1 \in DOMAIN q /\ r[i] = q[i + 1]
    BY <1>2, <1>7, TailPlaces
  <2>2. \A i \in DOMAIN r : Faithful(r[i])'
    BY <2>1, <1>3
  <2>3. ASSUME NEW i \in DOMAIN r, NEW j \in DOMAIN r, i < j, Own(r[i])', Own(r[j])',
               r[i].id = r[j].id, Alone(r[i].id)', ~IsOpen(r[i].status)
        PROVE  r[j].status = r[i].status
    <3>1. i + 1 < j + 1 /\ i + 1 \in DOMAIN q /\ j + 1 \in DOMAIN q
      BY <2>1, <2>3
    <3>2. r[i] = q[i + 1] /\ r[j] = q[j + 1]
      BY <2>1
    <3> QED BY <3>1, <3>2, <2>3, <1>5
  <2>4. Ending(r)'
    BY <2>3 DEF Ending
  <2> QED BY <2>2, <2>4, <1>1 DEF SnapshotsOK
<1>8. ASSUME NEW x \in Event, r = Append(q, x), Faithful(x),
             \A i \in DOMAIN q :
                 Own(q[i])' /\ Own(x)' /\ q[i].id = x.id /\ Alone(q[i].id)'
                            /\ ~IsOpen(q[i].status)
                     => x.status = q[i].status
      PROVE  SnapshotsOK'
  <2>1. /\ Len(q) \in Nat /\ DOMAIN q = 1..Len(q) /\ DOMAIN r = 1..(Len(q) + 1)
        /\ \A i \in DOMAIN q : r[i] = q[i]
        /\ r[Len(q) + 1] = x
    BY <1>2, <1>8, AppendPlaces
  <2>2. Faithful(x)'
    BY <1>8, FaithfulStays
  <2>3. ASSUME NEW i \in DOMAIN r PROVE Faithful(r[i])'
    <3>1. CASE i \in DOMAIN q
      BY <3>1, <2>1, <1>3
    <3>2. CASE i = Len(q) + 1
      BY <3>2, <2>1, <2>2
    <3> QED BY <3>1, <3>2, <2>1
  <2>4. ASSUME NEW i \in DOMAIN r, NEW j \in DOMAIN r, i < j, Own(r[i])', Own(r[j])',
               r[i].id = r[j].id, Alone(r[i].id)', ~IsOpen(r[i].status)
        PROVE  r[j].status = r[i].status
    <3>1. i \in DOMAIN q /\ r[i] = q[i] /\ (j \in DOMAIN q \/ j = Len(q) + 1)
      BY <2>1, <2>4
    <3>2. CASE j \in DOMAIN q
      <4>1. r[j] = q[j]
        BY <3>2, <2>1
      <4> QED BY <4>1, <3>1, <3>2, <2>4, <1>5
    <3>3. CASE j = Len(q) + 1
      <4>1. r[j] = x
        BY <3>3, <2>1
      <4> QED BY <4>1, <3>1, <2>4, <1>8
    <3> QED BY <3>1, <3>2, <3>3
  <2>5. Ending(r)'
    BY <2>4 DEF Ending
  <2> QED BY <2>3, <2>5, <1>1 DEF SnapshotsOK
<1>9. ASSUME NEW x \in Event, x.kind # "Status", r = Append(q, x)
      PROVE  SnapshotsOK'
  <2>1. Faithful(x) /\ ~Own(x)'
    BY <1>9 DEF Faithful, Own
  <2> QED BY <2>1, <1>8, <1>9
<1>10. ASSUME NEW w \in BrokerIds, Poll(w)
       PROVE  SnapshotsOK'
  <2>1. PICK x \in Event : r = Append(q, x) /\ Source(x, w) /\ x.status = broker[w].status
    BY <1>1, <1>10, PolledFaithful
  <2>2. Faithful(x)
    BY <2>1 DEF Faithful
  <2>3. ASSUME NEW i \in DOMAIN q, Own(q[i])', Own(x)', q[i].id = x.id, Alone(q[i].id)',
               ~IsOpen(q[i].status)
        PROVE  x.status = q[i].status
    <3>1. PICK event : event = q[i]
      OBVIOUS
    <3>2. Own(event) /\ event.id \in OrderIds /\ Known(event.id)
      BY <3>1, <1>4, <2>3
    <3>3. PICK id : id = event.id
      OBVIOUS
    <3>4. Alone(id)
      <4>1. id \in OrderIds /\ Known(id) /\ Alone(id)'
        BY <3>1, <3>2, <3>3, <2>3
      <4> QED BY <4>1, AloneBefore
    <3>5. Own(x)
      BY <2>2, <2>3, OwnBefore
    <3>6. Faithful(event) /\ event.kind = "Status"
      BY <3>1, <3>2, <1>2 DEF Own
    <3>7. PICK v \in BrokerIds : Source(event, v)
      BY <3>6 DEF Faithful
    <3>8. Linked(v) /\ worker.engineOf[v] = id
      BY <3>2, <3>3, <3>4, <3>7, AloneSource
    <3>9. x.id = id
      BY <3>1, <3>3, <2>3
    <3>10. Linked(w) /\ worker.engineOf[w] = id
      BY <3>4, <3>5, <3>9, <2>1, AloneSource
    <3>11. v = w
      BY <3>8, <3>10 DEF Once
    <3> QED BY <3>1, <3>7, <3>11, <2>1, <2>3 DEF Source
  <2> QED BY <2>1, <2>2, <2>3, <1>8
<1> QED BY <1>1, <1>6, <1>7, <1>9, <1>10, EventsStep

(* None is under way at startup.                                           *)
LEMMA StartsWithSnapshots == Init => SnapshotsOK
BY DEF Init, SnapshotsOK, Ending
---------------------------------------------------------------------------
(* A snapshot that is not ignored is booked, and has a source.             *)
LEMMA AppliedIsOwn ==
    ASSUME RouterOK, SnapshotsOK, events # <<>>, NEW event, event = Head(events),
           event \in Snapshots, ~Ignored(event)
    PROVE  Own(event) /\ \E w \in BrokerIds : Source(event, w)
<1>1. 1 \in DOMAIN events /\ events[1] = event
  BY TailPlaces DEF RouterOK, Types
<1>2. event.kind = "Status"
  BY DEF Snapshots
<1>3. Own(event)
  BY <1>2 DEF Own, Ignored
<1> QED BY <1>1, <1>2, <1>3 DEF SnapshotsOK, Faithful

(* Fills applied are fills of the account.                                 *)
AppliedOnce ==
    \A id \in OrderIds :
        router.applied[id] # 0 =>
            Known(id) /\ \E w \in Feeding(id) : Abs(router.applied[id]) =< Abs(broker[w].filled)

(* What a step may do to the fill applied of an order.                     *)
LEMMA AppliedStep ==
    ASSUME RouterOK, [Next]_vars, NEW id \in OrderIds
    PROVE  \/ router'.applied[id] = router.applied[id]
           \/ /\ events # <<>> /\ Head(events) \in Snapshots /\ Head(events).id = id
              /\ ~Ignored(Head(events)) /\ router'.applied[id] = Head(events).filled
              /\ UNCHANGED <<worker, broker>>
<1>1. router \in Bookkeeping
  BY DEF RouterOK, Types
<1>2. CASE UNCHANGED router
  BY <1>2
<1>3. CASE \E i \in OrderIds : DispatchOne(i) \/ RetryElapses(i)
  BY <1>1, <1>3 DEF RetryElapses, DispatchOne, PassOver, Refuse, ConvertToMarketOnOpen, Submit,
                    ForwardCancel, ForwardUpdate, Bookkeeping
<1>4. CASE ApplySubmitted \/ ApplyInvalid \/ ApplySubmitFailed
  BY <1>4, AnswerOK
<1>5. CASE ApplyStatus
  <2>1. PICK event : event = Head(events)
    OBVIOUS
  <2>2. event \in Snapshots /\ events # <<>> /\ UNCHANGED <<worker, broker>>
    BY <1>5, <2>1, HeadEvent DEF ApplyStatus, Applying
  <2>3. \/ router' = router
        \/ ~Ignored(event) /\ router' = [router EXCEPT !.applied[event.id] = event.filled]
    BY <1>5, <2>1, StatusTurns
  <2>4. ASSUME ~Ignored(event), router' = [router EXCEPT !.applied[event.id] = event.filled]
        PROVE  \/ router'.applied[id] = router.applied[id]
               \/ event.id = id /\ router'.applied[id] = event.filled
    BY <2>4, <1>1 DEF Bookkeeping
  <2> QED BY <2>1, <2>2, <2>3, <2>4
<1> QED
  BY <1>1, <1>2, <1>3, <1>4, <1>5
  DEF Next, vars, BeginPass, HandleRequest, Accept, LoseAck, Reject, FailToSubmit, ServeCancel,
      ServeUpdate, Poll, BrokerFills, BrokerCloses, RingBell, Quote, Place, Cancel, Update,
      ApplyEvent

(* Every step applies a fill of the account, or none.                      *)
LEMMA NextKeepsApplied ==
    ASSUME RouterOK, RouterOK', OurOrders, OurAccount, SnapshotsOK, AppliedOnce, [Next]_vars
    PROVE  AppliedOnce'
<1> SUFFICES ASSUME NEW id \in OrderIds, router'.applied[id] # 0
             PROVE  Known(id)' /\ \E w \in Feeding(id)' :
                                     Abs(router'.applied[id]) =< Abs(broker'[w].filled)
  BY DEF AppliedOnce
<1>1. CASE router'.applied[id] = router.applied[id]
  <2>1. Known(id) /\ \E w \in Feeding(id) : Abs(router.applied[id]) =< Abs(broker[w].filled)
    BY <1>1 DEF AppliedOnce
  <2>2. PICK w \in Feeding(id) : Abs(router.applied[id]) =< Abs(broker[w].filled)
    BY <2>1
  <2>3. w \in Feeding(id)' /\ Known(id)'
    BY <2>1, <2>2, FeedingStays, SymbolStays
  <2>4. w \in DOMAIN broker /\ w \in DOMAIN broker'
    BY <2>2, <2>3 DEF Feeding
  <2>5. Abs(broker[w].filled) =< Abs(broker'[w].filled)
    BY <2>4, NextOnward DEF AccountOnward, Onward, OurAccount
  <2>6. PICK a, b, c : a = router.applied[id] /\ b = broker[w].filled /\ c = broker'[w].filled
    OBVIOUS
  <2>7. a \in Int /\ b \in Int /\ c \in Int
    BY <2>4, <2>6 DEF RouterOK, Types, Bookkeeping, BrokerOrder
  <2>8. Abs(a) =< Abs(c)
    BY <2>2, <2>5, <2>6, <2>7 DEF Abs
  <2> QED BY <1>1, <2>3, <2>6, <2>8
<1>2. ASSUME events # <<>>, Head(events) \in Snapshots, Head(events).id = id,
             ~Ignored(Head(events)), router'.applied[id] = Head(events).filled,
             UNCHANGED <<worker, broker>>
      PROVE  Known(id)' /\ \E w \in Feeding(id)' :
                              Abs(router'.applied[id]) =< Abs(broker'[w].filled)
  <2>1. PICK event : event = Head(events)
    OBVIOUS
  <2>2. Own(event) /\ event.id = id /\ \E w \in BrokerIds : Source(event, w)
    BY <2>1, <1>2, AppliedIsOwn
  <2>3. PICK w \in BrokerIds : Source(event, w)
    BY <2>2
  <2>4. w \in Feeding(id) /\ Known(id)
    BY <2>2, <2>3 DEF Feeding, Source, Own
  <2>5. w \in Feeding(id)' /\ Known(id)'
    BY <2>4, FeedingStays, SymbolStays
  <2>6. Abs(event.filled) =< Abs(broker'[w].filled)
    BY <2>3, <1>2 DEF Source
  <2> QED BY <2>1, <2>5, <2>6, <1>2
<1> QED BY <1>1, <1>2, AppliedStep

(* Nothing is applied at startup.                                          *)
LEMMA StartsWithNothingApplied == Init => AppliedOnce
BY DEF Init, AppliedOnce

(* What the engine and the account know of each other.                     *)
Reconciled ==
    RouterOK /\ OneInFlight /\ Once /\ OurOrders /\ OurAccount /\ SnapshotsOK

(* It holds at startup...                                                  *)
LEMMA StartsReconciled == Init => Reconciled
BY StartsOK, StartsWithNoneInFlight, StartsOnce, StartsWithOrders, StartsWithAccount,
   StartsWithSnapshots DEF Reconciled

(* ... and every step keeps it.                                            *)
LEMMA NextReconciled ==
    ASSUME Reconciled, [Next]_vars
    PROVE  Reconciled'
<1>1. RouterOK /\ OneInFlight /\ Once /\ OurOrders /\ OurAccount /\ SnapshotsOK
  BY DEF Reconciled
<1>2. RouterOK'
  BY <1>1, NextOK
<1>3. OneInFlight' /\ Once' /\ OurOrders' /\ OurAccount' /\ SnapshotsOK'
  BY <1>1, <1>2, NextKeepsFlight, NextKeepsOnce, NextKeepsOrders, NextKeepsAccount,
     NextKeepsSnapshots
<1> QED BY <1>2, <1>3 DEF Reconciled

(* Polled snapshots, repeated, late or cumulative, are applied once: the    *)
(* store counts as filled what the portfolio was given, and some order of  *)
(* the account that feeds the order filled at least that much, whatever    *)
(* answers were lost and however the adapter numbers its orders:           *)
(* apply_event, applied_filled and resolve_engine_order_id.                *)
THEOREM FillsAreAppliedOnce == Spec => []FillsAppliedOnce
<1>1. Reconciled /\ AppliedOnce /\ [Next]_vars => Reconciled' /\ AppliedOnce'
  BY NextReconciled, NextKeepsApplied DEF Reconciled
<1>2. Reconciled /\ AppliedOnce /\ FilledAsApplied => FillsAppliedOnce
  <2> SUFFICES ASSUME Reconciled, AppliedOnce, FilledAsApplied,
                      NEW id \in DOMAIN tm.orders \ ImportedIds, router.applied[id] # 0
               PROVE  \E w \in Feeding(id) : Abs(router.applied[id]) =< Abs(broker[w].filled)
    BY DEF FillsAppliedOnce
  <2>1. id \in OrderIds
    BY DEF Reconciled, RouterOK, StoreOK, IsStore
  <2> QED BY <2>1 DEF AppliedOnce
<1>3. Spec => []FilledAsApplied
  BY RouterFillsHold, PTL
<1> QED BY <1>1, <1>2, <1>3, StartsReconciled, StartsWithNothingApplied, PTL DEF Spec
---------------------------------------------------------------------------
(* Closed orders.  An order that is alone closed as the account closed it,  *)
(* and every snapshot under way of it says so; or it is Invalid, and        *)
(* neither in the account nor on its way there.                            *)
AsAtAccount(id, status) ==
    /\ \E w \in BrokerIds : /\ Linked(w) /\ worker.engineOf[w] = id
                            /\ broker[w].status = status
    /\ \A i \in DOMAIN events : Own(events[i]) /\ events[i].id = id => events[i].status = status

NotAtAccount(id) ==
    /\ \A w \in BrokerIds : Linked(w) => worker.engineOf[w] # id
    /\ Count(requests, SubmitsOf(id)) = 0

ClosedWell(id) ==
    Known(id) /\ Alone(id) =>
        LET status == tm.orders[id].status
        IN  ~IsOpen(status) => \/ AsAtAccount(id, status)
                               \/ status = "Invalid" /\ NotAtAccount(id)

AllClosedWell == \A id \in OrderIds : ClosedWell(id)

(* The submission being served is on its way.                              *)
LEMMA ServedCounts ==
    ASSUME RouterOK, Serving("Submit"), NEW id, id = Head(requests).id
    PROVE  Count(requests, SubmitsOf(id)) # 0
<1>1. PICK q, m : q = requests /\ m = Head(q)
  OBVIOUS
<1>2. q \in Seq(Request) /\ q # <<>> /\ m \in SubmitsOf(id)
  BY <1>1, HeadRequest DEF SubmitsOf
<1>3. /\ Tail(q) \in Seq(Request)
      /\ Count(Tail(q), SubmitsOf(id)) = Count(q, SubmitsOf(id)) - 1
  BY <1>1, <1>2, CountTail
<1>4. Count(Tail(q), SubmitsOf(id)) \in Nat /\ Count(q, SubmitsOf(id)) \in Nat
  BY <1>2, <1>3, CountType
<1> QED BY <1>1, <1>3, <1>4

(* So is the failure being applied; then nothing else of its order is.     *)
LEMMA FailureAlone ==
    ASSUME RouterOK, OneInFlight, Once, NEW id \in OrderIds, events # <<>>,
           Head(events) \in FailuresOf(id)
    PROVE  NotAtAccount(id)
<1>1. PICK q, e : q = requests /\ e = events
  OBVIOUS
<1>2. q \in Seq(Request) /\ e \in Seq(Event) /\ e # <<>>
  BY <1>1 DEF RouterOK, Types
<1>3. Head(e) \in FailuresOf(id) /\ Head(e) \in AnswersOf(id)
  BY <1>1 DEF FailuresOf, AnswersOf, Answers
<1>4. PICK r, a, f : /\ r = Count(q, SubmitsOf(id)) /\ a = Count(e, AnswersOf(id))
                     /\ f = Count(e, FailuresOf(id))
  OBVIOUS
<1>5. r \in Nat /\ a \in Nat /\ f \in Nat
  BY <1>2, <1>4, CountType
<1>6. a # 0 /\ f # 0
  <2>1. /\ Tail(e) \in Seq(Event)
        /\ Count(Tail(e), AnswersOf(id)) = a - 1
    BY <1>2, <1>3, <1>4, CountTail
  <2>2. Count(Tail(e), FailuresOf(id)) = f - 1
    BY <1>2, <1>3, <1>4, CountTail
  <2>3. Count(Tail(e), AnswersOf(id)) \in Nat /\ Count(Tail(e), FailuresOf(id)) \in Nat
    BY <2>1, CountType
  <2> QED BY <2>1, <2>2, <2>3, <1>5
<1>7. r + a =< 1
  <2>1. r + a =< IF id \in router.submitted THEN 1 ELSE 0
    BY <1>1, <1>4 DEF OneInFlight, AtMostOne, InFlight
  <2> QED BY <2>1, <1>5
<1>8. r = 0
  BY <1>5, <1>6, <1>7
<1>9. \A w \in BrokerIds : Linked(w) => worker.engineOf[w] # id
  BY <1>1, <1>4, <1>6 DEF Once, Taken
<1> QED BY <1>1, <1>4, <1>8, <1>9 DEF NotAtAccount

(* Nothing of an order that was not sent is at the account.                *)
LEMMA UnsentAlone ==
    ASSUME RouterOK, OneInFlight, Once, NEW id \in OrderIds, id \notin router.submitted
    PROVE  NotAtAccount(id)
<1>1. PICK r, a : r = Count(requests, SubmitsOf(id)) /\ a = Count(events, AnswersOf(id))
  OBVIOUS
<1>2. r \in Nat /\ a \in Nat /\ r + a =< 0
  BY <1>1 DEF OneInFlight, AtMostOne, InFlight
<1>3. r = 0
  BY <1>2
<1> QED BY <1>1, <1>3 DEF NotAtAccount, Once, Taken

(* What is not at the account is not reported.                             *)
LEMMA ReportedAsAtAccount ==
    ASSUME Reconciled, NEW id \in OrderIds, Alone(id), Reported(id), NEW status,
           status = tm'.orders[id].status, ~IsOpen(status)
    PROVE  AsAtAccount(id, status)
<1>1. RouterOK /\ SnapshotsOK
  BY DEF Reconciled
<1>2. PICK q, event : q = events /\ event = Head(q)
  OBVIOUS
<1>3. /\ q # <<>> /\ event \in Snapshots /\ event.id = id /\ ~Ignored(event)
      /\ status = event.status
  BY <1>2 DEF Reported
<1>4. Own(event) /\ \E w \in BrokerIds : Source(event, w)
  BY <1>1, <1>2, <1>3, AppliedIsOwn
<1>5. \E w \in BrokerIds : Linked(w) /\ worker.engineOf[w] = id /\ broker[w].status = status
  <2>1. PICK w \in BrokerIds : Source(event, w)
    BY <1>4
  <2>2. Linked(w) /\ worker.engineOf[w] = id
    BY <2>1, <1>3, <1>4, AloneSource
  <2> QED BY <2>1, <2>2, <1>3 DEF Source
<1>6. ASSUME NEW i \in DOMAIN q, Own(q[i]), q[i].id = id PROVE q[i].status = status
  <2>1. q \in Seq(Event)
    BY <1>1, <1>2 DEF RouterOK, Types
  <2>2. q[1] = event /\ 1 \in DOMAIN q /\ (i = 1 \/ 1 < i)
    BY <2>1, <1>2, <1>3
  <2>3. Ending(q)
    BY <1>1, <1>2 DEF SnapshotsOK
  <2> QED BY <2>2, <2>3, <1>3, <1>4, <1>6 DEF Ending
<1> QED BY <1>2, <1>5, <1>6 DEF AsAtAccount

(* A closed order that is alone keeps its status.                          *)
LEMMA ClosedKeepsStatus ==
    ASSUME Reconciled, AllClosedWell, [Next]_vars, NEW id \in OrderIds,
           Known(id), Alone(id), ~IsOpen(tm.orders[id].status)
    PROVE  Known(id)' /\ tm'.orders[id].status = tm.orders[id].status
<1>1. RouterOK /\ OneInFlight /\ Once /\ OurOrders /\ SnapshotsOK
  BY DEF Reconciled
<1>2. PICK status : status = tm.orders[id].status
  OBVIOUS
<1>3. AsAtAccount(id, status) \/ (status = "Invalid" /\ NotAtAccount(id))
  BY <1>2 DEF AllClosedWell, ClosedWell
<1>4. id \in DOMAIN tm'.orders
  BY <1>1, SymbolStays DEF Known
<1>5. CASE Failed(id)
  <2>1. NotAtAccount(id)
    BY <1>1, <1>5, FailureAlone DEF Failed
  <2>2. status = "Invalid"
    BY <2>1, <1>3 DEF AsAtAccount, NotAtAccount
  <2> QED BY <2>2, <1>2, <1>4, <1>5 DEF Failed, Known
<1>6. CASE Reported(id)
  <2>1. PICK q, event : q = events /\ event = Head(q)
    OBVIOUS
  <2>2. /\ q # <<>> /\ event \in Snapshots /\ event.id = id /\ ~Ignored(event)
        /\ tm'.orders[id].status = event.status
    BY <2>1, <1>6 DEF Reported
  <2>3. Own(event) /\ \E w \in BrokerIds : Source(event, w)
    BY <1>1, <2>1, <2>2, AppliedIsOwn
  <2>4. \E w \in BrokerIds : Linked(w) /\ worker.engineOf[w] = id
    BY <2>2, <2>3, AloneSource
  <2>5. 1 \in DOMAIN q /\ q[1] = event
    BY <1>1, <2>1, <2>2, TailPlaces DEF RouterOK, Types
  <2>6. event.status = status
    BY <2>1, <2>2, <2>3, <2>4, <2>5, <1>3 DEF AsAtAccount, NotAtAccount
  <2> QED BY <2>2, <2>6, <1>2, <1>4 DEF Known
<1>7. OrderStep(id)
  BY <1>1, NextOrderStep
<1> QED BY <1>4, <1>5, <1>6, <1>7
        DEF OrderStep, SameStatus, Placed, RefusedUnsent, TurnedOpen, IsNew, IsOpen, Known

(* What is as at the account stays so.                                     *)
LEMMA AsAtAccountStays ==
    ASSUME Reconciled, Reconciled', [Next]_vars, NEW id \in OrderIds, Known(id), Alone(id),
           NEW status, ~IsOpen(status), AsAtAccount(id, status)
    PROVE  AsAtAccount(id, status)'
<1>1. RouterOK /\ OurOrders /\ OurAccount /\ Once /\ SnapshotsOK
  BY DEF Reconciled
<1>2. PICK w \in BrokerIds : /\ Linked(w) /\ worker.engineOf[w] = id
                             /\ broker[w].status = status
  BY DEF AsAtAccount
<1>3. /\ Linked(w)' /\ worker'.engineOf[w] = worker.engineOf[w]
      /\ broker'[w].status = status
  <2>1. w \in DOMAIN broker /\ LinksOnward
    BY <1>1, <1>2, NextLinksOnward DEF RouterOK, Types, Linked
  <2>2. broker'[w].status = status
    BY <2>1, <1>1, <1>2, NextOnward DEF AccountOnward, Onward
  <2> QED BY <2>1, <2>2, <1>2 DEF LinksOnward, Linked
<1>4. PICK q, r : q = events /\ r = events'
  OBVIOUS
<1>5. /\ q \in Seq(Event)
      /\ \A i \in DOMAIN q : /\ q[i] \in Event /\ Faithful(q[i])
                             /\ Own(q[i]) /\ q[i].id = id => q[i].status = status
  BY <1>1, <1>4 DEF AsAtAccount, RouterOK, Types, SnapshotsOK
<1> DEFINE Told == \A i \in DOMAIN r : Own(r[i])' /\ r[i].id = id => r[i].status = status
<1>6. ASSUME NEW i \in DOMAIN q, Own(q[i])', q[i].id = id PROVE q[i].status = status
  <2>1. PICK event : event = q[i]
    OBVIOUS
  <2>2. event \in Event /\ Faithful(event) /\ Own(event)'
    BY <2>1, <1>5, <1>6
  <2>3. Own(event)
    BY <2>2, <1>1, OwnBefore
  <2> QED BY <2>1, <2>3, <1>5, <1>6
<1>7. ASSUME r = q PROVE Told
  BY <1>6, <1>7
<1>8. ASSUME q # <<>>, r = Tail(q) PROVE Told
  <2>1. \A i \in DOMAIN r : i + 1 \in DOMAIN q /\ r[i] = q[i + 1]
    BY <1>5, <1>8, TailPlaces
  <2> QED BY <2>1, <1>6
<1>9. ASSUME NEW x \in Event, r = Append(q, x), Own(x)' /\ x.id = id => x.status = status
      PROVE  Told
  <2>1. /\ Len(q) \in Nat /\ DOMAIN q = 1..Len(q) /\ DOMAIN r = 1..(Len(q) + 1)
        /\ \A i \in DOMAIN q : r[i] = q[i]
        /\ r[Len(q) + 1] = x
    BY <1>5, <1>9, AppendPlaces
  <2> SUFFICES ASSUME NEW i \in DOMAIN r, Own(r[i])', r[i].id = id PROVE r[i].status = status
    OBVIOUS
  <2>2. CASE i \in DOMAIN q
    BY <2>1, <2>2, <1>6
  <2>3. CASE i = Len(q) + 1
    BY <2>1, <2>3, <1>9
  <2> QED BY <2>1, <2>2, <2>3
<1>10. ASSUME NEW x \in Event, x.kind # "Status", r = Append(q, x) PROVE Told
  <2>1. ~Own(x)'
    BY <1>10 DEF Own
  <2> QED BY <2>1, <1>9, <1>10
<1>11. ASSUME NEW v \in BrokerIds, Poll(v) PROVE Told
  <2>1. PICK x \in Event : r = Append(q, x) /\ Source(x, v) /\ x.status = broker[v].status
    BY <1>1, <1>4, <1>11, PolledFaithful
  <2>2. ASSUME Own(x)', x.id = id PROVE x.status = status
    <3>1. Own(x)
      <4>1. Faithful(x)
        BY <2>1 DEF Faithful
      <4> QED BY <4>1, <2>2, <1>1, OwnBefore
    <3>2. Linked(v) /\ worker.engineOf[v] = id
      BY <3>1, <2>1, <2>2, AloneSource
    <3>3. v = w
      BY <3>2, <1>1, <1>2 DEF Once
    <3> QED BY <3>3, <2>1, <1>2
  <2> QED BY <2>1, <2>2, <1>9
<1>12. Told
  <2> HIDE DEF Told
  <2> QED BY <1>1, <1>4, <1>7, <1>8, <1>10, <1>11, EventsStep
<1> QED BY <1>2, <1>3, <1>4, <1>12 DEF AsAtAccount

(* So does what is not there, unless it is sent.                           *)
LEMMA NotAtAccountStays ==
    ASSUME RouterOK, RouterOK', [Next]_vars, NEW id \in OrderIds, NotAtAccount(id), ~IsNew(id)
    PROVE  NotAtAccount(id)'
<1>1. \A w \in BrokerIds : Linked(w)' => worker'.engineOf[w] # id
  <2>1. CASE worker'.engineOf = worker.engineOf
    BY <2>1 DEF NotAtAccount, Linked
  <2>2. ASSUME NEW w \in BrokerIds, Accept(w)
        PROVE  \A v \in BrokerIds : Linked(v)' => worker'.engineOf[v] # id
    <3>1. PICK new : new = Head(requests).id
      OBVIOUS
    <3>2. /\ DOMAIN worker'.engineOf = DOMAIN worker.engineOf \cup {w}
          /\ worker'.engineOf[w] = new
          /\ \A v \in DOMAIN worker.engineOf : worker'.engineOf[v] = worker.engineOf[v]
      BY <2>2, <3>1, AcceptLinks
    <3>3. new # id
      BY <2>2, <3>1, ServedCounts DEF Accept, NotAtAccount
    <3> QED BY <3>2, <3>3 DEF NotAtAccount, Linked
  <2> QED BY <2>1, <2>2, AccountStep
<1>2. Count(requests, SubmitsOf(id))' = 0
  <2>1. PICK r, r1 : r = Count(requests, SubmitsOf(id)) /\ r1 = Count(requests, SubmitsOf(id))'
    OBVIOUS
  <2>2. r = 0 /\ r1 \in Nat
    <3>1. requests' \in Seq(Request)
      BY DEF RouterOK, Types
    <3>2. Count(requests', SubmitsOf(id)) \in Nat
      BY <3>1, CountType
    <3> QED BY <3>2, <2>1 DEF NotAtAccount
  <2>3. r1 =< r
    <3>1. \/ r1 =< r
          \/ IsNew(id)
      BY <2>1, NextQueueStep DEF QueueStep
    <3> QED BY <3>1
  <2> QED BY <2>1, <2>2, <2>3
<1> QED BY <1>1, <1>2 DEF NotAtAccount

(* Closed orders stay well closed, and what closes is.                     *)
LEMMA NextKeepsClosed ==
    ASSUME Reconciled, Reconciled', AllClosedWell, [Next]_vars
    PROVE  AllClosedWell'
<1>1. RouterOK /\ RouterOK' /\ OneInFlight /\ Once /\ OurOrders
  BY DEF Reconciled
<1> SUFFICES ASSUME NEW id \in OrderIds, Known(id)', Alone(id)',
                    NEW status, status = tm'.orders[id].status, ~IsOpen(status)
             PROVE  AsAtAccount(id, status)' \/ (status = "Invalid" /\ NotAtAccount(id)')
  BY DEF AllClosedWell, ClosedWell
<1>2. OrderStep(id)
  BY <1>1, NextOrderStep
<1>3. Known(id)
  BY <1>2 DEF OrderStep, SameStatus, Placed, RefusedUnsent, TurnedOpen, IsNew, Failed,
              Reported, IsOpen
<1>4. Alone(id)
  BY <1>1, <1>3, AloneBefore
<1>5. CASE ~IsOpen(tm.orders[id].status)
  <2>1. status = tm.orders[id].status
    BY <1>3, <1>4, <1>5, ClosedKeepsStatus
  <2>2. AsAtAccount(id, status) \/ (status = "Invalid" /\ NotAtAccount(id))
    BY <1>3, <1>4, <2>1 DEF AllClosedWell, ClosedWell
  <2>3. ~IsNew(id)
    BY <1>5 DEF IsNew, IsOpen
  <2> QED BY <1>1, <1>3, <1>4, <2>2, <2>3, AsAtAccountStays, NotAtAccountStays
<1>6. CASE IsOpen(tm.orders[id].status)
  <2>1. RefusedUnsent(id) \/ Failed(id) \/ Reported(id)
    BY <1>2, <1>3, <1>6 DEF OrderStep, SameStatus, Placed, TurnedOpen, Known, IsOpen
  <2>2. CASE RefusedUnsent(id)
    <3>1. NotAtAccount(id) /\ status = "Invalid"
      BY <1>1, <2>2, UnsentAlone DEF RefusedUnsent
    <3>2. UNCHANGED <<requests, worker>>
      BY <2>2 DEF RefusedUnsent
    <3> QED BY <3>1, <3>2 DEF NotAtAccount, Linked
  <2>3. CASE Failed(id)
    <3>1. NotAtAccount(id) /\ status = "Invalid"
      BY <1>1, <2>3, FailureAlone DEF Failed
    <3>2. UNCHANGED <<requests, worker>>
      BY <2>3 DEF Failed
    <3> QED BY <3>1, <3>2 DEF NotAtAccount, Linked
  <2>4. CASE Reported(id)
    <3>1. AsAtAccount(id, status)
      BY <1>4, <2>4, ReportedAsAtAccount
    <3> QED BY <3>1, <1>3, <1>4, AsAtAccountStays
  <2> QED BY <2>1, <2>2, <2>3, <2>4
<1> QED BY <1>5, <1>6

(* No order is closed at startup.                                          *)
LEMMA StartsWithNoneClosed == Init => AllClosedWell
<1> SUFFICES ASSUME Init, NEW id \in DOMAIN tm.orders PROVE IsOpen(tm.orders[id].status)
  BY DEF AllClosedWell, ClosedWell, Known
<1>1. tm = StartupStore /\ id \in ImportedIds
  BY StartupOK DEF Init
<1>2. PICK w : w = CHOOSE v \in Imported : AccountOrders[v].number = id
  OBVIOUS
<1>3. w \in Imported
  BY <1>1, <1>2 DEF ImportedIds
<1>4. tm.orders[id] = ImportedOrder(w)
  BY <1>1, <1>2 DEF StartupStore, EmptyStore
<1> QED BY <1>3, <1>4 DEF Imported, ImportedOrder

(* It all holds in every run.                                              *)
LEMMA ClosedWellThroughout == Spec => [](Reconciled /\ AllClosedWell)
<1>1. Init => Reconciled /\ AllClosedWell
  BY StartsReconciled, StartsWithNoneClosed
<1>2. Reconciled /\ AllClosedWell /\ [Next]_vars => Reconciled' /\ AllClosedWell'
  BY NextReconciled, NextKeepsClosed
<1> QED BY <1>1, <1>2, PTL DEF Spec

(* A closed order that no other order of the account feeds stays as it      *)
(* closed: no late answer, stale snapshot or retry revives it or closes it  *)
(* another way (apply_event, dispatch_pending).                            *)
THEOREM ClosedOrdersStayClosed == Spec => ClosedWhileAlone
<1>1. Reconciled /\ AllClosedWell /\ [Next]_vars =>
          [\A id \in DOMAIN tm.orders :
              ~IsOpen(tm.orders[id].status) /\ Alone(id)' =>
                  tm'.orders[id].status = tm.orders[id].status]_vars
  <2> SUFFICES ASSUME Reconciled, AllClosedWell, [Next]_vars, NEW id \in DOMAIN tm.orders,
                      ~IsOpen(tm.orders[id].status), Alone(id)'
               PROVE  tm'.orders[id].status = tm.orders[id].status
    OBVIOUS
  <2>1. id \in OrderIds /\ Known(id) /\ RouterOK
    BY DEF Reconciled, RouterOK, StoreOK, IsStore, Known
  <2>2. Alone(id)
    BY <2>1, AloneBefore
  <2> QED BY <2>1, <2>2, ClosedKeepsStatus
<1> QED BY <1>1, ClosedWellThroughout, PTL DEF Spec, ClosedWhileAlone
---------------------------------------------------------------------------
(* Orders that nothing else can feed: no answer is lost, and no order that  *)
(* the account lists at startup under the number of an engine order has a  *)
(* symbol the algorithm may place under that id.                           *)
NoNamesake ==
    \A w \in DOMAIN AccountOrders :
        LET number == AccountOrders[w].number
        IN  number # 0 => number \in ImportedIds \/ ~Mine(number, AccountOrders[w].symbol)

Listed ==
    /\ \A id \in DOMAIN tm.orders \ ImportedIds : Mine(id, tm.orders[id].symbol)
    /\ \A w \in DOMAIN AccountOrders :
          /\ w \in DOMAIN broker
          /\ broker[w].number = AccountOrders[w].number
          /\ broker[w].symbol = AccountOrders[w].symbol

(* The orders of both sides keep what they are listed under.               *)
LEMMA NextKeepsListed ==
    ASSUME RouterOK, RouterOK', Listed, [Next]_vars
    PROVE  Listed'
<1>1. ASSUME NEW id \in DOMAIN tm'.orders \ ImportedIds PROVE Mine(id, tm'.orders[id].symbol)
  <2>1. id \in OrderIds
    BY DEF RouterOK, StoreOK, IsStore
  <2>2. Known(id) \/ Placed(id)
    BY <2>1, NextOrderStep
    DEF OrderStep, SameStatus, RefusedUnsent, TurnedOpen, IsNew, Failed, Reported, Known
  <2>3. CASE Known(id)
    BY <2>3, SymbolStays DEF Listed, Known
  <2> QED BY <2>2, <2>3 DEF Placed
<1>2. ASSUME NEW w \in DOMAIN AccountOrders
      PROVE  /\ w \in DOMAIN broker'
             /\ broker'[w].number = AccountOrders[w].number
             /\ broker'[w].symbol = AccountOrders[w].symbol
  BY NextOnward DEF AccountOnward, Onward, Listed
<1> QED BY <1>1, <1>2 DEF Listed

(* Then every order is alone.                                              *)
LEMMA AllAlone ==
    ASSUME NoNamesake, Reconciled, AllLinked, Listed, NEW id \in OrderIds, Known(id)
    PROVE  Alone(id)
<1> SUFFICES ASSUME NEW w \in Feeding(id), w \notin DOMAIN worker.engineOf PROVE FALSE
  BY DEF Alone
<1>1. w \in DOMAIN broker /\ Resolve(w) = id /\ broker[w].symbol = tm.orders[id].symbol
  BY DEF Feeding
<1>2. RouterOK /\ OurOrders /\ Once
  BY DEF Reconciled
<1>3. id # 0 /\ id \in DOMAIN tm.orders \ ImportedIds
  BY <1>1, <1>2, OrderIdsArePositive, ResolvedKnown
<1>4. broker[w].number = id
  BY <1>1, <1>3 DEF Resolve
<1>5. w \in DOMAIN AccountOrders
  BY <1>1, <1>2 DEF AllLinked, Engine, Linked, RouterOK, Types
<1> QED BY <1>1, <1>3, <1>4, <1>5 DEF Listed, NoNamesake

(* So where no answer is lost and no old order passes for one of the        *)
(* engine's, every closed order stays as it closed.                        *)
THEOREM ClosedOrdersStayClosedUnshared == ~LostAcks /\ NoNamesake => (Spec => ClosedForGood)
<1> SUFFICES ASSUME ~LostAcks, NoNamesake PROVE Spec => ClosedForGood
  OBVIOUS
<1>1. Init => AllLinked /\ Listed
  <2>1. Init => Listed
    BY StartupOK DEF Init, Listed
  <2> QED BY <2>1, StartsOnce
<1>2. AllLinked /\ Listed /\ Reconciled /\ Reconciled' /\ [Next]_vars => AllLinked' /\ Listed'
  BY NextKeepsLinked, NextKeepsListed DEF Reconciled
<1>3. Reconciled /\ AllClosedWell /\ AllLinked /\ Listed /\ [Next]_vars =>
          [\A id \in DOMAIN tm.orders :
              ~IsOpen(tm.orders[id].status) => tm'.orders[id].status = tm.orders[id].status]_vars
  <2> SUFFICES ASSUME Reconciled, AllClosedWell, AllLinked, Listed, [Next]_vars,
                      NEW id \in DOMAIN tm.orders, ~IsOpen(tm.orders[id].status)
               PROVE  tm'.orders[id].status = tm.orders[id].status
    OBVIOUS
  <2>1. id \in OrderIds /\ Known(id)
    BY DEF Reconciled, RouterOK, StoreOK, IsStore, Known
  <2>2. Alone(id)
    BY <2>1, AllAlone
  <2> QED BY <2>1, <2>2, ClosedKeepsStatus
<1> QED BY <1>1, <1>2, <1>3, ClosedWellThroughout, PTL DEF Spec, ClosedForGood
=============================================================================
