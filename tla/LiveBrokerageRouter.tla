------------------------- MODULE LiveBrokerageRouter -------------------------
(***************************************************************************)
(* Live order routing.  The live loop (one thread) runs the algorithm,     *)
(* dispatches open orders as requests and applies the worker's events; the *)
(* worker (another thread) owns the brokerage, serves the requests in      *)
(* order and polls the account.  The two share the request and the event   *)
(* queue only.  The brokerage itself is part of the environment.           *)
(*                                                                         *)
(* Left out: fees, prices and cash amounts; logging.                       *)
(***************************************************************************)
EXTENDS OrderStore, Sequences, Functions

CONSTANTS
    Menu,            \* what the algorithm may place under each id: [symbol, quantity, marketOnOpen]
    InitialHoldings, \* quantity held of each symbol at startup
    AccountOrders,   \* orders in the brokerage account at startup
    Numbering,       \* numbers the adapter may give the account's order of each engine order
    Unpriced,        \* symbols that have no price at startup
    CashAccount,     \* BOOLEAN: brokerage_model.account_type = Cash
    Futures,         \* symbols that trade extended hours
    Retries,         \* Len(submit_backoff)
    LostAcks,        \* BOOLEAN: the answer to a submission that was accepted may be lost
    AlgorithmCancels,\* BOOLEAN: the algorithm cancels orders
    BrokerCancels,   \* BOOLEAN: the brokerage may cancel or reject what it has accepted
    MaxUpdates,      \* bound: updates of an order
    MaxBells,        \* bound: openings and closings of the exchange; it ends open
    MaxEvents        \* bound: length of the event queue

VARIABLES
    tm,        \* the TransactionManager's store
    holdings,  \* the portfolio's quantity of each symbol
    router,    \* LiveBrokerageRouter's bookkeeping
    pass,      \* the dispatch pass under way: the open orders it has still to visit
    requests,  \* channel from the loop to the worker
    events,    \* channel from the worker to the loop
    worker,    \* run_worker's maps
    broker,    \* the account's orders, by brokerage id
    market,    \* exchange bells rung so far, and the symbols that have a price
    submits    \* history: submissions sent, by order

vars == <<tm, holdings, router, pass, requests, events, worker, broker, market, submits>>

ASSUME OrderIdsArePositive == OrderIds \subseteq Nat \ {0}
ASSUME MenuAssumption ==
    Menu \in [OrderIds -> SUBSET [symbol : Symbols, quantity : Int, marketOnOpen : BOOLEAN]]
ASSUME HoldingsAssumption == InitialHoldings \in [Symbols -> Int] /\ Unpriced \subseteq Symbols
ASSUME BoundsAssumption ==
    /\ Retries \in Nat /\ MaxUpdates \in Nat /\ MaxBells \in Nat /\ MaxEvents \in Nat \ {0}
    /\ {CashAccount, LostAcks, AlgorithmCancels, BrokerCancels} \subseteq BOOLEAN

(* An order as the account reports it.  `number` is the adapter's numeric  *)
(* id for it when that is an engine order id, else 0.                      *)
BrokerStatus == {"Submitted", "PartiallyFilled", "Filled", "Canceled", "Invalid", "CancelPending"}
BrokerOrder  == [symbol : Symbols, quantity : Int, filled : Int, status : BrokerStatus,
                 number : OrderIds \cup {0}]

ASSUME AccountAssumption ==
    /\ DOMAIN AccountOrders \subseteq BrokerIds
    /\ AccountOrders \in [DOMAIN AccountOrders -> BrokerOrder]
    /\ \A w \in DOMAIN AccountOrders :
          LET order == AccountOrders[w]
          IN  order.filled \in 0..order.quantity \cup order.quantity..0
ASSUME NumberingAssumption ==
    Numbering \in [OrderIds -> (SUBSET (OrderIds \cup {0})) \ {{}}]

Working(order) == order.status \in {"Submitted", "PartiallyFilled", "CancelPending"}

Request == [kind : {"Submit", "Cancel", "Update"}, id : OrderIds, order : Order]
Event ==
    [kind : {"Submitted"}, id : OrderIds, brokerageIds : SUBSET BrokerIds]
    \cup [kind : {"Invalid", "SubmitFailed"}, id : OrderIds]
    \cup [kind : {"Status"}, id : OrderIds, symbol : Symbols, status : BrokerStatus, filled : Int]

---------------------------------------------------------------------------
(* startup_account_sync: the account's open orders enter the store under   *)
(* the adapter's number.                                                   *)
Imported == {w \in DOMAIN AccountOrders : /\ AccountOrders[w].number # 0
                                          /\ IsOpen(AccountOrders[w].status)}

ImportedOrder(w) ==
    [symbol |-> AccountOrders[w].symbol, quantity |-> AccountOrders[w].quantity,
     filled |-> AccountOrders[w].filled, status |-> AccountOrders[w].status,
     marketOnOpen |-> FALSE, brokerageIds |-> {w}, terms |-> 0]

ImportedIds == {AccountOrders[w].number : w \in Imported}

StartupStore ==
    LET orders == [id \in ImportedIds |->
                      ImportedOrder(CHOOSE w \in Imported : AccountOrders[w].number = id)]
    IN  [EmptyStore EXCEPT !.orders = orders, !.tickets = orders,
                           !.openIds = ImportedIds, !.openCount = Cardinality(ImportedIds)]

Init ==
    /\ tm = StartupStore
    /\ holdings = InitialHoldings
    /\ router = [submitted       |-> {},  \* submitted_ids
                 cancelForwarded |-> {},
                 updateForwarded |-> {},
                 applied         |-> [id \in OrderIds |-> 0],  \* applied_filled
                 attempts        |-> [id \in OrderIds |-> 0],  \* submit_attempts
                 waiting         |-> {}]  \* retry_not_before lies ahead
    /\ pass = [left |-> {}, deferring |-> FALSE]
    /\ requests = <<>>
    /\ events = <<>>
    /\ worker = [engineOf |-> [w \in {} |-> 0],  \* brokerage_to_engine
                 tracked  |-> [id \in OrderIds |-> [status |-> "Unseen", filled |-> 0]]]
    /\ broker = AccountOrders
    /\ market = [bells |-> 0, priced |-> Symbols \ Unpriced]
    /\ submits = [id \in OrderIds |-> 0]

---------------------------------------------------------------------------
(* The algorithm, between two iterations of the loop's order service.      *)
LoopIdle == pass.left = {}

(* QcAlgorithm.submit_order with the next id of its counter.               *)
Place(id, item) ==
    /\ LoopIdle
    /\ id \notin DOMAIN tm.orders
    /\ \A other \in OrderIds \ DOMAIN tm.orders : id =< other
    /\ tm' = AddOrder(tm, id,
                 [symbol |-> item.symbol, quantity |-> item.quantity, filled |-> 0,
                  status |-> "New", marketOnOpen |-> item.marketOnOpen,
                  brokerageIds |-> {}, terms |-> 0])
    /\ UNCHANGED <<holdings, router, pass, requests, events, worker, broker, market, submits>>

Cancel(id) ==
    /\ LoopIdle
    /\ AlgorithmCancels
    /\ CanRequestCancel(tm, id)
    /\ tm.orders[id].status # "CancelPending"   \* asking again changes nothing
    /\ tm' = RequestCancelOrder(tm, id)
    /\ UNCHANGED <<holdings, router, pass, requests, events, worker, broker, market, submits>>

Update(id) ==
    /\ LoopIdle
    /\ CanRequestUpdate(tm, id)
    /\ tm.orders[id].terms < MaxUpdates
    /\ tm' = RequestUpdateOrder(tm, id, tm.orders[id].quantity)
    /\ UNCHANGED <<holdings, router, pass, requests, events, worker, broker, market, submits>>

---------------------------------------------------------------------------
(* dispatch_pending.  A pass takes a snapshot of the open orders and       *)
(* visits them one by one, reductions first; the clock is read once, at    *)
(* its start.                                                              *)
Abs(n) == IF n >= 0 THEN n ELSE -n

(* order_reduces_position                                                  *)
Reduces(id) ==
    LET held == holdings[tm.orders[id].symbol]
        left == Remaining(tm.orders[id])
    IN  /\ (held > 0 /\ left < 0) \/ (held < 0 /\ left > 0)
        /\ Abs(held + left) < Abs(held)

BeginPass ==
    /\ LoopIdle
    /\ events = <<>>          \* drain_events has run until the channel was empty
    /\ tm.openIds # {}
    /\ pass' = [left      |-> tm.openIds,
                deferring |-> CashAccount /\ \E id \in tm.openIds : Reduces(id)]
    /\ UNCHANGED <<tm, holdings, router, requests, events, worker, broker, market, submits>>

Before(a, b) == \/ Reduces(a) /\ ~Reduces(b)
                \/ (Reduces(a) <=> Reduces(b)) /\ a < b

(* The pass comes to order id and is done with it.                         *)
Visit(id) ==
    /\ id \in pass.left
    /\ \A other \in pass.left \ {id} : Before(id, other)
    /\ pass' = [left |-> pass.left \ {id}, deferring |-> pass.deferring /\ pass.left # {id}]

(* Fault: expansions are not held back.                                    *)
NeverDeferred(id) == FALSE

Deferred(id) == pass.deferring /\ ~Reduces(id)

(* Fault: submitted_ids is not consulted.                                  *)
DueAlthoughSubmitted(id) ==
    /\ ~Deferred(id)
    /\ tm.orders[id].status = "New"
    /\ id \notin router.waiting

Due(id) ==
    /\ ~Deferred(id)
    /\ tm.orders[id].status = "New"
    /\ id \notin router.submitted
    /\ id \notin router.waiting

HeldForPrice(id) == Reduces(id) /\ tm.orders[id].symbol \notin market.priced

ExchangeOpen == (MaxBells - market.bells) % 2 = 0

HeldForOpen(id) == tm.orders[id].marketOnOpen /\ ~ExchangeOpen

(* The market closed after an attempt failed.                              *)
ClosedBeforeRetry(id) ==
    /\ ~tm.orders[id].marketOnOpen
    /\ ~ExchangeOpen
    /\ tm.orders[id].symbol \notin Futures
    /\ router.attempts[id] > 0

CancelUnsent(id) ==
    /\ ~Deferred(id)
    /\ tm.orders[id].status = "CancelPending"
    /\ tm.orders[id].brokerageIds # {}
    /\ id \notin router.cancelForwarded

UpdateUnsent(id) ==
    /\ ~Deferred(id)
    /\ tm.orders[id].status = "UpdateSubmitted"
    /\ tm.orders[id].brokerageIds # {}
    /\ id \notin router.updateForwarded

(* Nothing to do for the order in this pass.                               *)
PassOver(id) ==
    /\ Visit(id)
    /\ ~CancelUnsent(id) /\ ~UpdateUnsent(id)
    /\ Due(id) => HeldForPrice(id) \/ HeldForOpen(id)
    /\ UNCHANGED <<tm, holdings, router, requests, events, worker, broker, market, submits>>

(* validate_order_submission_buying_power fails.                           *)
Refuse(id) ==
    /\ Visit(id)
    /\ Due(id) /\ ~HeldForPrice(id)
    /\ tm' = ProcessOrderEvent(tm, [orderId |-> id, status |-> "Invalid", fillQuantity |-> 0])
    /\ UNCHANGED <<holdings, router, requests, events, worker, broker, market, submits>>

(* dispatch_new_order                                                      *)
ConvertToMarketOnOpen(id) ==
    /\ Visit(id)
    /\ Due(id) /\ ~HeldForPrice(id)
    /\ ClosedBeforeRetry(id)
    /\ tm' = AddOrUpdateOrder(tm, id, [tm.orders[id] EXCEPT !.marketOnOpen = TRUE])
    /\ router' = [router EXCEPT !.attempts[id] = 0, !.waiting = @ \ {id}]
    /\ UNCHANGED <<holdings, requests, events, worker, broker, market, submits>>

Submit(id) ==
    /\ Visit(id)
    /\ Due(id) /\ ~HeldForPrice(id)
    /\ ~HeldForOpen(id) /\ ~ClosedBeforeRetry(id)
    /\ router' = [router EXCEPT !.submitted    = @ \cup {id},
                                !.waiting      = @ \ {id},
                                !.attempts[id] = @ + 1]
    /\ requests' = Append(requests, [kind |-> "Submit", id |-> id,
                                     order |-> [tm.orders[id] EXCEPT !.marketOnOpen = FALSE]])
    /\ submits' = [submits EXCEPT ![id] = @ + 1]
    /\ UNCHANGED <<tm, holdings, events, worker, broker, market>>

ForwardCancel(id) ==
    /\ Visit(id)
    /\ CancelUnsent(id)
    /\ router' = [router EXCEPT !.cancelForwarded = @ \cup {id}]
    /\ requests' = Append(requests, [kind |-> "Cancel", id |-> id, order |-> tm.orders[id]])
    /\ UNCHANGED <<tm, holdings, events, worker, broker, market, submits>>

ForwardUpdate(id) ==
    /\ Visit(id)
    /\ UpdateUnsent(id)
    /\ router' = [router EXCEPT !.updateForwarded = @ \cup {id}]
    /\ requests' = Append(requests, [kind |-> "Update", id |-> id, order |-> tm.orders[id]])
    /\ UNCHANGED <<tm, holdings, events, worker, broker, market, submits>>

DispatchOne(id) ==
    \/ PassOver(id) \/ Refuse(id) \/ ConvertToMarketOnOpen(id)
    \/ Submit(id) \/ ForwardCancel(id) \/ ForwardUpdate(id)

---------------------------------------------------------------------------
(* The worker: run_worker serves the request at the head of its channel.   *)
Serving(kind) == requests # <<>> /\ Head(requests).kind = kind

Answer(event) ==
    /\ requests' = Tail(requests)
    /\ events' = Append(events, event)

(* The account's order of a submission, with the number it is listed under: *)
(* the engine's id where the adapter reuses it, else one of the brokerage's. *)
PlacedOrder(order, number) ==
    [symbol |-> order.symbol, quantity |-> order.quantity, filled |-> 0,
     status |-> "Submitted", number |-> number]

(* The map f with w added.                                                 *)
With(f, w, v) == [x \in DOMAIN f \cup {w} |-> IF x = w THEN v ELSE f[x]]

(* handle_submit: accepted under a new brokerage id.                       *)
Accept(w) ==
    /\ Serving("Submit")
    /\ w \notin DOMAIN broker
    /\ LET request == Head(requests)
       IN  /\ \E number \in Numbering[request.id] :
                 broker' = With(broker, w, PlacedOrder(request.order, number))
           /\ worker' = [worker EXCEPT !.engineOf = With(@, w, request.id)]
           /\ Answer([kind |-> "Submitted", id |-> request.id, brokerageIds |-> {w}])
    /\ UNCHANGED <<tm, holdings, router, pass, market, submits>>

Reject ==
    /\ Serving("Submit")
    /\ Answer([kind |-> "Invalid", id |-> Head(requests).id])
    /\ UNCHANGED <<tm, holdings, router, pass, worker, broker, market, submits>>

(* Any error of the adapter: the order did not reach the brokerage...      *)
FailToSubmit ==
    /\ Serving("Submit")
    /\ Answer([kind |-> "SubmitFailed", id |-> Head(requests).id])
    /\ UNCHANGED <<tm, holdings, router, pass, worker, broker, market, submits>>

(* ... or it did, and only the answer was lost or could not be read.       *)
LoseAck(w) ==
    /\ LostAcks
    /\ Serving("Submit")
    /\ w \notin DOMAIN broker
    /\ \E number \in Numbering[Head(requests).id] :
          broker' = With(broker, w, PlacedOrder(Head(requests).order, number))
    /\ Answer([kind |-> "SubmitFailed", id |-> Head(requests).id])
    /\ UNCHANGED <<tm, holdings, router, pass, worker, market, submits>>

(* cancel_order: done at once, taken in, or failed (logged, never retried). *)
ServeCancel ==
    /\ Serving("Cancel")
    /\ requests' = Tail(requests)
    /\ \/ UNCHANGED broker
       \/ \E w \in Head(requests).order.brokerageIds \cap DOMAIN broker,
             status \in {"Canceled", "CancelPending"} :
             /\ Working(broker[w])
             /\ broker' = [broker EXCEPT ![w].status = status]
    /\ UNCHANGED <<tm, holdings, router, pass, events, worker, market, submits>>

(* update_order: the prices of an order are not modelled, so the account's  *)
(* copy does not change.                                                   *)
ServeUpdate ==
    /\ Serving("Update")
    /\ requests' = Tail(requests)
    /\ UNCHANGED <<tm, holdings, router, pass, events, worker, broker, market, submits>>

HandleRequest ==
    \/ \E w \in BrokerIds : Accept(w) \/ LoseAck(w)
    \/ Reject \/ FailToSubmit
    \/ ServeCancel \/ ServeUpdate

(* resolve_engine_order_id: 0 when the order is not the engine's.          *)
Resolve(w) ==
    IF w \in DOMAIN worker.engineOf THEN worker.engineOf[w]
    ELSE IF \E v \in DOMAIN worker.engineOf : worker.engineOf[v] = broker[w].number
         THEN broker[w].number ELSE 0

(* poll_account_orders, one account order: reported when its status or its *)
(* fills differ from what was last seen of the engine order.               *)
Poll(w) ==
    /\ w \in DOMAIN broker
    /\ Resolve(w) # 0
    /\ LET id   == Resolve(w)
           seen == [status |-> broker[w].status, filled |-> broker[w].filled]
       IN  /\ worker.tracked[id] # seen
           /\ Len(events) < MaxEvents
           /\ worker' = [worker EXCEPT !.tracked[id] = seen]
           /\ events' = Append(events, [kind |-> "Status", id |-> id, symbol |-> broker[w].symbol,
                                        status |-> seen.status, filled |-> seen.filled])
    /\ UNCHANGED <<tm, holdings, router, pass, requests, broker, market, submits>>

---------------------------------------------------------------------------
(* The brokerage and the market.                                           *)
BrokerFills(w) ==
    /\ w \in DOMAIN broker
    /\ Working(broker[w])
    /\ LET left == broker[w].quantity - broker[w].filled
       IN  \E quantity \in IF left > 0 THEN 1..left ELSE left..(-1) :
              broker' = [broker EXCEPT
                  ![w].filled = @ + quantity,
                  ![w].status = IF quantity = left THEN "Filled"
                                ELSE IF @ = "Submitted" THEN "PartiallyFilled" ELSE @]
    /\ UNCHANGED <<tm, holdings, router, pass, requests, events, worker, market, submits>>

(* Canceled (or expired), on request or not; rejected when nothing filled. *)
BrokerCloses(w, status) ==
    /\ w \in DOMAIN broker
    /\ Working(broker[w])
    /\ BrokerCancels \/ broker[w].status = "CancelPending"
    /\ status = "Invalid" => broker[w].filled = 0
    /\ broker' = [broker EXCEPT ![w].status = status]
    /\ UNCHANGED <<tm, holdings, router, pass, requests, events, worker, market, submits>>

(* What the clock and the feed show is read at the start of a pass.        *)
RingBell ==
    /\ LoopIdle
    /\ market.bells < MaxBells
    /\ market' = [market EXCEPT !.bells = @ + 1]
    /\ UNCHANGED <<tm, holdings, router, pass, requests, events, worker, broker, submits>>

Quote(symbol) ==
    /\ LoopIdle
    /\ symbol \notin market.priced
    /\ market' = [market EXCEPT !.priced = @ \cup {symbol}]
    /\ UNCHANGED <<tm, holdings, router, pass, requests, events, worker, broker, submits>>

RetryElapses(id) ==
    /\ LoopIdle
    /\ id \in router.waiting
    /\ router' = [router EXCEPT !.waiting = @ \ {id}]
    /\ UNCHANGED <<tm, holdings, pass, requests, events, worker, broker, market, submits>>

---------------------------------------------------------------------------
(* drain_events: the loop applies the event at the head of its channel.    *)
Applying(kind) == LoopIdle /\ events # <<>> /\ Head(events).kind = kind

Known(id) == id \in DOMAIN tm.orders

(* The order left the submission-retry state machine.                      *)
Settled(id) == [router EXCEPT !.attempts[id] = 0, !.waiting = @ \ {id}]

Emit(store, id, status, fillQuantity) ==
    ProcessOrderEvent(store, [orderId |-> id, status |-> status, fillQuantity |-> fillQuantity])

ApplySubmitted ==
    /\ Applying("Submitted")
    /\ events' = Tail(events)
    /\ LET event == Head(events)
           id    == event.id
       IN  IF Known(id) /\ tm.orders[id].status = "New"
           THEN /\ tm' = Emit(AddOrUpdateOrder(tm, id,
                                  [tm.orders[id] EXCEPT !.status = "Submitted",
                                                        !.brokerageIds = event.brokerageIds]),
                              id, "Submitted", 0)
                /\ router' = Settled(id)
           ELSE UNCHANGED <<tm, router>>
    /\ UNCHANGED <<holdings, pass, requests, worker, broker, market, submits>>

MarkInvalid(id) ==
    Emit(AddOrUpdateOrder(tm, id, WithStatus(tm.orders[id], "Invalid")), id, "Invalid", 0)

ApplyInvalid ==
    /\ Applying("Invalid")
    /\ events' = Tail(events)
    /\ LET id == Head(events).id
       IN  IF Known(id) THEN tm' = MarkInvalid(id) /\ router' = Settled(id)
                        ELSE UNCHANGED <<tm, router>>
    /\ UNCHANGED <<holdings, pass, requests, worker, broker, market, submits>>

(* Is there a delay left for another attempt?  submit_backoff is indexed   *)
(* by attempts - 1, saturating at 0.                                       *)
(* Fault: the schedule is taken to be one longer.                          *)
OneRetryMore(id) == Retries > 0 /\ router.attempts[id] =< Retries + 1

RetryLeft(id) == Retries > 0 /\ router.attempts[id] =< Retries

(* The attempt is over.  Fault: the order stays marked as submitted.       *)
StillInFlight(id) == router.submitted

NoLongerInFlight(id) == router.submitted \ {id}

(* Another attempt after the backoff, or Invalid when there is none left.  *)
ApplySubmitFailed ==
    /\ Applying("SubmitFailed")
    /\ events' = Tail(events)
    /\ LET id == Head(events).id
       IN  \/ /\ ~Known(id)
              /\ UNCHANGED <<tm, router>>
           \/ /\ Known(id) /\ RetryLeft(id)
              /\ router' = [router EXCEPT !.submitted = NoLongerInFlight(id),
                                          !.waiting   = @ \cup {id}]
              /\ UNCHANGED tm
           \/ /\ Known(id) /\ ~RetryLeft(id)
              /\ tm' = MarkInvalid(id)
              /\ router' = [Settled(id) EXCEPT !.submitted = NoLongerInFlight(id)]
    /\ UNCHANGED <<holdings, pass, requests, worker, broker, market, submits>>

(* A snapshot of another symbol, or a status already reached that brings   *)
(* no fill, is ignored.                                                    *)
(* Fault: the symbol is not compared.                                      *)
IgnoredUnlessKnown(event) ==
    \/ ~Known(event.id)
    \/ event.status = tm.orders[event.id].status /\ ~IsFill(event.status)

Ignored(event) ==
    \/ ~Known(event.id)
    \/ event.symbol # tm.orders[event.id].symbol
    \/ event.status = tm.orders[event.id].status /\ ~IsFill(event.status)

(* The part of the fill not yet applied.  Fault: all of it, each time.     *)
WholeFill(event) == event.filled

FillDelta(event) == event.filled - router.applied[event.id]

ApplyStatus ==
    /\ Applying("Status")
    /\ events' = Tail(events)
    /\ LET event == Head(events)
           id    == event.id
       IN  \/ /\ Ignored(event)
              /\ UNCHANGED <<tm, router, holdings>>
           \/ /\ ~Ignored(event)
              /\ tm' = Emit(tm, id, event.status, FillDelta(event))
              /\ IF IsFill(event.status)
                 THEN /\ holdings' = [holdings EXCEPT ![event.symbol] = @ + FillDelta(event)]
                      /\ router' = [router EXCEPT !.applied[id] = event.filled]
                 ELSE UNCHANGED <<holdings, router>>
    /\ UNCHANGED <<pass, requests, worker, broker, market, submits>>

ApplyEvent == ApplySubmitted \/ ApplyInvalid \/ ApplySubmitFailed \/ ApplyStatus

---------------------------------------------------------------------------
Next ==
    \/ \E id \in OrderIds : \/ \E item \in Menu[id] : Place(id, item)
                            \/ Cancel(id)
                            \/ Update(id)
                            \/ DispatchOne(id)
                            \/ RetryElapses(id)
    \/ BeginPass
    \/ HandleRequest
    \/ ApplyEvent
    \/ \E w \in BrokerIds :
          \/ Poll(w)
          \/ BrokerFills(w)
          \/ \E status \in {"Canceled", "Invalid"} : BrokerCloses(w, status)
    \/ RingBell
    \/ \E symbol \in Symbols : Quote(symbol)

Spec == Init /\ [][Next]_vars

(* The loop and the worker keep running.  Time passes whatever they do: a  *)
(* backoff elapses, the exchange opens, a price arrives.  These are strong *)
(* because the model shows them to the loop between two passes only.       *)
EngineFairness ==
    /\ WF_vars(BeginPass)
    /\ \A id \in OrderIds : WF_vars(DispatchOne(id)) /\ SF_vars(RetryElapses(id))
    /\ WF_vars(HandleRequest) /\ WF_vars(ApplyEvent)
    /\ \A w \in BrokerIds : WF_vars(Poll(w))
    /\ SF_vars(RingBell)
    /\ \A symbol \in Symbols : SF_vars(Quote(symbol))

(* The brokerage completes what it works on.                               *)
BrokerFairness == \A w \in BrokerIds : WF_vars(BrokerFills(w))

FairSpec == Spec /\ EngineFairness
FairBrokerSpec == FairSpec /\ BrokerFairness

---------------------------------------------------------------------------
TypeOK ==
    /\ IsStore(tm)
    /\ holdings \in [Symbols -> Int]
    /\ router \in [submitted : SUBSET OrderIds, cancelForwarded : SUBSET OrderIds,
                   updateForwarded : SUBSET OrderIds, applied : [OrderIds -> Int],
                   attempts : [OrderIds -> Nat], waiting : SUBSET OrderIds]
    /\ pass \in [left : SUBSET OrderIds, deferring : BOOLEAN]
    /\ requests \in Seq(Request)
    /\ events \in Seq(Event)
    /\ DOMAIN worker.engineOf \subseteq DOMAIN broker
    /\ worker \in [engineOf : [DOMAIN worker.engineOf -> OrderIds],
                   tracked  : [OrderIds -> [status : BrokerStatus \cup {"Unseen"}, filled : Int]]]
    /\ DOMAIN broker \subseteq BrokerIds
    /\ broker \in [DOMAIN broker -> BrokerOrder]
    /\ market \in [bells : 0..MaxBells, priced : SUBSET Symbols]
    /\ submits \in [OrderIds -> Nat]

(* An order has at most one submission between the two threads, and only    *)
(* while it is marked as submitted: neither a pass that runs again before   *)
(* the answer is in, nor a retry, sends a second one (submitted_ids).      *)
Answers == {"Submitted", "Invalid", "SubmitFailed"}

OneSubmissionInFlight ==
    \A id \in OrderIds :
        Cardinality({i \in DOMAIN requests : requests[i].kind = "Submit" /\ requests[i].id = id})
      + Cardinality({i \in DOMAIN events : events[i].kind \in Answers /\ events[i].id = id})
        =< IF id \in router.submitted THEN 1 ELSE 0

(* The account holds at most one order for each order the engine submitted, *)
(* however often a submission failed and was retried.                       *)
PlacedOnce ==
    Cardinality(DOMAIN broker \ DOMAIN AccountOrders)
        =< Cardinality({id \in OrderIds : submits[id] > 0})

(* Through every handler that writes the store, has_open_orders and        *)
(* get_open_orders, from which the passes are made, agree with the orders, *)
(* and every ticket mirrors its order.                                     *)
BooksExact == IndexExact(tm) /\ TicketsMirror(tm)

(* The account orders whose snapshots are booked on engine order id: the one *)
(* it was accepted as, and any other that resolves to it and has its symbol. *)
Feeding(id) ==
    {w \in DOMAIN broker : Resolve(w) = id /\ broker[w].symbol = tm.orders[id].symbol}

Alone(id) == Feeding(id) \subseteq DOMAIN worker.engineOf

(* Polled snapshots repeat and are cumulative: what the store counts as     *)
(* filled is what was applied to the portfolio, once, and never more than   *)
(* the brokerage filled of an account order that feeds the order.           *)
FilledAsApplied ==
    \A id \in DOMAIN tm.orders \ ImportedIds : tm.orders[id].filled = router.applied[id]

FillsAppliedOnce ==
    /\ FilledAsApplied
    /\ \A id \in DOMAIN tm.orders \ ImportedIds :
          router.applied[id] # 0 =>
              \E w \in Feeding(id) : Abs(router.applied[id]) =< Abs(broker[w].filled)

(* The portfolio holds what it held at startup and the fills of the orders. *)
AppliedTo(symbol) ==
    SumFunctionOnSet(router.applied, {id \in DOMAIN tm.orders : tm.orders[id].symbol = symbol})

HoldingsMatchFills ==
    \A symbol \in Symbols : holdings[symbol] = InitialHoldings[symbol] + AppliedTo(symbol)

(* A retry schedule sends an order at most Retries + 1 times, and once more *)
(* from the start when the order was held for the next open in between.     *)
RetryBudget == \A id \in OrderIds : submits[id] =< 2 * Retries + 1

(* A closed order stays as it closed: no late answer, stale snapshot or     *)
(* retry revives it or closes it another way.                               *)
ClosedForGood ==
    [][\A id \in DOMAIN tm.orders :
          ~IsOpen(tm.orders[id].status) => tm'.orders[id].status = tm.orders[id].status]_vars

(* That holds of every order fed by no other account order than the one it *)
(* was accepted as, even if the answer to one of its submissions was lost.  *)
ClosedWhileAlone ==
    [][\A id \in DOMAIN tm.orders :
          ~IsOpen(tm.orders[id].status) /\ Alone(id)' =>
              tm'.orders[id].status = tm.orders[id].status]_vars

(* A cash account sends no order that needs buying power while an order     *)
(* that would release some is open.                                         *)
ReductionsFirst ==
    [][\A id \in OrderIds :
          CashAccount /\ submits'[id] > submits[id] =>
              Reduces(id) \/ \A other \in tm.openIds : ~Reduces(other)]_vars

(* Every new order is eventually sent, refused or withdrawn: no hold for a  *)
(* price, for the open, for a backoff or for a reduction lasts forever.     *)
IsNew(id) == Known(id) /\ tm.orders[id].status = "New"
OrdersLeaveNew == \A id \in OrderIds : IsNew(id) ~> ~IsNew(id)

(* An order the brokerage filled is eventually Filled in the store, with    *)
(* all of its fills in the portfolio.                                       *)
FilledAtBroker(w) == w \in DOMAIN worker.engineOf /\ broker[w].status = "Filled"
FillApplied(w) ==
    LET id == worker.engineOf[w]
    IN  tm.orders[id].status = "Filled" /\ router.applied[id] = broker[w].filled
FillsReachPortfolio ==
    \A w \in BrokerIds : FilledAtBroker(w) ~> w \in DOMAIN worker.engineOf /\ FillApplied(w)

(* What the brokerage filled of an order that it then canceled reaches the  *)
(* portfolio too.                                                           *)
CanceledFillsReachPortfolio ==
    \A w \in BrokerIds :
        w \in DOMAIN worker.engineOf /\ broker[w].status = "Canceled"
            ~> w \in DOMAIN worker.engineOf /\ router.applied[worker.engineOf[w]] = broker[w].filled

(* A requested cancel is forwarded to the brokerage, unless the order       *)
(* closes first.                                                            *)
CancelWanted(id) == Known(id) /\ tm.orders[id].status = "CancelPending"
CancelsReachBroker ==
    \A id \in OrderIds :
        CancelWanted(id) ~>
            \/ id \in router.cancelForwarded
            \/ Known(id) /\ ~IsOpen(tm.orders[id].status)
=============================================================================
