---------------------------- MODULE BacktestStep ----------------------------
(***************************************************************************)
(* The time step of a backtest.  For every slice the runner lets the       *)
(* algorithm act in stages - universe selection, scheduled events, margin  *)
(* calls, OnData, the framework - and after each one settles orders: the   *)
(* order processor makes the fills of all the open orders the slice can    *)
(* fill, then the fills are applied one by one, with a callback after each *)
(* in which the algorithm may act again.                                   *)
(*                                                                         *)
(* Left out: prices, fees, the end of a bankrupt backtest, the expiration  *)
(* of options, warm-up.  Whether the prices of a slice meet the level of   *)
(* an order is chosen with the slice.                                      *)
(***************************************************************************)
EXTENDS OrderStore, Sequences, Functions

CONSTANTS
    Menu,       \* what the algorithm may place under each id: [symbol, quantity, kind]
    Fine,       \* symbols subscribed below hour resolution, on an open exchange
    Rejects,    \* BOOLEAN: a fill may fail the buying-power check
    Resizes,    \* quantities to which the execution model resizes an order
    MaxUpdates  \* bound: updates of an order

Kinds  == {"Market", "Limit", "Stop", "MarketOnOpen"}
Item   == [symbol : Symbols, quantity : Int \ {0}, kind : Kinds]
Stages == <<"Selection", "Scheduled", "MarginCall", "Data", "Framework">>

ASSUME IdsArePositive == OrderIds \subseteq Nat \ {0}
ASSUME MenuAssumption == Menu \in [OrderIds -> SUBSET Item]
ASSUME OtherAssumption ==
    /\ Fine \subseteq Symbols /\ Rejects \in BOOLEAN
    /\ Resizes \subseteq Int \ {0} /\ MaxUpdates \in Nat

VARIABLES
    tm,         \* the TransactionManager's store
    kind,       \* order_type of each order placed
    holdings,   \* the portfolio's quantity of each symbol
    slice,      \* the slice: symbols with data; orders whose level its prices meet
    cached,     \* cached_bars, cached_quote_bars: symbols that have had data
    behind,     \* the algorithm's clock is earlier than the slice's time
    fresh,      \* orders whose `time` is that of the slice
    stage,      \* how far the time step is; settled: its fills have been made
    fills,      \* fills made and not yet applied
    control,    \* the algorithm is running (a callback)
    amended,    \* history: orders placed or amended since the slice began
    liquidated  \* history: symbols liquidated with only market orders open, and left alone since

vars == <<tm, kind, holdings, slice, cached, behind, fresh, stage, fills, control,
          amended, liquidated>>

Fill == [id : OrderIds, quantity : Int]

Init ==
    /\ tm = EmptyStore
    /\ kind = [id \in {} |-> "Market"]
    /\ holdings = [symbol \in Symbols |-> 0]
    /\ slice = [data |-> {}, met |-> {}]
    /\ cached = {}
    /\ behind = TRUE
    /\ fresh = {}
    /\ stage = [at |-> Len(Stages), settled |-> TRUE, fired |-> FALSE]
    /\ fills = {}
    /\ control = FALSE
    /\ amended = {}
    /\ liquidated = {}

---------------------------------------------------------------------------
(* The algorithm, while it has control.                                    *)
NewOrder(item) ==
    [symbol |-> item.symbol, quantity |-> item.quantity, filled |-> 0, status |-> "New",
     marketOnOpen |-> item.kind = "MarketOnOpen", brokerageIds |-> {}, terms |-> 0]

(* The next id of the algorithm's counter.                                 *)
IsNext(id) == id \notin DOMAIN tm.orders /\ \A other \in OrderIds \ DOMAIN tm.orders : id =< other

OpenIn(symbol) == {id \in tm.openIds : tm.orders[id].symbol = symbol}

Running == control /\ UNCHANGED <<holdings, cached, behind, stage, fills, control>>

(* An order takes its time from the algorithm's clock.                     *)
Stamped(id) == IF behind THEN fresh ELSE fresh \cup {id}

Place(id, item) ==
    /\ Running
    /\ IsNext(id)
    /\ tm' = AddOrder(tm, id, NewOrder(item))
    /\ kind' = Put(kind, id, item.kind)
    /\ fresh' = Stamped(id)
    /\ amended' = amended \cup {id}
    /\ liquidated' = liquidated \ {item.symbol}
    /\ UNCHANGED slice

Cancel(id) ==
    /\ Running
    /\ CanRequestCancel(tm, id)
    /\ tm' = RequestCancelOrder(tm, id)
    /\ UNCHANGED <<kind, slice, fresh, amended, liquidated>>

(* The new level may or may not be met by the slice.                       *)
MoveLevel(id) == slice' \in {[slice EXCEPT !.met = @ \cup {id}],
                             [slice EXCEPT !.met = @ \ {id}]}

(* A ticket changes the prices of an order, never its quantity.            *)
UpdateTicket(id) ==
    /\ Running
    /\ CanRequestUpdate(tm, id)
    /\ tm.orders[id].terms < MaxUpdates
    /\ tm' = RequestUpdateOrder(tm, id, tm.orders[id].quantity)
    /\ MoveLevel(id)
    /\ amended' = amended \cup {id}
    /\ UNCHANGED <<kind, fresh, liquidated>>

(* The framework's execution requests: an update of an order, or an order  *)
(* that may replace the open ones of its symbol.                           *)
(* Fault: the execution model runs in every callback.                      *)
AnyTime == TRUE

InFramework == Stages[stage.at] = "Framework" /\ ~stage.settled

UpdateExecution(id, quantity) ==
    /\ Running
    /\ InFramework
    /\ CanRequestUpdate(tm, id)
    /\ tm.orders[id].terms < MaxUpdates
    /\ tm' = RequestUpdateOrder(tm, id, quantity)
    /\ MoveLevel(id)
    /\ amended' = amended \cup {id}
    /\ liquidated' = liquidated \ {tm.orders[id].symbol}
    /\ UNCHANGED <<kind, fresh>>

(* request_cancel_order, for several orders.                               *)
CancelEach(store, ids) ==
    LET Ask(f) == [id \in DOMAIN f |->
                      IF id \in ids THEN WithStatus(f[id], "CancelPending") ELSE f[id]]
    IN  [store EXCEPT !.orders = Ask(@), !.tickets = Ask(@),
                      !.cancelRequests = @ \cup ids, !.updateRequests = @ \ ids]

Replace(id, item) ==
    /\ Running
    /\ InFramework
    /\ IsNext(id)
    /\ tm' = AddOrder(CancelEach(tm, OpenIn(item.symbol)), id, NewOrder(item))
    /\ kind' = Put(kind, id, item.kind)
    /\ fresh' = Stamped(id)
    /\ amended' = amended \cup {id}
    /\ liquidated' = liquidated \ {item.symbol}
    /\ UNCHANGED slice

(* liquidate: market orders on their way are deducted from the closing     *)
(* order, the others are canceled.                                         *)
OnTheirWay(symbol) == {id \in OpenIn(symbol) : kind[id] = "Market"}
Due(symbol) == SumFunction([id \in OnTheirWay(symbol) |-> Remaining(tm.orders[id])])

(* Fault: the deduction is forgotten.                                      *)
ClosingWhole(symbol) == -holdings[symbol]

Closing(symbol) == -holdings[symbol] - Due(symbol)

LiquidateInto(store, symbol) ==
    LET closing == [symbol |-> symbol, quantity |-> Closing(symbol), kind |-> "Market"]
        asked   == CancelEach(store, OpenIn(symbol) \ OnTheirWay(symbol))
    IN  IF holdings[symbol] = 0
        THEN /\ tm' = store
             /\ UNCHANGED <<kind, fresh, amended>>
        ELSE IF closing.quantity = 0
        THEN /\ tm' = asked
             /\ UNCHANGED <<kind, fresh, amended>>
        ELSE \E id \in OrderIds :
                /\ IsNext(id)
                /\ tm' = AddOrder(asked, id, NewOrder(closing))
                /\ kind' = Put(kind, id, "Market")
                /\ fresh' = Stamped(id)
                /\ amended' = amended \cup {id}

Liquidate(symbol) ==
    /\ Running
    /\ holdings[symbol] # 0
    /\ LiquidateInto(tm, symbol)
    /\ liquidated' = IF OpenIn(symbol) = OnTheirWay(symbol)
                     THEN liquidated \cup {symbol} ELSE liquidated \ {symbol}
    /\ UNCHANGED slice

(* remove_security: cancels, then liquidates.                              *)
RemoveSecurity(symbol) ==
    /\ Running
    /\ LiquidateInto(CancelEach(tm, OpenIn(symbol)), symbol)
    /\ liquidated' = IF holdings[symbol] # 0 /\ OpenIn(symbol) = OnTheirWay(symbol)
                     THEN liquidated \cup {symbol} ELSE liquidated \ {symbol}
    /\ UNCHANGED slice

---------------------------------------------------------------------------
(* The runner.                                                             *)
StageDone == stage.settled /\ fills = {}

(* A new slice.  Universe selection comes before advance_frontier, under   *)
(* the clock of the last slice, as does the last slice's end_time_step:    *)
(* what the algorithm does in either is not settled before.                *)
NewSlice(data, met) ==
    /\ StageDone /\ stage.at = Len(Stages)
    /\ slice' = [data |-> data, met |-> met]
    /\ behind' = TRUE
    /\ fresh' = {}
    /\ amended' = {}
    /\ stage' = [at |-> 1, settled |-> FALSE, fired |-> FALSE]
    /\ control' = TRUE
    /\ UNCHANGED <<tm, kind, holdings, cached, fills, liquidated>>

(* scan_scheduled_events sets the clock to the event's trigger time, which *)
(* is at most that of the slice; triggers come in order.                   *)
FireScheduled(late) ==
    /\ Stages[stage.at] = "Scheduled" /\ ~stage.settled
    /\ stage.fired /\ ~behind => ~late
    /\ behind' = late
    /\ stage' = [stage EXCEPT !.fired = TRUE]
    /\ control' = TRUE
    /\ UNCHANGED <<tm, kind, holdings, slice, cached, fresh, fills, amended, liquidated>>

(* extend_with_cached_market_order_data: the cached data of a symbol join   *)
(* those of the slice when a market order is open for it - and then fill   *)
(* its other orders as well.                                               *)
FromCache == {symbol \in cached \cap Fine : OnTheirWay(symbol) # {}}

(* generate_order_events_with_quotes: can the slice fill the order?  A      *)
(* limit order waits for a slice later than itself, a stop does not.       *)
Fillable(id) ==
    /\ tm.orders[id].symbol \in slice.data \cup FromCache
    /\ kind[id] \in {"Limit", "Stop"} => id \in slice.met
    /\ kind[id] = "Limit" => id \notin fresh

(* Fault: every order is scanned, not the open ones.                       *)
AllScanned == DOMAIN tm.orders

(* Fault: an order asked to cancel is passed over.                         *)
NotCancelPending == {id \in tm.openIds : tm.orders[id].status # "CancelPending"}

Scanned == tm.openIds

(* Fault: fills wait for the framework.                                    *)
SettlesLate == InFramework

(* Without data to fill from only the framework's orders are settled.      *)
Settles == slice.data # {} \/ InFramework

(* The first time, advance_frontier comes before: the clock and the caches *)
(* move to the slice.                                                      *)
Settle ==
    /\ ~stage.settled
    /\ stage' = [stage EXCEPT !.settled = TRUE]
    /\ control' = FALSE
    /\ behind' = (behind /\ stage.at # 1)
    /\ cached' = cached \cup slice.data
    /\ fills' = IF Settles THEN {[id |-> id, quantity |-> tm.orders[id].quantity] :
                                    id \in {i \in Scanned : Fillable(i)}}
                           ELSE {}
    /\ UNCHANGED <<tm, kind, holdings, slice, fresh, amended, liquidated>>

(* settle_fill_event_bridge, process_order_event and the callback.         *)
ApplyFill(fill) ==
    /\ fill \in fills
    /\ fills' = fills \ {fill}
    /\ control' = TRUE
    /\ holdings' = [holdings EXCEPT ![tm.orders[fill.id].symbol] = @ + fill.quantity]
    /\ tm' = ProcessOrderEvent(tm, [orderId |-> fill.id, status |-> "Filled",
                                    fillQuantity |-> fill.quantity])
    /\ UNCHANGED <<kind, slice, cached, behind, fresh, stage, amended, liquidated>>

(* Not enough buying power for the fill.                                   *)
RejectFill(fill) ==
    /\ Rejects
    /\ fill \in fills
    /\ fills' = fills \ {fill}
    /\ control' = TRUE
    /\ tm' = ProcessOrderEvent(tm, [orderId |-> fill.id, status |-> "Invalid",
                                    fillQuantity |-> 0])
    /\ liquidated' = liquidated \ {tm.orders[fill.id].symbol}
    /\ UNCHANGED <<kind, holdings, slice, cached, behind, fresh, stage, amended>>

(* The algorithm is called for OnData and the framework, for scheduled      *)
(* events when they fire, and when a margin call or a warning is due.      *)
Advance ==
    /\ StageDone
    /\ stage.at < Len(Stages)
    /\ LET next == Stages[stage.at + 1]
       IN  /\ stage' = [at |-> stage.at + 1, settled |-> next = "MarginCall", fired |-> FALSE]
           /\ control' = (next # "Scheduled")
    /\ UNCHANGED <<tm, kind, holdings, slice, cached, behind, fresh, fills, amended, liquidated>>

(* The framework does not run on a slice without data for the algorithm    *)
(* (nor on the first one after a warm-up, which the model does not have).  *)
SkipFramework ==
    /\ StageDone
    /\ Stages[stage.at] = "Data" /\ slice.data = {}
    /\ stage' = [stage EXCEPT !.at = @ + 1]
    /\ control' = FALSE
    /\ UNCHANGED <<tm, kind, holdings, slice, cached, behind, fresh, fills, amended, liquidated>>

(* An order of a margin call, settled on the spot.                         *)
MarginCall(id, item) ==
    /\ StageDone
    /\ Stages[stage.at] = "MarginCall" /\ slice.data # {}
    /\ item.kind = "Market" /\ item.quantity * holdings[item.symbol] < 0
    /\ IsNext(id)
    /\ tm' = AddOrder(tm, id, NewOrder(item))
    /\ kind' = Put(kind, id, item.kind)
    /\ fresh' = Stamped(id)
    /\ amended' = amended \cup {id}
    /\ liquidated' = liquidated \ {item.symbol}
    /\ stage' = [stage EXCEPT !.settled = FALSE]
    /\ control' = FALSE
    /\ UNCHANGED <<holdings, slice, cached, behind, fills>>

Act ==
    \/ \E id \in OrderIds :
          \/ \E item \in Menu[id] : Place(id, item) \/ Replace(id, item)
          \/ Cancel(id) \/ UpdateTicket(id)
          \/ \E quantity \in Resizes : UpdateExecution(id, quantity)
    \/ \E symbol \in Symbols : Liquidate(symbol) \/ RemoveSecurity(symbol)

(* The orders a slice may meet the level of.                          *)
Levels == {id \in OrderIds : \E item \in Menu[id] : item.kind \in {"Limit", "Stop"}}

Next ==
    \/ Act
    \/ \E data \in SUBSET Symbols, met \in SUBSET Levels : NewSlice(data, met)
    \/ \E late \in BOOLEAN : FireScheduled(late)
    \/ Settle
    \/ \E fill \in fills : ApplyFill(fill) \/ RejectFill(fill)
    \/ Advance \/ SkipFramework
    \/ \E id \in OrderIds : \E item \in Menu[id] : MarginCall(id, item)

Spec == Init /\ [][Next]_vars

(* The runner never stops, callbacks return, and data keeps coming for     *)
(* every symbol.                                                           *)
Fairness ==
    /\ WF_vars(Settle) /\ WF_vars(Advance \/ SkipFramework)
    /\ WF_vars(\E fill \in fills : ApplyFill(fill) \/ RejectFill(fill))
    /\ \A symbol \in Symbols : SF_vars(\E data \in SUBSET Symbols, met \in SUBSET Levels :
                                           symbol \in data /\ NewSlice(data, met))

FairSpec == Spec /\ Fairness

---------------------------------------------------------------------------
TypeOK ==
    /\ IsStore(tm)
    /\ kind \in [DOMAIN tm.orders -> Kinds]
    /\ holdings \in [Symbols -> Int]
    /\ slice \in [data : SUBSET Symbols, met : SUBSET OrderIds]
    /\ cached \subseteq Symbols
    /\ behind \in BOOLEAN /\ control \in BOOLEAN
    /\ fresh \subseteq DOMAIN tm.orders
    /\ stage \in [at : 1..Len(Stages), settled : BOOLEAN, fired : BOOLEAN]
    /\ fills \subseteq [id : DOMAIN tm.orders, quantity : Int]
    /\ amended \subseteq DOMAIN tm.orders
    /\ liquidated \subseteq Symbols

(* The portfolio holds the fills of the orders, each counted once, whatever *)
(* the callbacks did between the making of a fill and its application.     *)
OrdersOf(symbol) == {id \in DOMAIN tm.orders : tm.orders[id].symbol = symbol}
FilledIn(symbol) == SumFunction([id \in OrdersOf(symbol) |-> tm.orders[id].filled])

HoldingsMatchFills == \A symbol \in Symbols : holdings[symbol] = FilledIn(symbol)

(* A fill made and not yet applied is of an open order at its quantity,     *)
(* whatever the callbacks of the fills before it have done.                *)
PendingFillsFit ==
    \A fill \in fills :
        fill.id \in tm.openIds /\ fill.quantity = tm.orders[fill.id].quantity

(* A Filled order is filled for exactly its quantity, although the fill was *)
(* made from a copy and the order may be amended before it is applied.     *)
FilledInFull ==
    \A id \in DOMAIN tm.orders :
        tm.orders[id].status = "Filled" => tm.orders[id].filled = tm.orders[id].quantity

(* OnData sees the fills of the prior slices' orders: an order resting      *)
(* since an earlier slice that this one fills has been settled.            *)
SettledBeforeData ==
    Stages[stage.at] = "Data" /\ ~stage.settled /\ slice.data # {} =>
        \A id \in tm.openIds \ amended :
            tm.orders[id].symbol \in slice.data => ~Fillable(id)

(* A symbol liquidated while only market orders were open for it ends flat: *)
(* its holding and what is on its way cancel out, through fills that arrive *)
(* between the callbacks in any order.                                     *)
LiquidatedEndsFlat == \A symbol \in liquidated : holdings[symbol] + Due(symbol) = 0

(* A closed order stays as it closed.                                      *)
StaysClosed ==
    \A id \in DOMAIN tm.orders :
        ~IsOpen(tm.orders[id].status) => tm'.orders[id].status = tm.orders[id].status

ClosedForGood == [][StaysClosed]_vars

(* Every market order is eventually filled or refused, a cancel asked of it *)
(* or not: nothing in a backtest acknowledges a cancel.                    *)
AtMarket == {id \in DOMAIN kind : kind[id] \in {"Market", "MarketOnOpen"}}

MarketOrdersClose == \A id \in OrderIds : id \in AtMarket ~> id \notin tm.openIds

(* OnData and the framework run at the time of the slice.                  *)
OnDataAtSliceTime == control /\ Stages[stage.at] \in {"Data", "Framework"} => ~behind
=============================================================================
