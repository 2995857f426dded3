# rlean: orders, live data, the framework and the run catalog in TLA+

rlean is a trading engine in Rust: an algorithm places orders, a backtest fills them from historical
data, a live session sends them to a brokerage. This directory models the parts of it in which money
can be lost by an ordering of events: the order store, the live router with its worker thread, the
time step of a backtest, the feed of live data and scheduled events, the algorithm framework, and the
state a live run keeps to survive a restart. TLC checks the models on small instances, TLAPS proves
their safety properties and both refinements for all instances.

## Inventory

| part (crate, file) | state | operations | interacts through | hard behaviour | what makes it correct |
|---|---|---|---|---|---|
| order store (`rlean-orders/transaction_manager.rs`, `order_ticket.rs`) | orders, a ticket per order with its own copy, set and counter of open orders, cancel and update requests | add, update, process event, request cancel/update, cancel all, split | called by everybody | four structures written one after another; orders close and open again | index and counter exact, tickets mirror orders |
| live router (`rlean-engine/live/transaction_handler.rs`) | submitted ids, forwarded cancels/updates, attempts, backoffs, applied fills | dispatch pass, drain and apply events, cash sync | two channels with the worker | answers race cancels, retries, closing exchange, repeated snapshots | one submission in flight, each fill once, no order forgotten |
| brokerage worker (same file, `run_worker`) | brokerage id to engine id, last seen status and fill | serve a request, poll the account | `Brokerage` trait | lost answers, foreign orders | fills reported against the right order |
| brokerage adapters (`rlean-brokerages`) | an HTTP client | submit, cancel, update, list orders, balances | the worker | any error may hide an accepted order | - |
| backtest runner (`runner/backtest.rs`, `algorithm_manager.rs`) | slice, clock, cached bars | the stages of a time step | callbacks into the algorithm | callbacks between the making and the application of fills | prior fills before new data; fills match orders |
| order processor, fill models (`rlean-orders`) | none | make the fills of a slice | the runner | which orders a slice may fill | never on the submitting slice (limit) |
| algorithm API (`rlean-algorithm/qc_algorithm.rs`) | id counter, securities, pending removals | place, liquidate, remove security, schedule | order store, portfolio | liquidation with orders on their way | ends flat |
| portfolio, buying power, margin calls (`rlean-algorithm`) | holdings, cash, fees | apply fill, exercise, interest, split | runner and router | cash from two sources (fills, brokerage) | holdings equal the fills |
| live runner, slice assembler (`runner/live.rs`, `rlean-live`) | frontier, pending items, fill-forward cache, subscriptions and their channels | pulse, poll, advance, sync of subscriptions | provider stream, dispatcher task, router | late, future and repeated data, clock set back, subscriptions that change while data is on its way | nothing early, twice or back in time; what is held is delivered |
| framework (`rlean-engine/framework.rs`, alpha, portfolio construction, risk, execution) | insights, pending flats, retained targets, rebalance times | pipeline pass, security changes, cancel, restore, merge | runner, algorithm, run catalog | expiry between rebalances, retained targets, restart with open orders | no target of a closed insight, never more than the target asks for |
| scheduling (`rlean-scheduling`) | events and their last evaluation | add, skip, due events | runner | boundaries of dates and scans, registration from callbacks | each trigger once |
| run catalog (`rlean/run_catalog.rs`, `rlean/live.rs`) | tables, idempotency keys, channel to the writer | append with retries, restore | live loop, database | crash between two writes, a failed append that was committed, a new process | restored state is one that was saved, whole; the last one where queries are not stale |
| deployments (`rlean/live_deployments.rs`) | files, containers | launch, pause, resume | docker | - | not modelled |
| data, providers, consolidators, indicators, option/forex/crypto models, statistics, optimizers, CLI | - | - | - | numeric or I/O | not modelled, see `PROJECT.json` |

## Modules

    OrderStore <- TransactionManager <- MCTransactionManager
               <- LiveBrokerageRouter <- MCLiveBrokerageRouter
               <- BacktestStep <- MCBacktestStep
               <- OrderStore_proofs <- TransactionManager_proofs
    BacktestStep, OrderStore_proofs, CountingLemmas <- BacktestStep_proofs
    LiveBrokerageRouter, OrderStore_proofs, CountingLemmas <- LiveBrokerageRouter_proofs
    Schedule <- LiveFeed <- MCLiveFeed, LiveFeed_proofs      LiveFeed implements LiveDelivery
    Framework <- MCFramework, Framework_proofs
    RunCatalog <- MCRunCatalog, RunCatalog_proofs      RunCatalog implements DurableState

In a live run the parts share the loop of `run_live`: a pulse and a slice come from LiveFeed, a slice runs the
pipeline of Framework, its orders go to LiveBrokerageRouter, and the update at the end of the slice goes to
RunCatalog. Each module keeps the loop's control as far as its own part goes and takes the others as
nondeterminism; the four are not composed, as the product is far beyond TLC.

**OrderStore** has an operator from store to store for each method of `TransactionManager`; the
handlers of the other modules are compositions of them, so that `apply_event`, which writes the order
and then processes an event about it, is two writes in one action, as in the code. An order keeps the
fields control flow depends on. Limit and stop prices and the tag are one number, `terms`, that counts accepted updates.

**TransactionManager** is the store on its own, under any sequence of calls. `Place` and
`PlaceInvalid` are the two outcomes of `submit_order`, `Amend` is `add_or_update_order` as the router
uses it, `Fill` and `ReportStatus` are `process_order_event`.

**LiveBrokerageRouter** composes the algorithm (`Place`, `Cancel`, `Update`), the loop
(`BeginPass`, one `DispatchOne` step per order visited, one `Apply...` action per kind of event), the
worker (`Accept`, `Reject`, `FailToSubmit`, `LoseAck`, `ServeCancel`, `ServeUpdate`, `Poll`) and the
environment (`BrokerFills`, `BrokerCloses`, `RingBell`, `Quote`, `RetryElapses`).
- `requests` and `events` are the two channels. `LoopIdle` says that no pass is under way; algorithm
  callbacks and the application of events run on the loop's thread and so only then.
- `BeginPass` requires an empty event channel because `drain_events` loops until it is. An event the
  worker sends after that and before the pass commutes with the pass's start.
- A pass is one step per order because the worker runs beside it. The order of the visits is that of
  the sort key: reductions first, then by id, which is the order of creation.
- `router.waiting` stands for `retry_not_before` lying ahead; `RetryElapses` is the passage of time.
  Time, bells and quotes move between passes only, as a pass reads the clock once.
- `Poll` takes one account order; the code reports all of them in a loop. That is finer, so every
  behaviour of the code is one of the model.
- `number` is the numeric id an adapter gives to an account order: a hash, the broker's own number (Tradier), or the
  engine's id (paper). So it can be an engine order id, of a foreign order or of one the engine placed; `Numbering` says which
  numbers the adapter may give. `resolve_engine_order_id` falls back on it where the brokerage id is unknown, which after a
  lost answer and a retry makes two account orders `Feeding` one engine order.

**BacktestStep** is one time step of `backtest.rs` in stages: selection (with the last step's
`end_time_step`), scheduled events, margin calls, OnData, framework. In each the algorithm acts while
`control` is set, then `Settle` makes the fills of all open orders that the slice can fill, and
`ApplyFill` or `RejectFill` apply them one by one, giving control to the callback in between. The
clock is `behind` when it is earlier than the slice; `fresh` are the orders stamped with the
slice's time. Prices are a set chosen with the slice, `met`: the orders whose level it meets.

**Schedule** has `ScheduleManager`: `add`, `skip_until`, `due_events`, and `trigger_times` as functions over a
calendar of ticks. A rule's trigger may lie on the date before or after its own, as market-hours rules do.

**LiveFeed** is the way of an item: the provider's stream (`wire`), the dispatcher task, a channel per
subscription, the assembler, the slice. The loop's position is `pc`.
- `Take` is a poll that finds an item, `Release` the end of the drain with `advance` and `process_live_slice`.
  `Release` demands empty channels; an item that arrives between the last poll and `advance` is one that
  `Dispatch` moves after it.
- `Subscribe` and `Install` are two steps, because the dispatcher runs between them; `sync` removes before it adds.
  `subscribed` stands for the keys of senders, market and configs, which change together but for the sender.
- `Register` is only enabled at `pc = "poll"`. Callbacks run elsewhere too, but what counts is the frontier of the
  schedule, which is the same there.
- A slice's strategy code chooses new `wanted` subscriptions from `Wishes`; the early sync after universe selection
  is the same `sync` with the same `wanted`.
- `LiveDelivery` is the abstract specification: an item is delivered at most once, never before its time, at a
  frontier that does not go back; it may be lost, but then for good. The mapping takes as `gone` what the provider offered
  and is in no queue any more.

**Framework** is the pipeline pass with the execution model, in the live loop. `Pipeline(t, signals, risky)` is
`run_pipeline_from_alpha`, with a definition for each of its parts; `Execute` is ImmediateExecutionModel. A target is one
lot or none, since all that matters is whether a symbol is wanted. What a risk model does is a set of symbols it cancels.
`Crash` starts a new process from `saved`; `WarmUp` replays time steps through the same `Pipeline` (a deterministic source
repeats its signals, another is silent), and `FinishWarmUp` is the merge. Emission and commit of an update are one step
here; the gap between them is what RunCatalog is about.

**RunCatalog** is the way of an update: `EmitUpdate` into the channel, `Receive`, an append per table, each succeeding,
failing before the commit or failing after it (`AppendFails(t, committed)`), retried under `Key` until `Attempts`.
`Restart` takes the last of the rows each query finds (`Found`). For a table in `StaleReads` these are the first rows, however
few: a new session may precede the snapshot with a committed append (the comment at `run_catalog.rs:627`), and "latest" is by
`recorded_at`, a wall-clock stamp. An empty checkpoint or insight query is the case of none, an error of the query for
order events counts as none too. `DurableState` is the abstract specification: snapshots are saved in the order in which
they were taken, none twice; a run that ends, or can no longer save, loses those not saved; the next one
goes on from a saved one, the last if reads are `Fresh`. It is checked and proved for the account and for the insights; the mapping
takes the snapshots on their way, with the one being appended only as long as its key has not been committed.

## Runs

| run | instance | shows |
|---|---|---|
| `tm` | 2 ids, 1 symbol, quantities on both sides, a split | index, counter and tickets exact under every sequence of calls |
| `router_two` | 2 orders, 2 brokerage ids, broker cancels and rejects | one submission in flight, an order placed once, holdings equal fills, closed is closed |
| `router_retry` | 1 order, 2 retries, lost answers, an adapter that may reuse the engine's id, 1 update, a foreign order with that number, the exchange closes and opens | the retry budget, holdings equal fills, no fill applied twice, closed is closed for an order that one account order feeds; snapshots of a foreign symbol are refused |
| `router_cash` | cash account, a sale and a purchase, no price at start, the exchange closed | the sale goes first; nothing stays new; all fills reach the portfolio |
| `router_cancel` | 1 order, the algorithm cancels | **violation**: a cancel that is never forwarded |
| `backtest` | 3 ids, market, limit, stop and closing orders, rejections, 1 update each | pending fills fit their orders under every callback, holdings equal fills, resting orders settle before OnData, liquidations end flat, closed is closed |
| `backtest_close` | 2 ids | market orders close |
| `live_feed` | 2 subscriptions (one repeats its bars, one drops old rows), 3 items of which one is early and one late, 1 event whose triggers lie on the date before, 1 step back of the clock | the feed implements `LiveDelivery`; items of a subscription in order; each trigger once; repeated bars current; what is held is delivered |
| `framework` | 1 symbol, 2 sources with insights of 1 and 2 time steps, 3 time steps, 1 crash | targets have insights, never two lots, the catalog's insights are current, a restart keeps them |
| `framework_retired` | the same | **violation**: a target retired while an order against it is open |
| `run_catalog` | 2 orders, 1 refresh of insights, a channel of 1, 2 attempts, 2 failures, 2 processes, the checkpoint read stale | account and insights implement `DurableState`; order events once per process; fills become durable or the process ends |
| `catalog_ids` | 2 orders, no failures, 2 processes | **violation**: a new order takes the id of a restored one |

The exact bounds are in the `.cfg` files. They are enough for the cases that matter: two
orders are needed for a pass in which one order's treatment depends on another's, quantity 2 for a partial fill,
two retries so that a budget of resends can be exceeded, two bells for an exchange that closes and opens between two
attempts. A third id in `backtest` is the closing order of a liquidation while two others are open. In `live_feed` a
subscription needs two items to be out of order, and two ticks to a date let a scan begin and end on either side of its
boundary. In `framework` the longer insight outlives a crash and the shorter does not; three time steps let an insight
expire in warm-up, at the merge and after it. In `run_catalog` two failures exhaust the attempts of one table or hit
two tables, and a channel of one makes the loop wait; the checkpoint is read stale and the insights are not, so both promises of
`DurableState` are met with, and the theorems hold for any `StaleReads`. `router_retry` has one snapshot queued at a time (`MaxEvents`): a second account order feeds
the one order, so snapshots of the two alternate anyway; `router_two` has more of them on their way. The second symbol of Framework, the second event of Schedule and
larger channels add interleavings of parts that do not touch each other; the theorems of Framework hold for any number.
`CHECK_DEADLOCK FALSE` is stated because a bounded session goes quiet: all ids used, all orders closed.

Each violation is a finding in `PROJECT.json` with the comment of the source it contradicts. Further findings have
no run; some have a configuration beside the runs, which TLC refutes in seconds:

| configuration | module | refuted | shows |
|---|---|---|---|
| `MCRouterLostAck.cfg` | MCLiveBrokerageRouter | `PlacedOnce` | the answer to an accepted submission is lost: an order placed twice |
| `MCRouterReusedNumber.cfg` | MCLiveBrokerageRouter | `ClosedForGood` | the adapter reuses the engine's id: the twin of a filled order, whose answer was lost, turns it into a canceled one |
| `MCRunCatalogStale.cfg` | MCRunCatalog | `HoldingsComeWithInsights` | a session that precedes the last insight row: holdings restored with insights older than those saved |
| `MCRouterCanceledFills.cfg` | MCLiveBrokerageRouter | `CanceledFillsReachPortfolio` | the last fill of a canceled order is dropped |
| `MCRouterImported.cfg` | MCLiveBrokerageRouter | `OrdersLeaveNew` | purchases wait for ever behind a sale imported at startup |
| `MCBacktestClock.cfg` | MCBacktestStep | `OnDataAtSliceTime` | OnData runs under a scheduled event's time |
| `MCLiveFeedClock.cfg` | MCLiveFeed | `LiveTimeNeverBack` | a pulse cut off to the second sets the algorithm's clock back |
| `MCLiveFeedLoss.cfg` | MCLiveFeed | `LossNoticed` | a lost stream goes unnoticed when all subscriptions are replaced |
| `MCFrameworkStartup.cfg` | MCFramework | `StartupKeepsHoldings` | targets of the warm-up are ordered at the first time step |
| `MCFrameworkFlats.cfg` | MCFramework | `FlatsSurviveRestart` | an insight closed by a Flat comes back at a restart |

### Fairness

Safety runs use no fairness. `FairSpec` of the router: the loop and the worker are threads that
iterate for as long as the session lives, so passes, visits, events, requests and polls are weakly fair.
A backoff elapses, an exchange opens and a price arrives whatever the loop does; the model shows them
to the loop only between two passes, hence strong fairness. `FairBrokerSpec` adds that the brokerage
completes what it works on; `router_cash` needs it, since a purchase behind a sale that never fills
rightly waits. Algorithm actions and closings by the brokerage are never fair.
`FairSpec` of the backtest: the runner's loop is weakly fair (a callback returns), and slices with data for a symbol
keep coming, strongly fair since the loop is not always at the point where it takes one.
`FairSpec` of LiveFeed: time passes, the dispatcher task is scheduled and the loop goes on; the provider owes nothing, and
the end of the run is never fair. The drain of the channels ends because the items are finitely many: a provider that
floods faster than the loop polls would keep it there, which is a hazard without a property.
`FairSpec` of RunCatalog: the loop comes to the end of its slice, a day passes, the writer task is scheduled, and an
ending process waits for it only. Successes of appends are fair as one action of the writer: since failures are
bounded by the attempts, an append ends in any case. Crashes and restarts are not fair.
`EmitFails` needs no new event, since an update of a new day alone meets a closed channel.
Framework has no liveness property: it promises nothing about when a rebalance comes.

## Proofs

The proofs assume what the modules state of their constants, and no more but where a theorem says so: the order ids are finitely many
(`OrderIdsAssumption`), quantities are integers, split factors are ratios of positive integers, a
menu offers well-formed items, the account at startup holds well-formed orders. Order ids, symbols, menus, quantities and bounds are otherwise arbitrary.

**The store** (`OrderStore_proofs`, `TransactionManager_proofs`). The invariant is `StoreOK`: the store has
its type, the index is exact, the tickets mirror the orders. It is inductive only as a
whole: the counter is a cardinality, so a step needs the set it counts to be exact and finite, and an event
keeps a ticket in step only if it was before. There is one lemma per method of `TransactionManager`
(`AddOrderOK`, `UpdateOrderOK`, `ProcessOrderEventOK`, ...), on an arbitrary consistent store, so a handler
that makes several calls cites them one after another. `StoreConsistent` follows.

**The backtest** (`BacktestStep_proofs`). Four theorems:

- `BooksHold`: the types, `HoldingsMatchFills`, `PendingFillsFit`, `FilledInFull` (and each by itself)
- `LiquidationsEndFlat`: `LiquidatedEndsFlat`
- `ClosedOrdersStayClosed`: `ClosedForGood`
- `DataFindsOrdersSettled`: `SettledBeforeData`

The invariant is `Books`. What it adds to the properties, and why:

- `fills # {} => stage.settled`: fills are pending only after the settlement of a stage. The execution
  model, the only one to change the quantity of an order, runs before the settlement of its stage; without
  this a fill pending for an order it resizes would not fit.
- `PendingFillsFit`: a pending fill is of an open order, at its quantity. An event on a closed order would
  open or close it again. Cancels, updates and liquidations in the callbacks keep it since each leaves an
  open order open: a cancel in a backtest is a request (`CancelPending`) that nothing acknowledges.
- `OpenUnfilled`: an open order has no fill, so the fill of its whole quantity fills it in full.
- `AllFlat`: a liquidated symbol has no open orders but market orders, so that what is due cannot change
  without a fill.

Every operation of the algorithm is shown to satisfy `Kept`: closed orders as they are, open ones open, with
their symbol, their fills and, unless resized, their quantity; new ones open and unfilled. `KeepingOrders`
and `KeepingFlat` carry the invariant over any such step, so each action needs its `Kept` lemma only;
settlements and fills, which do not keep the orders, have proofs of their own.

`SettledBeforeData` speaks of one stage, and its invariant `RestingSettled` of all stages after the first settlement
of the slice: an open order that is not `amended` and that the slice fills has its fill on the way. Settling makes it
true, since `Scanned` is all open orders; a fill that is applied or refused closes its order and leaves the other fills;
and whatever the algorithm does, in a stage or in a callback, satisfies `OnlyAmends`: an order it adds, or whose level it
moves, is amended from then on, and a market order that brings cached data into play (`FromCache`) makes more orders
fillable but none by the slice's own data.

**The router** (`LiveBrokerageRouter_proofs`). Ten theorems, of which `RouterTyped` is a part of the first:

- `RouterConsistent`: `TypeOK` and `BooksExact`. The invariant `RouterOK` adds that a pass visits orders of the
  store only: a visit reads an order that was open when the pass began. One lemma per handler.
- `RouterFillsHold`: `HoldingsMatchFills`, and `FilledAsApplied`, the first half of `FillsAppliedOnce`. The invariant `Fills`
  adds that nothing is applied of an id the store does not know, else an order placed later under it would
  start with someone's fills. Every step either fills nothing (`NoFill`) or brings one
  order to a total (`FillOf`), so the sums are argued about twice and not once per handler.
- `SubmissionsNeverOverlap`: `OneSubmissionInFlight`. The invariant counts the places of the two queues that hold
  a submission of an order or an answer to one. A serve moves the one from queue to
  queue, a visit sends only what is not marked, and a mark is lifted only by a failure, which takes the
  answer with it. `CountingLemmas` says what sending and taking do to such counts.
- `PlacedOnceWhenAnswered`: `PlacedOnce`, if answers are not lost (`~LostAcks`). The invariant `Once`: each order the
  account took from the engine is known to the worker under an id that is `Taken`, and no two under the same.
  `Taken` (marked, sent, no submission and no failure of it on its way) never ends. That what is
  accepted was not taken before needs `OneInFlight`. `MCRouterLostAck.cfg` shows that the hypothesis is necessary.
- `ReductionsGoFirst`: `ReductionsFirst`. The invariant `Deferral`: a pass that holds nothing back has no reducing
  order to wait for. It needs that in a pass holdings stay and orders are only closed or converted (`Narrowed`).
- `RetriesAreBounded`: `RetryBudget`. The counter `attempts` starts again when an order is held for the next open, so the
  bound is on two runs of it. `Budgeted` relates the submissions made to the counter and to whether the order was
  held (`Attempted`), for as long as it is new: an order that leaves `New` is never sent again, one held once is not held
  again (`marketOnOpen` stays), and a failure gives up the mark `submitted` but keeps the count.
- `FillsAreAppliedOnce`: `FillsAppliedOnce`, without a hypothesis: an order may be fed by several account orders, and what was
  applied is not more than one of them filled. The invariant `Reconciled`: the worker's links stay and a lost order
  is never linked (`LinksOnward`), a snapshot on its way is of an account order that resolves to the engine order it names and shows
  no more than that one has filled by now, and a closed status is final (`SnapshotsOK`).
- `ClosedOrdersStayClosed`: `ClosedWhileAlone`, without a hypothesis. An order is `Alone` if the account orders that feed it are all
  known to the worker by their brokerage id. `AllClosedWell`: a closed order that is alone is as the account closed it, or
  `Invalid` and not at the account. So no snapshot, late answer or retry has another status for it. Once an order is fed by a
  second one it stays so, hence the property speaks of `Alone(id)'`.
- `ClosedOrdersStayClosedUnshared`: `ClosedForGood`, if answers are not lost (`~LostAcks`) and the account has no namesake
  (`NoNamesake`): every order is alone then.

`NoNamesake` says that no order that the account held before the session has both the number of an engine order and a symbol
placed under it. Both hypotheses are necessary for `ClosedForGood`: `poll_account_orders` falls back on the number
of an order it does not know (`resolve_engine_order_id`), and the router can tell it from the engine's by the symbol
only. So a snapshot of yesterday's order closes or fills today's, and where the adapter reuses the engine's id, the order whose answer
was lost closes the retry's (`MCRouterReusedNumber.cfg`). `router_retry` has both, and a foreign order with the number and another symbol;
`router_two`, where strict `ClosedForGood` is checked, has neither.

**The framework** (`Framework_proofs`). Five theorems:

- `FrameworkTyped`: `TypeOK`
- `LotsNeverOvershoot`: `NeverOvershoots`
- `CatalogHasInsights`: `SavedIsCurrent`
- `RestartsKeepInsights`: `RestoredSurvive`
- `TargetsHaveInsights`: `TargetsBacked`, if changes of insights make a rebalance due (`OnInsights`). The condition
  is necessary: without it an insight that expires between two rebalances leaves its target behind.

They hold for any symbols, sources, periods, cadence, window and number of crashes. The invariant is `Sound`; its
parts are the properties made inductive:

- `OneLot`: besides the sum, an open order by itself leads from one of the two levels to the other, so that it may fill
  or be rejected, also while the process is down.
- `Announced`: a collection that differs from the catalog's has its event pending, at every `pc` and not only at the top.
- `Past` and `Apart`: insights were generated at a time that has come, an insight is not both active and closed; so what the
  merge keeps of the restored ones does not clash with what the replay closed.
- `Backed`, for `TargetsBacked`: outside the pass a retained target is backed, or its insights are cancelled
  and a rebalance is pending, or they expire and the next pass makes them `Gone`, and in warm-up at the replay's time.

**The run catalog** (`RunCatalog_proofs`). Four theorems, for any number of orders, failures, attempts, processes and
updates in the channel:

- `CatalogTyped`: `TypeOK`
- `AccountsAreDurable`: `AccountIsDurable`, and `InsightsStayDurable`: `InsightsAreDurable`, for any staleness of the queries:
  the state restored is one that was saved, and the last one if the table is not in `StaleReads`
- `NothingRecordedTwice`: `EventsRecordedOnce`

That the two tables are restored from the same time is not among them: `HoldingsComeWithInsights` is false with stale reads
(`MCRunCatalogStale.cfg`): neither the retry of an empty query nor the refusal notices an older row.

`None` is not an update (`NoneAssumption`). The invariant of the refinement is `Sound`:

- `Waiting`: no table waits without an update, and nothing is on its way once the writer or the process has ended. So the
  snapshots of a lost run are none.
- `KeysSeen`: a table has seen keys of earlier updates and of the one being appended only. So the update the writer
  receives is not yet saved, and is saved by the first append that commits, not by a repetition. The process is
  part of the key, else a new process's first updates would be taken for repetitions.

The step lemmas follow the abstract actions: the loop works, takes a snapshot or ends (`LoopDurable`), the writer's
steps between appends change nothing (`BetweenUpdatesDurable`), an append saves, repeats or loses (`AppendDurable`), a restart
recovers (`RestartDurable`). `Once` adds, for `EventsRecordedOnce`, where the events of the process are: each is
at one sender only (not sent, in the channel, being appended), not recorded, and not of an open order; and open orders differ,
in the snapshots too, since a restart makes one of them the open orders. Most steps move events from sender to sender
(`MovedOnce`); a fill, a commit and a restart have lemmas of their own.

**The live feed** (`LiveFeed_proofs`). Five theorems, for any items, subscriptions, wishes, events, rules and queues:

- `TypesHold`: `TypeOK`
- `FeedDelivers`: `DeliverySpec`, the refinement. Each step is a step of `LiveDelivery` or a stutter: only `Release` and
  `Flush` deliver, a step that takes an item out of the queues without delivering it is one that loses it, and `Gone` never
  shrinks, since an item is offered once. What is pending is not delivered yet, and what was delivered was due (`DeliveredOK`).
- `DataComesInOrder`: `InOrder`. The stream, the channels and the assembler are queues one behind another. `WayOK`: each is
  `Sorted` by the order of the offers, what is in the stream was offered after all that is further on, what is in a
  channel after all that its subscription has in the assembler or delivered, and a channel holds items of its
  subscription only. It is what makes a removal safe: it drops a whole channel, never the front of one.
- `TriggersFireOnce`: `EachTriggerOnce`. The invariant `TriggersOK`: every registered event was last evaluated at the frontier,
  so the scans leave no gap and do not overlap. That a scan sees all triggers between its ends is
  arithmetic (`TriggerIsScanned`): the dates scanned are those of the ends and one more at each side, and a trigger
  lies at most a date away from its own date. An event registered between scans begins at the frontier.
- `FillsStayCurrent`: `FillsCurrent`, if the bars of a subscription end whole resolutions apart (`BarsOnGrid`). `MemoryOK`: the
  bar remembered is one of the subscription. Both ends are on the grid then, and the last boundary before the frontier is not
  before any bar delivered at it. The hypothesis is necessary: `set_subscriptions` forgets the bar of a subscription that is
  dropped; if it is taken up again at the same time, and an older bar with an end off the grid of the newer one arrives late,
  the repeated bar ends before the one already seen. TLC finds this with a resolution of 3 and bars that
  end at 1 and 3. Bars of a fixed resolution satisfy the hypothesis, those of shortened sessions may not.

**Sums and queues** (`CountingLemmas`). `HoldingsMatchFills` and `LiquidatedEndsFlat` are about sums over orders.
`Total` is a sum over a finite set by first-order means, equal to the community modules' fold
(`SumFunctionOnSetIsTotal`); that it changes with one addend as a sum does is proved by a minimal
counterexample among the finite subsets (`MinimalSubset`), which needs no induction over an operator.
`Count` is the number of places of a queue that hold a message of a kind, and the lemmas say what an append and a
`Tail` do to it.

## Only model-checked, and why

- Liveness (`OrdersLeaveNew`, `FillsReachPortfolio`, `MarketOrdersClose`, `HeldIsDelivered`, `FillsBecomeDurable`) and
  the violations: fairness is beyond the prover.
- The behaviour of what the theorems exclude by a hypothesis: `~LostAcks`, `NoNamesake`, `BarsOnGrid` and `OnInsights`. Where
  the property then fails, the text above says how.

Every safety invariant and action property of the passing runs is stated by a theorem.

## Not modelled

Prices, fees, cash, average costs and the buying-power formulas (a refusal is a nondeterministic
outcome); logging; option expirations; warm-up of a backtest, and with it the rule that the framework
passes over the first slice after one (`should_run_framework_on_slice`); the end of a bankrupt backtest; all components marked
so in `PROJECT.json`. In the router: cash synchronization and the shutdown of the worker. Assumed
of the environment: a brokerage never reduces a cumulative fill, and gives every accepted order a new id.
In LiveFeed: ticks, option chains, the contents of a slice beyond the ends of its bars, limits on slices and run time.
In Framework: scores, weights, magnitudes and short positions, insight ids, the bound on the closed history. In RunCatalog: the
terminal artifacts of a run, the migration of old checkpoints, cash and prices in a checkpoint. Deployments
(`live_deployments.rs`) manage files and containers through docker, whose answers make most of their state.

Most of the repository is data access, decoding, numerics and language bindings: stores and providers (Verglas,
ThetaData), indicators, alpha, risk and portfolio models, option pricing, statistics, optimizers, the SDK's Python wrappers.
They have no control flow that a model of this kind would tell apart, or are I/O; that is why the map covers a small
share of all lines and most of the ones in which events race.

## What could come next

1. `Account`: cash with fills, fees and `LiveCashSyncState`, the snapshot racing a fill, a failed balance query,
   composed with the router's channels.
2. An abstract order book (an order is open, closes once, fills never exceed what was executed) that both the
   router and the backtest implement.
