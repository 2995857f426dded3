----------------------------- MODULE RunCatalog -----------------------------
(***************************************************************************)
(* The state a live paper run keeps in the run catalog.  The live loop     *)
(* sends updates of its account, order events and insights into a bounded  *)
(* channel; a writer task appends one update after the other to the tables *)
(* of the catalog, each append tried a few times under an idempotency key; *)
(* a new process of the same deployment restores what its queries find in  *)
(* the tables, which need not be the rows committed last.                  *)
(*                                                                         *)
(* Orders buy one lot each and fill whole.  The telemetry tables (runs,    *)
(* progress, trades, insight events) are treated as order_events is, and   *)
(* stand for it here; with a brokerage the account comes from it instead.  *)
(***************************************************************************)
EXTENDS Integers, Sequences, FiniteSets

CONSTANTS
    None,          \* no update
    ChannelSize,   \* 256 in live.rs
    Attempts,      \* APPEND_ATTEMPTS
    StaleReads,    \* tables whose query in a new session may miss the last rows
    MaxOrders,     \* bound: orders placed, over all processes
    MaxInsights,   \* bound: refreshes of the insights
    MaxDays,       \* bound: updates of a process that only a new day causes
    MaxFaults,     \* bound: failed attempts to append
    MaxProcesses   \* bound: processes of the deployment

VARIABLES
    pc,        \* "starting", "running", "stopping" or "down"
    process,   \* the process generation
    counter,   \* order_id_counter
    open,      \* the open orders of the transaction manager
    filled,    \* the orders whose fill is in the holdings
    insights,  \* the version of the insight collection
    changed,   \* insight events are pending
    events,    \* all_order_events: the orders filled
    noted,     \* catalog_order_events
    days,      \* updates of this process that a new day caused
    channel,   \* the channel to the writer
    closed,    \* the writer has ended with an error
    update,    \* the update the writer appends
    sequence,  \* its number in this process
    working,   \* the tables it is still to be appended to
    attempts,  \* failed attempts at each table
    table,     \* the catalog: the rows of every table, as committed
    keys,      \* the idempotency keys each table has seen
    placed, faults

engine  == <<counter, open, filled, insights, changed, events, noted, days, placed>>
writer  == <<update, sequence, working, attempts>>
catalog == <<table, keys>>
vars    == <<pc, process, engine, channel, closed, writer, catalog, faults>>

Orders == 1..MaxOrders
Tables == {"order_events", "insight_state", "checkpoints"}
Fatal  == {"insight_state", "checkpoints"}   \* AppendFailure::Fail

ASSUME CatalogAssumption ==
    /\ {ChannelSize, Attempts, MaxProcesses} \subseteq Nat \ {0} /\ StaleReads \subseteq Tables
    /\ {MaxOrders, MaxInsights, MaxDays, MaxFaults} \subseteq Nat

(* Fault: a checkpoint with the insights, as it once was.                  *)
WithInsights(state) ==
    [open |-> state.open, filled |-> state.filled, insights |-> insights]

Account(state) == [open |-> state.open, filled |-> state.filled]

(* What a table of the restart state keeps of an update, and what a        *)
(* restart takes it for if there is no row.                                *)
Saves(t, state) == IF t = "checkpoints" THEN Account(state) ELSE state.insights

Default(t) == IF t = "checkpoints" THEN [open |-> {}, filled |-> {}] ELSE 0

Ids(orders) == {o.id : o \in orders}

Up == pc # "down"

---------------------------------------------------------------------------
Init ==
    /\ pc = "starting"
    /\ process = 1
    /\ counter = 0
    /\ open = {} /\ filled = {}
    /\ insights = 0 /\ changed = FALSE
    /\ events = <<>> /\ noted = 0
    /\ days = 0 /\ placed = 0 /\ faults = 0
    /\ channel = <<>> /\ closed = FALSE
    /\ update = None /\ sequence = 0
    /\ working = {} /\ attempts = [t \in Tables |-> 0]
    /\ table = [t \in Tables |-> <<>>]
    /\ keys = [t \in Tables |-> {}]

(* The algorithm places an order.  The transaction manager is keyed by id. *)
PlaceOrder ==
    /\ pc = "running"
    /\ placed < MaxOrders
    /\ placed' = placed + 1
    /\ counter' = counter + 1
    /\ open' = {o \in open : o.id # counter'} \cup {[id |-> counter', order |-> placed']}
    /\ UNCHANGED <<pc, process, filled, insights, changed, events, noted, days, channel, closed,
                   writer, catalog, faults>>

FillOrder(o) ==
    /\ pc = "running"
    /\ o \in open
    /\ open' = open \ {o}
    /\ filled' = filled \cup {o.order}
    /\ events' = Append(events, o.order)
    /\ UNCHANGED <<pc, process, counter, insights, changed, noted, days, placed, channel, closed,
                   writer, catalog, faults>>

RefreshInsights ==
    /\ pc = "running"
    /\ insights < MaxInsights
    /\ insights' = insights + 1
    /\ changed' = TRUE
    /\ UNCHANGED <<pc, process, counter, open, filled, events, noted, days, placed, channel,
                   closed, writer, catalog, faults>>

(* emit_live_catalog_update: at the start, with order or insight events,   *)
(* and on a new day.  The loop waits while the channel is full.            *)
Due == pc = "starting" \/ changed \/ Len(events) > noted

CurrentUpdate ==
    [open |-> open, filled |-> filled, insights |-> insights,
     events |-> SubSeq(events, noted + 1, Len(events))]

EmitUpdate(newDay) ==
    /\ pc \in {"starting", "running"}
    /\ newDay = ~Due
    /\ ~closed
    /\ Len(channel) < ChannelSize
    /\ newDay => days < MaxDays
    /\ days' = IF newDay THEN days + 1 ELSE days
    /\ channel' = Append(channel, CurrentUpdate)
    /\ noted' = Len(events)
    /\ changed' = FALSE
    /\ pc' = "running"
    /\ UNCHANGED <<process, counter, open, filled, insights, events, placed, closed, writer,
                   catalog, faults>>

(* "live run-catalog stream closed": the run ends with an error at the     *)
(* next update, of a new day if of nothing else.                           *)
EmitFails ==
    /\ pc \in {"starting", "running"}
    /\ closed
    /\ pc' = "down"
    /\ UNCHANGED <<process, engine, channel, closed, writer, catalog, faults>>

---------------------------------------------------------------------------
(* The writer.  A table the update has no rows for is passed over.         *)
Receive ==
    /\ Up /\ ~closed
    /\ update = None
    /\ channel # <<>>
    /\ update' = Head(channel)
    /\ channel' = Tail(channel)
    /\ working' = {t \in Tables : t = "order_events" => Head(channel).events # <<>>}
    /\ attempts' = [t \in Tables |-> 0]
    /\ UNCHANGED <<pc, process, engine, closed, sequence, catalog, faults>>

(* append_idempotency_key.  Faults: of any process, of one attempt.        *)
SequenceKey == <<sequence>>
AttemptKey  == <<process, sequence, attempts>>

Key == <<process, sequence>>

Rows(t) ==
    IF t \in Fatal
    THEN <<Saves(t, update)>>
    ELSE [n \in DOMAIN update.events |-> [order |-> update.events[n], process |-> process]]

(* The rows reach the table, unless it has seen their key.                 *)
Commit(t) ==
    /\ keys' = [keys EXCEPT ![t] = @ \cup {Key}]
    /\ table' = IF Key \in keys[t] THEN table ELSE [table EXCEPT ![t] = @ \o Rows(t)]

AppendSucceeds(t) ==
    /\ Up /\ t \in working
    /\ Commit(t)
    /\ working' = working \ {t}
    /\ attempts' = [attempts EXCEPT ![t] = 0]
    /\ UNCHANGED <<pc, process, engine, channel, closed, update, sequence, faults>>

(* After the last attempt telemetry is dropped; a row of the restart state *)
(* ends the writer, and what the channel holds is lost.  Faults: all of it *)
(* counts as telemetry, or the insights do.                                *)
NeverFatal(t)      == FALSE
CheckpointFatal(t) == t = "checkpoints"

EndsWriter(t) == t \in Fatal

AppendFails(t, committed) ==
    /\ Up /\ t \in working
    /\ faults < MaxFaults
    /\ faults' = faults + 1
    /\ IF committed THEN Commit(t) ELSE UNCHANGED catalog
    /\ attempts' = [attempts EXCEPT ![t] = @ + 1]
    /\ IF attempts'[t] = Attempts /\ EndsWriter(t)
       THEN /\ closed' = TRUE
            /\ update' = None /\ working' = {} /\ channel' = <<>>
       ELSE /\ working' = IF attempts'[t] < Attempts THEN working ELSE working \ {t}
            /\ UNCHANGED <<update, channel, closed>>
    /\ UNCHANGED <<pc, process, engine, sequence>>

FinishUpdate ==
    /\ Up /\ update # None
    /\ working = {}
    /\ update' = None
    /\ sequence' = sequence + 1
    /\ UNCHANGED <<pc, process, engine, channel, closed, working, attempts, catalog, faults>>

---------------------------------------------------------------------------
(* The run ends in order, its last slice processed; the writer drains the  *)
(* channel first.                                                          *)
Stop ==
    /\ pc = "running" /\ ~Due
    /\ pc' = "stopping"
    /\ UNCHANGED <<process, engine, channel, closed, writer, catalog, faults>>

Exit ==
    /\ pc = "stopping"
    /\ closed \/ (channel = <<>> /\ update = None)
    /\ pc' = "down"
    /\ UNCHANGED <<process, engine, channel, closed, writer, catalog, faults>>

Crash ==
    /\ Up
    /\ pc' = "down"
    /\ channel' = <<>>
    /\ update' = None /\ working' = {}
    /\ UNCHANGED <<process, engine, closed, sequence, attempts, catalog, faults>>

(* load_live_restore.  How many rows of a table its query finds, of which  *)
(* the last one is taken: all, or fewer where the session precedes the     *)
(* snapshot with a committed append, the wall clock (recorded_at) was set  *)
(* back between two rows, or an error of the query counts as no events.    *)
Found(t) == IF t \in StaleReads THEN 0..Len(table[t]) ELSE {Len(table[t])}

Loaded(t, n) == IF n = 0 THEN Default(t) ELSE table[t][n]

(* A checkpoint with holdings and no insight state.                        *)
Refused(account, states) == states = 0 /\ account.filled # {}

Restart(checkpoints, states, rows) ==
    /\ pc = "down"
    /\ process < MaxProcesses
    /\ LET account == Loaded("checkpoints", checkpoints)
       IN  /\ ~Refused(account, states)
           /\ open' = account.open /\ filled' = account.filled
    /\ pc' = "starting"
    /\ process' = process + 1
    /\ insights' = Loaded("insight_state", states)
    /\ changed' = FALSE
    /\ events' = [n \in 1..rows |-> table.order_events[n].order]
    /\ noted' = rows
    /\ counter' = 0 /\ days' = 0
    /\ channel' = <<>> /\ closed' = FALSE
    /\ sequence' = 0 /\ attempts' = [t \in Tables |-> 0]
    /\ UNCHANGED <<placed, update, working, catalog, faults>>

---------------------------------------------------------------------------
Write ==
    \/ Receive
    \/ \E t \in Tables : AppendSucceeds(t)
    \/ FinishUpdate

Next ==
    \/ PlaceOrder
    \/ \E o \in open : FillOrder(o)
    \/ RefreshInsights
    \/ \E newDay \in BOOLEAN : EmitUpdate(newDay)
    \/ EmitFails
    \/ Receive
    \/ \E t \in Tables : AppendSucceeds(t)
    \/ \E t \in Tables, committed \in BOOLEAN : AppendFails(t, committed)
    \/ FinishUpdate
    \/ Stop
    \/ Exit
    \/ Crash
    \/ \E checkpoints \in Found("checkpoints"), states \in Found("insight_state"),
          rows \in Found("order_events") : Restart(checkpoints, states, rows)

Spec == Init /\ [][Next]_vars

(* The loop reaches the end of its slice, a new day comes, the writer task *)
(* is scheduled, and an ending process waits for it only.                  *)
FairSpec == Spec /\ WF_vars(EmitUpdate(FALSE)) /\ WF_vars(EmitFails) /\ WF_vars(Write) /\ WF_vars(Exit)

---------------------------------------------------------------------------
Open      == SUBSET [id : Orders, order : Orders]
Accounts  == [open : Open, filled : SUBSET Orders]
Values(t) == IF t = "checkpoints" THEN Accounts ELSE 0..MaxInsights
EventRows == [order : Orders, process : 1..MaxProcesses]
Updates   ==
    [open : Open, filled : SUBSET Orders, insights : 0..MaxInsights, events : Seq(Orders)]

ASSUME NoneAssumption == None \notin Updates

(* Every variable has its type.                                            *)

TypeOK ==
    /\ pc \in {"starting", "running", "stopping", "down"}
    /\ process \in 1..MaxProcesses
    /\ counter \in 0..MaxOrders /\ placed \in 0..MaxOrders
    /\ open \in Open /\ filled \subseteq Orders
    /\ insights \in 0..MaxInsights /\ changed \in BOOLEAN
    /\ events \in Seq(Orders) /\ noted \in 0..Len(events)
    /\ days \in 0..MaxDays /\ closed \in BOOLEAN
    /\ channel \in Seq(Updates) /\ Len(channel) =< ChannelSize
    /\ update = None \/ update \in Updates
    /\ sequence \in Nat /\ working \subseteq Tables /\ attempts \in [Tables -> 0..Attempts]
    /\ DOMAIN table = Tables /\ table.order_events \in Seq(EventRows)
    /\ \A t \in Fatal : table[t] \in Seq(Values(t))

(* The account a restart restores is one the run took a snapshot of, whole *)
(* and as it was: the snapshots reach the table in their order, none twice *)
(* and none left out before one that does, over failed, repeated and       *)
(* concurrent appends, crashes and new processes.  It is the last of them  *)
(* where the query is not stale.                                           *)
InTransit(t) == (IF t \in working /\ Key \notin keys[t] THEN <<update>> ELSE <<>>) \o channel

Phase        == IF ~Up THEN "down" ELSE IF closed THEN "lost" ELSE "saving"
Current(t)   == Saves(t, CurrentUpdate)
Snapshots(t) == [n \in DOMAIN InTransit(t) |-> Saves(t, InTransit(t)[n])]
Saved(t)     == <<Default(t)>> \o table[t]
IsFresh(t)   == t \notin StaleReads

SavedAccount == INSTANCE DurableState WITH
    States <- Values("checkpoints"), Fresh <- IsFresh("checkpoints"), phase <- Phase,
    current <- Current("checkpoints"), queue <- Snapshots("checkpoints"),
    saved <- Saved("checkpoints")

AccountIsDurable == SavedAccount!Spec

(* The same of the insight collection, in a table of its own.              *)
SavedInsights == INSTANCE DurableState WITH
    States <- Values("insight_state"), Fresh <- IsFresh("insight_state"), phase <- Phase,
    current <- Current("insight_state"), queue <- Snapshots("insight_state"),
    saved <- Saved("insight_state")

InsightsAreDurable == SavedInsights!Spec

(* "refuses an ambiguous restart because an empty framework can liquidate  *)
(* positions that still have active insight targets" (run_catalog.rs:241): *)
(* a process restores holdings with the insights that were saved last.     *)
HoldingsComeWithInsights ==
    [][pc = "down" /\ pc' = "starting" /\ filled' # {} =>
          insights' = Loaded("insight_state", Len(table.insight_state))]_vars

(* An order event is recorded at most once by a process, however often the *)
(* append of it is tried.                                                  *)
EventsRecordedOnce ==
    \A m, n \in DOMAIN table.order_events :
        table.order_events[m] = table.order_events[n] => m = n

(* A fill reaches the checkpoint committed last, or the process ends.      *)
FillsBecomeDurable ==
    \A n \in Orders :
        n \in filled /\ Up ~>
            n \in Loaded("checkpoints", Len(table.checkpoints)).filled \/ ~Up

(* "so no two live orders ever share an id" (qc_algorithm.rs:1109): a new  *)
(* order takes the place of no open order.                                 *)
IdsAreNew == [][placed' # placed => counter' \notin Ids(open)]_vars

=============================================================================
