------------------------- MODULE RunCatalog_proofs -------------------------
(***************************************************************************)
(* The state of a live run in its catalog, for any number of orders,       *)
(* processes and failures, any channel and any number of attempts: the     *)
(* types, the account and the insights as implementations of DurableState  *)
(* (whatever rows the queries of a restart find), and the events recorded  *)
(* once.                                                                   *)
(***************************************************************************)
EXTENDS RunCatalog, SequenceTheorems, TLAPS

(* The keys are of updates; a table the update still goes to has attempts  *)
(* left; an id was counted for an order.                                   *)
Typed ==
    /\ TypeOK
    /\ keys \in [Tables -> SUBSET (Nat \X Nat)]
    /\ \A t \in working : attempts[t] < Attempts
    /\ counter =< placed

(* Short sequences, and two in a row.                                      *)
LEMMA ShortSeq ==
    ASSUME NEW S, NEW x \in S
    PROVE  <<>> \in Seq(S) /\ <<x>> \in Seq(S)
OBVIOUS

LEMMA JoinedSeq ==
    ASSUME NEW S, NEW s \in Seq(S), NEW r \in Seq(S)
    PROVE  s \o r \in Seq(S)
OBVIOUS

LEMMA NoRows == \A S : <<>> \in Seq(S)
OBVIOUS

(* At the start of a run every variable has its type.                      *)
LEMMA StartsTyped == Init => Typed
<1> SUFFICES ASSUME Init PROVE Typed
  OBVIOUS
<1>1. channel \in Seq(Updates) /\ events \in Seq(Orders) /\ Len(channel) = 0 /\ Len(events) = 0
  BY DEF Init
<1>2. DOMAIN table = Tables /\ \A t \in Tables : table[t] = <<>>
  BY DEF Init
<1>3. attempts \in [Tables -> 0..Attempts] /\ keys \in [Tables -> SUBSET (Nat \X Nat)]
  BY CatalogAssumption DEF Init
<1>4. table.order_events \in Seq(EventRows) /\ \A t \in Fatal : table[t] \in Seq(Values(t))
  BY <1>2, NoRows DEF Tables, Fatal
<1>5. working = {} /\ update = None /\ pc = "starting" /\ process = 1
  BY DEF Init
<1>6. /\ open = {} /\ filled = {} /\ changed = FALSE /\ closed = FALSE
      /\ counter = 0 /\ placed = 0 /\ insights = 0 /\ noted = 0 /\ days = 0 /\ sequence = 0
  BY DEF Init
<1>7. /\ process \in 1..MaxProcesses /\ counter \in 0..MaxOrders /\ placed \in 0..MaxOrders
      /\ insights \in 0..MaxInsights /\ days \in 0..MaxDays /\ Len(channel) =< ChannelSize
  BY <1>1, <1>5, <1>6, CatalogAssumption
<1>8. /\ pc \in {"starting", "running", "stopping", "down"}
      /\ open \in Open /\ filled \subseteq Orders
      /\ noted \in 0..Len(events) /\ sequence \in Nat /\ working \subseteq Tables
  BY <1>1, <1>5, <1>6 DEF Open
<1>9. changed \in BOOLEAN /\ closed \in BOOLEAN
  BY DEF Init
<1>10. TypeOK
  BY <1>9, <1>1, <1>2, <1>3, <1>4, <1>5, <1>7, <1>8 DEF TypeOK
<1> QED BY <1>3, <1>5, <1>6, <1>10 DEF Typed

(* The update the loop sends.                                              *)
LEMMA CurrentUpdateType == TypeOK => CurrentUpdate \in Updates
<1> SUFFICES ASSUME TypeOK PROVE CurrentUpdate \in Updates
  OBVIOUS
<1>1. \A n \in noted + 1 .. Len(events) : events[n] \in Orders
  BY ElementOfSeq DEF TypeOK
<1>2. SubSeq(events, noted + 1, Len(events)) \in Seq(Orders)
  BY <1>1, SubSeqProperties DEF TypeOK
<1> QED BY <1>2 DEF CurrentUpdate, Updates, TypeOK

(* What an update saves in the tables of the restart state.                *)
LEMMA SavesType ==
    ASSUME NEW u \in Updates, NEW t \in Fatal
    PROVE  Saves(t, u) \in Values(t)
<1>1. u.insights \in 0..MaxInsights /\ u.open \in Open /\ u.filled \in SUBSET Orders
  BY DEF Updates
<1>2. Account(u) \in Accounts
  BY <1>1 DEF Account, Accounts
<1> QED BY <1>1, <1>2 DEF Saves, Values, Fatal

LEMMA DefaultType == \A t \in Fatal : Default(t) \in Values(t)
<1>1. [open |-> {}, filled |-> {}] \in Accounts
  BY DEF Accounts, Open
<1>2. 0 \in 0..MaxInsights
  BY CatalogAssumption
<1> QED BY <1>1, <1>2 DEF Default, Values, Fatal

(* The rows of an append.                                                  *)
LEMMA RowsType ==
    ASSUME TypeOK, update \in Updates
    PROVE  /\ Rows("order_events") \in Seq(EventRows)
           /\ \A t \in Fatal : Rows(t) = <<Saves(t, update)>> /\ Rows(t) \in Seq(Values(t))
<1> DEFINE new == [n \in DOMAIN update.events |-> [order |-> update.events[n], process |-> process]]
<1>1. update.events \in Seq(Orders) /\ process \in 1..MaxProcesses
  BY DEF Updates, TypeOK
<1>2. DOMAIN update.events = 1..Len(update.events) /\ Len(update.events) \in Nat
  BY <1>1
<1>3. \A n \in 1..Len(update.events) : update.events[n] \in Orders
  BY <1>1
<1>4. new \in Seq(EventRows)
  BY <1>1, <1>2, <1>3 DEF EventRows
<1>5. Rows("order_events") = new
  BY DEF Rows, Fatal
<1>6. \A t \in Fatal : Rows(t) = <<Saves(t, update)>>
  BY DEF Rows
<1>7. \A t \in Fatal : Saves(t, update) \in Values(t)
  BY SavesType
<1>8. \A t \in Fatal : Rows(t) \in Seq(Values(t))
  BY <1>6, <1>7, ShortSeq
<1> QED BY <1>4, <1>5, <1>6, <1>8

(* So a committed append keeps the types of the catalog.                   *)
LEMMA CommitType ==
    ASSUME Typed, update \in Updates, NEW t \in Tables, Commit(t)
    PROVE  /\ keys' \in [Tables -> SUBSET (Nat \X Nat)]
           /\ DOMAIN table' = Tables /\ table'.order_events \in Seq(EventRows)
           /\ \A u \in Fatal : table'[u] \in Seq(Values(u))
<1>1. Key \in Nat \X Nat
  BY DEF Key, Typed, TypeOK
<1>2. keys' \in [Tables -> SUBSET (Nat \X Nat)]
  BY <1>1 DEF Commit, Typed
<1>3. CASE table' = table
  BY <1>2, <1>3 DEF Typed, TypeOK
<1>4. CASE table' = [table EXCEPT ![t] = @ \o Rows(t)]
  <2>1. /\ DOMAIN table' = Tables
        /\ \A u \in Tables : table'[u] = IF u = t THEN table[t] \o Rows(t) ELSE table[u]
    BY <1>4 DEF Typed, TypeOK
  <2>2. "order_events" \in Tables /\ "order_events" \notin Fatal /\ Fatal \subseteq Tables
        /\ (t = "order_events" \/ t \in Fatal)
    BY DEF Tables, Fatal
  <2>3. table.order_events \in Seq(EventRows) /\ \A u \in Fatal : table[u] \in Seq(Values(u))
    BY DEF Typed, TypeOK
  <2>4. /\ Rows("order_events") \in Seq(EventRows) /\ \A u \in Fatal : Rows(u) \in Seq(Values(u))
    BY RowsType DEF Typed
  <2>5. table'["order_events"] \in Seq(EventRows)
    <3>1. CASE t = "order_events"
      BY <2>1, <2>2, <2>3, <2>4, <3>1, JoinedSeq
    <3>2. CASE t # "order_events"
      BY <2>1, <2>2, <2>3, <3>2
    <3> QED BY <3>1, <3>2
  <2>6. ASSUME NEW u \in Fatal PROVE table'[u] \in Seq(Values(u))
    <3>1. u \in Tables /\ table[u] \in Seq(Values(u)) /\ Rows(u) \in Seq(Values(u))
      BY <2>2, <2>3, <2>4
    <3>2. CASE u = t
      <4>1. table'[u] = table[u] \o Rows(u)
        BY <2>1, <3>1, <3>2
      <4> QED BY <3>1, <4>1, JoinedSeq
    <3>3. CASE u # t
      BY <2>1, <3>1, <3>3
    <3> QED BY <3>2, <3>3
  <2> QED BY <1>2, <2>1, <2>5, <2>6
<1> QED BY <1>3, <1>4 DEF Commit

---------------------------------------------------------------------------
(* The bounds are numbers.                                                 *)
LEMMA Bounds ==
    /\ ChannelSize \in Nat /\ ChannelSize > 0 /\ Attempts \in Nat /\ Attempts > 0
    /\ MaxProcesses \in Nat /\ MaxProcesses > 0
    /\ MaxOrders \in Nat /\ MaxInsights \in Nat /\ MaxDays \in Nat /\ MaxFaults \in Nat
BY CatalogAssumption

(* The loop: every variable keeps its type.                                *)
LEMMA LoopTyped ==
    ASSUME Typed,
           \/ PlaceOrder \/ (\E o \in open : FillOrder(o)) \/ RefreshInsights
           \/ (\E newDay \in BOOLEAN : EmitUpdate(newDay)) \/ EmitFails \/ Stop \/ Exit \/ Crash
    PROVE  Typed'
<1> USE DEF engine, writer, catalog
<1>1. CASE PlaceOrder
  <2>1. /\ placed \in 0..MaxOrders /\ counter \in 0..MaxOrders /\ counter =< placed
        /\ placed < MaxOrders /\ placed' = placed + 1 /\ counter' = counter + 1
    BY <1>1 DEF PlaceOrder, Typed, TypeOK
  <2>2. /\ placed' \in 0..MaxOrders /\ counter' \in 0..MaxOrders /\ counter' =< placed'
        /\ placed' \in Orders /\ counter' \in Orders
    BY <2>1, Bounds DEF Orders
  <2>3. open' \in Open
    BY <1>1, <2>2 DEF PlaceOrder, Typed, TypeOK, Open
  <2> QED BY <1>1, <2>2, <2>3 DEF PlaceOrder, Typed, TypeOK
<1>2. ASSUME NEW o \in open, FillOrder(o) PROVE Typed'
  <2>1. o.order \in Orders /\ open' \in Open
    BY <1>2 DEF FillOrder, Typed, TypeOK, Open
  <2>2. events' \in Seq(Orders) /\ Len(events') = Len(events) + 1
    BY <1>2, <2>1 DEF FillOrder, Typed, TypeOK
  <2>3. noted' \in 0..Len(events') /\ filled' \subseteq Orders
    BY <1>2, <2>1, <2>2 DEF FillOrder, Typed, TypeOK
  <2> QED BY <1>2, <2>1, <2>2, <2>3 DEF FillOrder, Typed, TypeOK
<1>3. CASE RefreshInsights
  <2>1. insights' \in 0..MaxInsights
    BY <1>3, Bounds DEF RefreshInsights, Typed, TypeOK
  <2> QED BY <1>3, <2>1 DEF RefreshInsights, Typed, TypeOK
<1>4. ASSUME NEW newDay \in BOOLEAN, EmitUpdate(newDay) PROVE Typed'
  <2>1. channel' \in Seq(Updates) /\ Len(channel') = Len(channel) + 1
    BY <1>4, CurrentUpdateType DEF EmitUpdate, Typed, TypeOK
  <2>2. Len(channel') =< ChannelSize
    BY <1>4, <2>1, Bounds DEF EmitUpdate, Typed, TypeOK
  <2>3. noted' \in 0..Len(events')
    BY <1>4 DEF EmitUpdate, Typed, TypeOK
  <2>4. days' \in 0..MaxDays
    BY <1>4, Bounds DEF EmitUpdate, Typed, TypeOK
  <2> QED BY <1>4, <2>1, <2>2, <2>3, <2>4 DEF EmitUpdate, Typed, TypeOK
<1>5. CASE EmitFails \/ Stop \/ Exit
  BY <1>5 DEF EmitFails, Stop, Exit, Typed, TypeOK
<1>6. CASE Crash
  <2>1. channel' \in Seq(Updates) /\ Len(channel') =< ChannelSize
    BY <1>6, Bounds DEF Crash
  <2> QED BY <1>6, <2>1 DEF Crash, Typed, TypeOK
<1> QED BY <1>1, <1>2, <1>3, <1>4, <1>5, <1>6

(* The writer.                                                             *)
LEMMA WriterTyped ==
    ASSUME Typed, update = None => working = {},
           Receive \/ FinishUpdate \/ (\E t \in Tables : AppendSucceeds(t))
           \/ (\E t \in Tables, committed \in BOOLEAN : AppendFails(t, committed))
    PROVE  Typed'
<1> USE DEF engine, writer, catalog
<1>1. CASE Receive
  <2>1. /\ Head(channel) \in Updates /\ Tail(channel) \in Seq(Updates)
        /\ Len(Tail(channel)) =< ChannelSize
    BY <1>1, Bounds DEF Receive, Typed, TypeOK
  <2>2. attempts' \in [Tables -> 0..Attempts] /\ \A t \in Tables : attempts'[t] < Attempts
    BY <1>1, Bounds DEF Receive
  <2>3. working' \subseteq Tables
    BY <1>1 DEF Receive
  <2> QED BY <1>1, <2>1, <2>2, <2>3 DEF Receive, Typed, TypeOK
<1>2. CASE FinishUpdate
  BY <1>2 DEF FinishUpdate, Typed, TypeOK
<1>3. ASSUME NEW t \in Tables, AppendSucceeds(t) PROVE Typed'
  <2>1. update \in Updates
    BY <1>3 DEF AppendSucceeds, Typed, TypeOK
  <2>2. /\ keys' \in [Tables -> SUBSET (Nat \X Nat)]
        /\ DOMAIN table' = Tables /\ table'.order_events \in Seq(EventRows)
        /\ \A u \in Fatal : table'[u] \in Seq(Values(u))
    BY <1>3, <2>1, CommitType DEF AppendSucceeds
  <2>3. /\ attempts' \in [Tables -> 0..Attempts]
        /\ \A u \in working' : attempts'[u] < Attempts
    <3>1. attempts' = [attempts EXCEPT ![t] = 0] /\ working' = working \ {t}
      BY <1>3 DEF AppendSucceeds
    <3>2. attempts \in [Tables -> 0..Attempts] /\ \A u \in working : attempts[u] < Attempts
      BY DEF Typed, TypeOK
    <3> QED BY <3>1, <3>2, Bounds
  <2>4. working' \subseteq Tables
    BY <1>3 DEF AppendSucceeds, Typed, TypeOK
  <2> QED BY <1>3, <2>2, <2>3, <2>4 DEF AppendSucceeds, Typed, TypeOK
<1>4. ASSUME NEW t \in Tables, NEW committed \in BOOLEAN, AppendFails(t, committed) PROVE Typed'
  <2>1. update \in Updates /\ attempts[t] < Attempts
    BY <1>4 DEF AppendFails, Typed, TypeOK
  <2>2. /\ keys' \in [Tables -> SUBSET (Nat \X Nat)]
        /\ DOMAIN table' = Tables /\ table'.order_events \in Seq(EventRows)
        /\ \A u \in Fatal : table'[u] \in Seq(Values(u))
    <3>1. CASE committed
      BY <1>4, <2>1, <3>1, CommitType DEF AppendFails
    <3>2. CASE ~committed
      BY <1>4, <3>2 DEF AppendFails, Typed, TypeOK
    <3> QED BY <3>1, <3>2
  <2>3. /\ attempts' \in [Tables -> 0..Attempts]
        /\ \A u \in Tables : attempts'[u] = IF u = t THEN attempts[t] + 1 ELSE attempts[u]
    <3>1. attempts' = [attempts EXCEPT ![t] = @ + 1]
      BY <1>4 DEF AppendFails
    <3>2. attempts \in [Tables -> 0..Attempts] /\ attempts[t] + 1 \in 0..Attempts
      BY <2>1, Bounds DEF Typed, TypeOK
    <3> QED BY <3>1, <3>2
  <2>4. CASE attempts'[t] = Attempts /\ EndsWriter(t)
    <3>1. closed' = TRUE /\ update' = None /\ working' = {} /\ channel' = <<>>
      BY <1>4, <2>4 DEF AppendFails
    <3>2. channel' \in Seq(Updates) /\ Len(channel') =< ChannelSize
      BY <3>1, Bounds
    <3> QED BY <1>4, <2>2, <2>3, <3>1, <3>2 DEF AppendFails, Typed, TypeOK
  <2>5. CASE ~(attempts'[t] = Attempts /\ EndsWriter(t))
    <3>1. /\ working' = IF attempts'[t] < Attempts THEN working ELSE working \ {t}
          /\ UNCHANGED <<update, channel, closed>>
      BY <1>4, <2>5 DEF AppendFails
    <3>2. working' \subseteq Tables /\ \A u \in working' : attempts'[u] < Attempts
      BY <2>3, <3>1 DEF Typed, TypeOK
    <3> QED BY <1>4, <2>2, <2>3, <3>1, <3>2 DEF AppendFails, Typed, TypeOK
  <2> QED BY <2>4, <2>5
<1> QED BY <1>1, <1>2, <1>3, <1>4

(* The rows a query finds are rows of the table.                           *)
LEMMA FoundType == Typed => \A t \in Tables : \A n \in Found(t) : n \in 0..Len(table[t])
<1> SUFFICES ASSUME Typed, NEW t \in Tables, NEW n \in Found(t) PROVE n \in 0..Len(table[t])
  OBVIOUS
<1>1. Len(table[t]) \in Nat
  BY DEF Typed, TypeOK, Tables, Fatal
<1> QED BY <1>1 DEF Found

LEMMA LoadedType ==
    ASSUME Typed, NEW t \in Fatal, NEW n \in 0..Len(table[t])
    PROVE  Loaded(t, n) \in Values(t)
<1>1. table[t] \in Seq(Values(t))
  BY DEF Typed, TypeOK
<1>2. Len(table[t]) \in Nat /\ \A m \in 1..Len(table[t]) : table[t][m] \in Values(t)
  BY <1>1
<1>3. n = 0 \/ n \in 1..Len(table[t])
  BY <1>2
<1> QED BY <1>2, <1>3, DefaultType DEF Loaded

(* A new process.                                                          *)
LEMMA RestartTyped ==
    ASSUME Typed, NEW checkpoints \in Found("checkpoints"), NEW states \in Found("insight_state"),
           NEW rows \in Found("order_events"), Restart(checkpoints, states, rows), working = {}
    PROVE  Typed'
<1> USE DEF engine, writer, catalog
<1>1. /\ Loaded("checkpoints", checkpoints) \in Accounts
      /\ Loaded("insight_state", states) \in 0..MaxInsights
  <2>1. /\ checkpoints \in 0..Len(table["checkpoints"])
        /\ states \in 0..Len(table["insight_state"])
    BY FoundType DEF Tables
  <2>2. /\ Loaded("checkpoints", checkpoints) \in Values("checkpoints")
        /\ Loaded("insight_state", states) \in Values("insight_state")
    BY <2>1, LoadedType DEF Fatal
  <2> QED BY <2>2 DEF Values
<1>2. open' \in Open /\ filled' \subseteq Orders
  BY <1>1 DEF Restart, Accounts
<1>3. insights' \in 0..MaxInsights
  BY <1>1 DEF Restart
<1>4. events' \in Seq(Orders) /\ Len(events') = rows /\ rows \in Nat
  <2>1. table.order_events \in Seq(EventRows) /\ rows \in 0..Len(table.order_events)
    BY FoundType DEF Typed, TypeOK, Tables
  <2>2. rows \in Nat /\ \A n \in 1..rows : table.order_events[n] \in EventRows
    BY <2>1
  <2>3. \A row \in EventRows : row.order \in Orders
    BY DEF EventRows
  <2>4. events' = [n \in 1..rows |-> table.order_events[n].order]
    BY DEF Restart
  <2> QED BY <2>2, <2>3, <2>4
<1>5. process' \in 1..MaxProcesses
  BY Bounds DEF Restart, Typed, TypeOK
<1>6. /\ channel' \in Seq(Updates) /\ Len(channel') =< ChannelSize
      /\ noted' \in 0..Len(events') /\ counter' \in 0..MaxOrders /\ counter' =< placed'
      /\ days' \in 0..MaxDays /\ sequence' \in Nat /\ attempts' \in [Tables -> 0..Attempts]
  BY <1>4, Bounds DEF Restart, Typed, TypeOK
<1> QED BY <1>2, <1>3, <1>4, <1>5, <1>6 DEF Restart, Typed, TypeOK

---------------------------------------------------------------------------
(* Nothing is appended without an update, and nothing is on its way once   *)
(* the writer or the process has ended.                                    *)
Waiting ==
    /\ update = None => working = {}
    /\ closed \/ ~Up => channel = <<>> /\ update = None

(* The tables have seen the keys of earlier updates only, and that of the  *)
(* one being appended.                                                     *)
KeysSeen ==
    /\ \A t \in Tables : \A k \in keys[t] :
          k[1] =< process /\ (k[1] = process => k[2] =< sequence)
    /\ update = None /\ Up /\ ~closed => \A t \in Tables : Key \notin keys[t]

Sound == Typed /\ Waiting /\ KeysSeen

(* The invariant of the types, the queue and the keys holds at the start.  *)
LEMMA StartsSound == Init => Sound
<1> SUFFICES ASSUME Init PROVE Sound
  OBVIOUS
<1>1. Waiting
  BY DEF Init, Waiting, Up
<1>2. KeysSeen
  BY DEF Init, KeysSeen
<1> QED BY <1>1, <1>2, StartsTyped DEF Sound

(* Every step keeps the types.                                             *)
LEMMA StepTyped == Typed /\ Waiting /\ [Next]_vars => Typed'
<1> SUFFICES ASSUME Typed, Waiting, [Next]_vars PROVE Typed'
  OBVIOUS
<1>1. CASE \/ PlaceOrder \/ (\E o \in open : FillOrder(o)) \/ RefreshInsights
           \/ (\E newDay \in BOOLEAN : EmitUpdate(newDay)) \/ EmitFails \/ Stop \/ Exit \/ Crash
  BY <1>1, LoopTyped
<1>2. CASE Receive \/ FinishUpdate \/ (\E t \in Tables : AppendSucceeds(t))
           \/ (\E t \in Tables, committed \in BOOLEAN : AppendFails(t, committed))
  BY <1>2, WriterTyped DEF Waiting
<1>3. ASSUME NEW checkpoints \in Found("checkpoints"), NEW states \in Found("insight_state"),
             NEW rows \in Found("order_events"), Restart(checkpoints, states, rows)
      PROVE  Typed'
  BY <1>3, RestartTyped DEF Restart, Waiting, Up
<1>4. CASE UNCHANGED vars
  BY <1>4 DEF vars, engine, writer, catalog, Typed, TypeOK
<1> QED BY <1>1, <1>2, <1>3, <1>4 DEF Next

(* No step leaves an update on its way that nobody will append.            *)
LEMMA StepWaiting == Typed /\ Waiting /\ [Next]_vars => Waiting'
<1> SUFFICES ASSUME Typed, Waiting, [Next]_vars PROVE Waiting'
  OBVIOUS
<1> USE DEF engine, writer, catalog, Waiting, Up
<1>1. CASE \/ PlaceOrder \/ (\E o \in open : FillOrder(o)) \/ RefreshInsights
           \/ (\E newDay \in BOOLEAN : EmitUpdate(newDay)) \/ EmitFails \/ Stop \/ Exit \/ Crash
  BY <1>1 DEF PlaceOrder, FillOrder, RefreshInsights, EmitUpdate, EmitFails, Stop, Exit, Crash
<1>2. CASE Receive
  <2>1. update' # None
    BY <1>2, NoneAssumption DEF Receive, Typed, TypeOK
  <2> QED BY <1>2, <2>1 DEF Receive
<1>3. CASE FinishUpdate
  BY <1>3 DEF FinishUpdate
<1>4. ASSUME NEW t \in Tables, AppendSucceeds(t) PROVE Waiting'
  BY <1>4 DEF AppendSucceeds
<1>5. ASSUME NEW t \in Tables, NEW committed \in BOOLEAN, AppendFails(t, committed) PROVE Waiting'
  BY <1>5 DEF AppendFails
<1>6. ASSUME NEW checkpoints \in Found("checkpoints"), NEW states \in Found("insight_state"),
             NEW rows \in Found("order_events"), Restart(checkpoints, states, rows)
      PROVE  Waiting'
  BY <1>6 DEF Restart
<1>7. CASE UNCHANGED vars
  BY <1>7 DEF vars
<1> QED BY <1>1, <1>2, <1>3, <1>4, <1>5, <1>6, <1>7 DEF Next

(* The only key an append adds is that of the update.                      *)
LEMMA CommitKeys ==
    ASSUME Typed, NEW t \in Tables, Commit(t)
    PROVE  \A u \in Tables : keys'[u] \subseteq keys[u] \cup {Key}
BY DEF Commit, Typed

(* A key is seen only once its update is being appended.                   *)
LEMMA StepKeysSeen == Typed /\ Waiting /\ KeysSeen /\ [Next]_vars => KeysSeen'
<1> SUFFICES ASSUME Typed, Waiting, KeysSeen, [Next]_vars PROVE KeysSeen'
  OBVIOUS
<1> USE DEF engine, writer, catalog, Up
<1>1. CASE UNCHANGED <<process, sequence, keys>> /\ (update' = None /\ pc' # "down" /\ ~closed'
                                                        => update = None /\ pc # "down" /\ ~closed)
  BY <1>1 DEF KeysSeen, Key
<1>2. CASE \/ PlaceOrder \/ (\E o \in open : FillOrder(o)) \/ RefreshInsights
           \/ (\E newDay \in BOOLEAN : EmitUpdate(newDay)) \/ EmitFails \/ Stop \/ Exit \/ Crash
           \/ UNCHANGED vars
  BY <1>1, <1>2 DEF PlaceOrder, FillOrder, RefreshInsights, EmitUpdate, EmitFails, Stop, Exit,
                    Crash, vars
<1>3. CASE Receive
  BY <1>1, <1>3 DEF Receive
<1>4. CASE FinishUpdate
  <2>1. sequence \in Nat /\ sequence' = sequence + 1 /\ process' = process /\ keys' = keys
    BY <1>4 DEF FinishUpdate, Typed, TypeOK
  <2>2. \A t \in Tables : \A k \in keys[t] : k[2] \in Nat
    BY DEF Typed
  <2>3. \A t \in Tables : \A k \in keys[t] : k[1] = process => k[2] < sequence'
    BY <2>1, <2>2 DEF KeysSeen
  <2> QED BY <2>1, <2>2, <2>3 DEF KeysSeen, Key
<1>5. ASSUME NEW t \in Tables, UNCHANGED <<process, sequence>>, Commit(t),
             update' # None \/ pc' = "down" \/ closed'
      PROVE  KeysSeen'
  <2>1. sequence \in Nat /\ process \in Nat
    BY DEF Typed, TypeOK
  <2>2. Key[1] = process /\ Key[2] = sequence
    BY DEF Key
  <2> QED BY <1>5, <2>1, <2>2, CommitKeys DEF KeysSeen
<1>6. ASSUME NEW t \in Tables, AppendSucceeds(t) PROVE KeysSeen'
  <2>1. update # None
    BY <1>6 DEF AppendSucceeds, Waiting
  <2> QED BY <1>5, <1>6, <2>1 DEF AppendSucceeds
<1>7. ASSUME NEW t \in Tables, NEW committed \in BOOLEAN, AppendFails(t, committed) PROVE KeysSeen'
  <2>1. update # None
    BY <1>7 DEF AppendFails, Waiting
  <2>2. update' # None \/ closed'
    BY <1>7, <2>1 DEF AppendFails
  <2>3. CASE committed
    BY <1>5, <1>7, <2>2, <2>3 DEF AppendFails
  <2>4. CASE ~committed
    BY <1>1, <1>7, <2>2, <2>4 DEF AppendFails
  <2> QED BY <2>3, <2>4
<1>8. ASSUME NEW checkpoints \in Found("checkpoints"), NEW states \in Found("insight_state"),
             NEW rows \in Found("order_events"), Restart(checkpoints, states, rows)
      PROVE  KeysSeen'
  <2>1. process \in Nat /\ process' = process + 1 /\ keys' = keys
    BY <1>8 DEF Restart, Typed, TypeOK
  <2>2. \A t \in Tables : \A k \in keys[t] : k[1] \in Nat /\ k[1] < process'
    BY <2>1 DEF KeysSeen, Typed
  <2> QED BY <2>1, <2>2 DEF KeysSeen, Key
<1> QED BY <1>2, <1>3, <1>4, <1>6, <1>7, <1>8 DEF Next

(* So the invariant is inductive.                                          *)
LEMMA StaysSound == Sound /\ [Next]_vars => Sound'
BY StepTyped, StepWaiting, StepKeysSeen DEF Sound

(* Every variable has its type, in every process of a deployment.          *)
THEOREM CatalogTyped == Spec => []TypeOK
<1>1. Sound => TypeOK
  BY DEF Sound, Typed
<1> QED BY <1>1, StartsSound, StaysSound, PTL DEF Spec

---------------------------------------------------------------------------
(* What a table keeps of a sequence of updates.                            *)
SavesOf(t, s) == [n \in DOMAIN s |-> Saves(t, s[n])]

LEMMA SavesOfType ==
    ASSUME NEW t \in Fatal, NEW s \in Seq(Updates)
    PROVE  /\ SavesOf(t, s) \in Seq(Values(t)) /\ Len(SavesOf(t, s)) = Len(s)
           /\ \A n \in 1..Len(s) : SavesOf(t, s)[n] = Saves(t, s[n])
<1>1. \A u \in Updates : Saves(t, u) \in Values(t)
  BY SavesType
<1>2. DOMAIN s = 1..Len(s) /\ Len(s) \in Nat /\ \A n \in 1..Len(s) : s[n] \in Updates
  OBVIOUS
<1>3. SavesOf(t, s) \in [1..Len(s) -> Values(t)]
  BY <1>1, <1>2 DEF SavesOf
<1> QED BY <1>2, <1>3 DEF SavesOf

(* An update more is a state more.                                         *)
LEMMA SavesOfAppend ==
    ASSUME NEW t \in Fatal, NEW s \in Seq(Updates), NEW u \in Updates
    PROVE  SavesOf(t, Append(s, u)) = Append(SavesOf(t, s), Saves(t, u))
<1>1. /\ Append(s, u) \in Seq(Updates) /\ Len(Append(s, u)) = Len(s) + 1 /\ Len(s) \in Nat
      /\ \A n \in 1..Len(s) : Append(s, u)[n] = s[n]
      /\ Append(s, u)[Len(s) + 1] = u
  BY AppendProperties
<1>2. /\ SavesOf(t, s) \in Seq(Values(t)) /\ Len(SavesOf(t, s)) = Len(s)
      /\ \A n \in 1..Len(s) : SavesOf(t, s)[n] = Saves(t, s[n])
  BY SavesOfType
<1>3. Saves(t, u) \in Values(t)
  BY SavesType
<1>4. /\ SavesOf(t, Append(s, u)) \in Seq(Values(t)) /\ Len(SavesOf(t, Append(s, u))) = Len(s) + 1
      /\ \A n \in 1..Len(s) + 1 : SavesOf(t, Append(s, u))[n] = Saves(t, Append(s, u)[n])
  BY <1>1, SavesOfType
<1>5. /\ Append(SavesOf(t, s), Saves(t, u)) \in Seq(Values(t))
      /\ Len(Append(SavesOf(t, s), Saves(t, u))) = Len(s) + 1
      /\ \A n \in 1..Len(s) : Append(SavesOf(t, s), Saves(t, u))[n] = SavesOf(t, s)[n]
      /\ Append(SavesOf(t, s), Saves(t, u))[Len(s) + 1] = Saves(t, u)
  BY <1>2, <1>3, AppendProperties
<1>6. \A n \in 1..Len(s) + 1 : n \in 1..Len(s) \/ n = Len(s) + 1
  BY <1>1
<1>7. \A n \in 1..Len(s) + 1 :
          SavesOf(t, Append(s, u))[n] = Append(SavesOf(t, s), Saves(t, u))[n]
  BY <1>1, <1>2, <1>4, <1>5, <1>6
<1> QED BY <1>4, <1>5, <1>7, SeqEqual

(* The first of them, and the others.                                      *)
LEMMA SavesOfFirst ==
    ASSUME NEW t \in Fatal, NEW s \in Seq(Updates), NEW u \in Updates
    PROVE  /\ SavesOf(t, <<u>> \o s) # <<>>
           /\ Head(SavesOf(t, <<u>> \o s)) = Saves(t, u)
           /\ Tail(SavesOf(t, <<u>> \o s)) = SavesOf(t, s)
           /\ 1 \in DOMAIN SavesOf(t, <<u>> \o s)
           /\ SavesOf(t, <<u>> \o s)[1] = Saves(t, u)
<1> DEFINE q == <<u>> \o s
<1>1. /\ q \in Seq(Updates) /\ Len(q) = 1 + Len(s) /\ Len(s) \in Nat
      /\ \A n \in 1..1 + Len(s) : q[n] = IF n =< 1 THEN u ELSE s[n - 1]
  BY ConcatProperties
<1>2. /\ SavesOf(t, q) \in Seq(Values(t)) /\ Len(SavesOf(t, q)) = 1 + Len(s)
      /\ \A n \in 1..1 + Len(s) : SavesOf(t, q)[n] = Saves(t, q[n])
  BY <1>1, SavesOfType
<1>3. /\ SavesOf(t, s) \in Seq(Values(t)) /\ Len(SavesOf(t, s)) = Len(s)
      /\ \A n \in 1..Len(s) : SavesOf(t, s)[n] = Saves(t, s[n])
  BY SavesOfType
<1>4. SavesOf(t, q)[1] = Saves(t, u) /\ SavesOf(t, q) # <<>> /\ 1 \in DOMAIN SavesOf(t, q)
  BY <1>1, <1>2
<1>5. /\ Tail(SavesOf(t, q)) \in Seq(Values(t)) /\ Len(Tail(SavesOf(t, q))) = Len(s)
      /\ \A n \in 1..Len(s) : Tail(SavesOf(t, q))[n] = SavesOf(t, q)[n + 1]
  BY <1>1, <1>2, <1>4, HeadTailProperties
<1>6. \A n \in 1..Len(s) : Tail(SavesOf(t, q))[n] = SavesOf(t, s)[n]
  BY <1>1, <1>2, <1>3, <1>5
<1>7. Tail(SavesOf(t, q)) = SavesOf(t, s)
  BY <1>3, <1>5, <1>6, SeqEqual
<1>8. Head(SavesOf(t, q)) = SavesOf(t, q)[1]
  BY <1>2, <1>4
<1> QED BY <1>4, <1>7, <1>8

(* What is on its way in the update that is being appended.                *)
Unsaved(t) == t \in working /\ Key \notin keys[t]

OnTheWay(t) ==
    /\ Unsaved(t) => update \in Updates /\ Snapshots(t) = SavesOf(t, <<update>> \o channel)
    /\ ~Unsaved(t) => Snapshots(t) = SavesOf(t, channel)
    /\ closed \/ ~Up => Snapshots(t) = <<>>

(* This holds in every state of the invariant, and in the next.            *)
LEMMA SnapshotsAre == Typed /\ Waiting => \A t \in Fatal : OnTheWay(t)
<1> SUFFICES ASSUME Typed, Waiting, NEW t \in Fatal PROVE OnTheWay(t)
  OBVIOUS
<1>1. channel \in Seq(Updates)
  BY DEF Typed, TypeOK
<1>2. <<>> \o channel = channel
  BY <1>1, ConcatEmptySeq
<1>3. ASSUME Unsaved(t) PROVE update \in Updates /\ Snapshots(t) = SavesOf(t, <<update>> \o channel)
  <2>1. update # None
    BY <1>3 DEF Unsaved, Waiting
  <2> QED BY <1>3, <2>1 DEF Unsaved, Snapshots, InTransit, SavesOf, Typed, TypeOK
<1>4. ASSUME ~Unsaved(t) PROVE Snapshots(t) = SavesOf(t, channel)
  BY <1>2, <1>4 DEF Unsaved, Snapshots, InTransit, SavesOf
<1>5. ASSUME closed \/ ~Up PROVE Snapshots(t) = <<>>
  <2>1. channel = <<>> /\ ~Unsaved(t)
    BY <1>5 DEF Waiting, Unsaved
  <2>2. SavesOf(t, <<>>) = <<>>
    BY DEF SavesOf
  <2> QED BY <1>4, <2>1, <2>2
<1> QED BY <1>3, <1>4, <1>5 DEF OnTheWay

LEMMA SnapshotsNextAre == (Typed /\ Waiting => \A t \in Fatal : OnTheWay(t))'
BY SnapshotsAre, PTL

(* An append to the table, unless it is a repetition, and to another one.  *)
LEMMA CommitSaves ==
    ASSUME Typed, update \in Updates, NEW t \in Fatal, NEW u \in Tables, Commit(u)
    PROVE  /\ u # t => table'[t] = table[t] /\ keys'[t] = keys[t]
           /\ u = t => Key \in keys'[t]
           /\ u = t /\ Key \in keys[t] => table'[t] = table[t]
           /\ u = t /\ Key \notin keys[t] => table'[t] = Append(table[t], Saves(t, update))
<1>1. DOMAIN table = Tables /\ t \in Tables /\ keys \in [Tables -> SUBSET (Nat \X Nat)]
  BY DEF Typed, TypeOK, Tables, Fatal
<1>2. Rows(t) = <<Saves(t, update)>>
  BY RowsType DEF Typed
<1>3. keys'[t] = IF u = t THEN keys[t] \cup {Key} ELSE keys[t]
  BY <1>1 DEF Commit
<1>4. Key \in keys[u] => table' = table
  BY DEF Commit
<1>5. Key \notin keys[u] => table'[t] = IF u = t THEN table[t] \o Rows(t) ELSE table[t]
  BY <1>1 DEF Commit
<1>6. table[t] \o Rows(t) = Append(table[t], Saves(t, update))
  <2>1. table[t] \in Seq(Values(t)) /\ Saves(t, update) \in Values(t)
    BY SavesType DEF Typed, TypeOK
  <2> QED BY <1>2, <2>1, AppendIsConcat
<1> QED BY <1>3, <1>4, <1>5, <1>6

(* What a restart may find: the rows saved, behind what stands for none.   *)
LEMMA SavedType ==
    ASSUME Typed, NEW t \in Fatal
    PROVE  /\ table[t] \in Seq(Values(t)) /\ Len(table[t]) \in Nat
           /\ Saved(t) \in Seq(Values(t)) /\ Len(Saved(t)) = Len(table[t]) + 1
           /\ \A n \in 0..Len(table[t]) : n + 1 \in DOMAIN Saved(t)
                                          /\ Saved(t)[n + 1] = Loaded(t, n)
<1>1. table[t] \in Seq(Values(t)) /\ Len(table[t]) \in Nat
  BY DEF Typed, TypeOK
<1>2. <<Default(t)>> \in Seq(Values(t)) /\ Len(<<Default(t)>>) = 1
  BY DefaultType
<1>3. /\ Saved(t) \in Seq(Values(t)) /\ Len(Saved(t)) = 1 + Len(table[t])
      /\ \A n \in 1..1 + Len(table[t]) :
            Saved(t)[n] = IF n =< 1 THEN <<Default(t)>>[n] ELSE table[t][n - 1]
  BY <1>1, <1>2, ConcatProperties DEF Saved
<1>4. DOMAIN Saved(t) = 1..1 + Len(table[t])
  BY <1>3
<1>5. ASSUME NEW n \in 0..Len(table[t])
      PROVE  n + 1 \in 1..1 + Len(table[t]) /\ Saved(t)[n + 1] = Loaded(t, n)
  <2>1. n + 1 \in 1..1 + Len(table[t]) /\ n + 1 - 1 = n /\ (n + 1 =< 1 <=> n = 0)
    BY <1>1
  <2>2. Saved(t)[n + 1] = IF n = 0 THEN <<Default(t)>>[n + 1] ELSE table[t][n]
    BY <1>3, <2>1
  <2> QED BY <2>1, <2>2 DEF Loaded
<1> QED BY <1>1, <1>3, <1>4, <1>5

LEMMA SavedAppend ==
    ASSUME Typed, NEW t \in Fatal, NEW v \in Values(t), table'[t] = Append(table[t], v)
    PROVE  Saved(t)' = Append(Saved(t), v)
<1>1. table[t] \in Seq(Values(t)) /\ <<Default(t)>> \in Seq(Values(t))
  BY DefaultType DEF Typed, TypeOK
<1>2. <<Default(t)>> \o Append(table[t], v) = Append(<<Default(t)>> \o table[t], v)
  BY <1>1
<1>3. Default(t)' = Default(t)
  BY DEF Default
<1> QED BY <1>2, <1>3 DEF Saved

---------------------------------------------------------------------------
(* The table of a restart's state implements DurableState.                 *)
Durable(t) == INSTANCE DurableState WITH
    States <- Values(t), Fresh <- IsFresh(t), phase <- Phase,
    current <- Current(t), queue <- Snapshots(t), saved <- Saved(t)

(* What it saves is the state of the loop.                                 *)
LEMMA CurrentType ==
    Typed => \A t \in Fatal : /\ Current(t) \in Values(t)
                              /\ Current(t) = Saves(t, [open |-> open, filled |-> filled,
                                                        insights |-> insights])
<1> SUFFICES ASSUME Typed, NEW t \in Fatal
             PROVE  /\ Current(t) \in Values(t)
                    /\ Current(t) = Saves(t, [open |-> open, filled |-> filled,
                                              insights |-> insights])
  OBVIOUS
<1>1. CurrentUpdate \in Updates
  BY CurrentUpdateType DEF Typed
<1>2. Current(t) \in Values(t)
  BY <1>1, SavesType DEF Current
<1> QED BY <1>2 DEF Current, Saves, Account, CurrentUpdate

LEMMA CurrentNextType ==
    (Typed => \A t \in Fatal : /\ Current(t) \in Values(t)
                               /\ Current(t) = Saves(t, [open |-> open, filled |-> filled,
                                                         insights |-> insights]))'
BY CurrentType, PTL

(* So it changes with the account and the insights only.                   *)
LEMMA SameCurrent ==
    Typed /\ Typed' /\ UNCHANGED <<open, filled, insights>> => \A t \in Fatal : UNCHANGED Current(t)
<1> SUFFICES ASSUME Typed, Typed', UNCHANGED <<open, filled, insights>>, NEW t \in Fatal
             PROVE  Current(t)' = Current(t)
  OBVIOUS
<1>1. CurrentUpdate'.open = CurrentUpdate.open /\ CurrentUpdate'.filled = CurrentUpdate.filled
      /\ CurrentUpdate'.insights = CurrentUpdate.insights
  BY DEF CurrentUpdate
<1> QED BY <1>1 DEF Current, Saves, Account

LEMMA StartsDurable == Init => \A t \in Fatal : Durable(t)!Init
<1> SUFFICES ASSUME Init, NEW t \in Fatal PROVE Durable(t)!Init
  OBVIOUS
<1>1. Phase = "saving" /\ Typed /\ Waiting
  BY StartsSound DEF Init, Phase, Up, Sound
<1>2. Current(t) = Default(t) /\ Current(t) \in Values(t)
  BY <1>1, CurrentType DEF Init, Saves, Account, Default
<1>3. Saved(t) = <<Current(t)>>
  <2>1. table[t] = <<>>
    BY DEF Init, Fatal, Tables
  <2> QED BY <1>2, <2>1 DEF Saved
<1>4. Snapshots(t) = <<>>
  <2>1. ~Unsaved(t) /\ channel = <<>>
    BY DEF Init, Unsaved
  <2> QED BY <1>1, <2>1, SnapshotsAre DEF OnTheWay, SavesOf
<1> QED BY <1>1, <1>2, <1>3, <1>4 DEF Durable!Init

(* A step that leaves the snapshots on their way as they are.              *)
LEMMA SameSnapshots ==
    UNCHANGED <<working, keys, process, sequence, update, channel>> =>
        \A t \in Fatal : UNCHANGED Snapshots(t)
BY DEF Snapshots, InTransit, Key

LEMMA SameSaved == UNCHANGED table => \A t \in Fatal : UNCHANGED Saved(t)
BY DEF Saved, Default

(* The loop works, takes a snapshot or ends.                               *)
LEMMA LoopDurable ==
    ASSUME Sound, Sound', NEW t \in Fatal,
           \/ PlaceOrder \/ (\E o \in open : FillOrder(o)) \/ RefreshInsights
           \/ (\E newDay \in BOOLEAN : EmitUpdate(newDay)) \/ EmitFails \/ Stop \/ Exit \/ Crash
    PROVE  [Durable(t)!Next]_(Durable(t)!vars)
<1> USE DEF engine, writer, catalog
<1>1. CASE PlaceOrder \/ (\E o \in open : FillOrder(o)) \/ RefreshInsights
  <2>1. UNCHANGED <<pc, closed, table, working, keys, process, sequence, update, channel>> /\ Up
    BY <1>1 DEF PlaceOrder, FillOrder, RefreshInsights, Up
  <2>2. UNCHANGED <<Phase, Saved(t), Snapshots(t)>> /\ Phase # "down"
    BY <2>1, SameSnapshots, SameSaved DEF Phase, Up
  <2>3. Current(t)' \in Values(t)
    BY CurrentNextType DEF Sound
  <2> QED BY <2>2, <2>3 DEF Durable!Work, Durable!Next
<1>2. CASE Stop
  <2>1. /\ UNCHANGED <<closed, table, working, keys, process, sequence, update, channel>>
        /\ UNCHANGED <<open, filled, insights>>
        /\ Up /\ Up'
    BY <1>2 DEF Stop, Up
  <2> QED BY <2>1, SameSnapshots, SameSaved, SameCurrent DEF Phase, Sound, Durable!vars
<1>3. ASSUME NEW newDay \in BOOLEAN, EmitUpdate(newDay)
      PROVE  [Durable(t)!Next]_(Durable(t)!vars)
  <2>1. /\ UNCHANGED <<closed, table, working, keys, process, sequence, update>>
        /\ UNCHANGED <<open, filled, insights>>
        /\ Up /\ Up' /\ ~closed /\ channel' = Append(channel, CurrentUpdate)
    BY <1>3 DEF EmitUpdate, Up
  <2>2. UNCHANGED <<Phase, Saved(t), Current(t)>> /\ Phase = "saving"
    BY <2>1, SameSaved, SameCurrent DEF Phase, Sound
  <2>3. Unsaved(t)' = Unsaved(t)
    BY <2>1 DEF Unsaved, Key
  <2>4. CurrentUpdate \in Updates /\ channel \in Seq(Updates) /\ Saves(t, CurrentUpdate) = Current(t)
    BY CurrentUpdateType DEF Sound, Typed, TypeOK, Current
  <2>5. OnTheWay(t) /\ OnTheWay(t)'
    BY SnapshotsAre, SnapshotsNextAre DEF Sound
  <2>6. Snapshots(t)' = Append(Snapshots(t), Current(t))
    <3>1. CASE Unsaved(t)
      <4>1. update \in Updates /\ <<update>> \o channel \in Seq(Updates)
        BY <2>4, <2>5, <3>1 DEF OnTheWay
      <4>2. <<update>> \o Append(channel, CurrentUpdate)
                = Append(<<update>> \o channel, CurrentUpdate)
        BY <2>4, <4>1
      <4>3. SavesOf(t, Append(<<update>> \o channel, CurrentUpdate))
                = Append(SavesOf(t, <<update>> \o channel), Current(t))
        BY <2>4, <4>1, SavesOfAppend
      <4>4. Snapshots(t)' = SavesOf(t, <<update>> \o Append(channel, CurrentUpdate))
        BY <2>1, <2>3, <2>5, <3>1 DEF OnTheWay, SavesOf, Saves, Account
      <4> QED BY <2>5, <3>1, <4>2, <4>3, <4>4 DEF OnTheWay
    <3>2. CASE ~Unsaved(t)
      <4>1. SavesOf(t, Append(channel, CurrentUpdate)) = Append(SavesOf(t, channel), Current(t))
        BY <2>4, SavesOfAppend
      <4>2. Snapshots(t)' = SavesOf(t, Append(channel, CurrentUpdate))
        BY <2>1, <2>3, <2>5, <3>2 DEF OnTheWay, SavesOf, Saves, Account
      <4> QED BY <2>5, <3>2, <4>1, <4>2 DEF OnTheWay
    <3> QED BY <3>1, <3>2
  <2> QED BY <2>2, <2>6 DEF Durable!Snapshot, Durable!Next
<1>4. CASE EmitFails \/ Exit \/ Crash
  <2>1. UNCHANGED <<table, open, filled, insights>> /\ ~Up' /\ Up
    BY <1>4 DEF EmitFails, Exit, Crash, Up
  <2>2. Snapshots(t)' = <<>>
    BY <2>1, SnapshotsNextAre DEF Sound, OnTheWay
  <2>3. Phase # "down" /\ Phase' = "down" /\ UNCHANGED <<Saved(t), Current(t)>>
    BY <2>1, SameSaved, SameCurrent DEF Phase, Sound
  <2> QED BY <2>2, <2>3 DEF Durable!End, Durable!Next
<1> QED BY <1>1, <1>2, <1>3, <1>4

(* The writer takes the next update as it is and finishes with it when it  *)
(* has been appended.                                                      *)
LEMMA BetweenUpdatesDurable ==
    ASSUME Sound, Sound', NEW t \in Fatal, Receive \/ FinishUpdate
    PROVE  UNCHANGED Durable(t)!vars
<1> USE DEF engine, writer, catalog
<1>1. UNCHANGED <<pc, closed, table, open, filled, insights>>
  BY DEF Receive, FinishUpdate
<1>2. UNCHANGED <<Phase, Saved(t), Current(t)>>
  BY <1>1, SameSaved, SameCurrent DEF Phase, Up, Sound
<1>3. OnTheWay(t) /\ OnTheWay(t)'
  BY SnapshotsAre, SnapshotsNextAre DEF Sound
<1>4. \A s : SavesOf(t, s)' = SavesOf(t, s')
  BY DEF SavesOf, Saves, Account
<1>5. CASE Receive
  <2>1. /\ ~Unsaved(t) /\ channel \in Seq(Updates) /\ channel # <<>>
        /\ update' = Head(channel) /\ channel' = Tail(channel)
    BY <1>5 DEF Receive, Unsaved, Sound, Typed, TypeOK, Waiting
  <2>2. Unsaved(t)'
    <3>1. t \in working'
      BY <1>5 DEF Receive, Tables, Fatal
    <3>2. Key \notin keys[t]
      BY <1>5 DEF Receive, Sound, KeysSeen, Tables, Fatal
    <3> QED BY <1>5, <3>1, <3>2 DEF Receive, Unsaved, Key
  <2>3. <<Head(channel)>> \o Tail(channel) = channel
    BY <2>1
  <2> QED BY <1>2, <1>3, <2>1, <2>2, <2>3 DEF OnTheWay, SavesOf, Saves, Account, Durable!vars
<1>6. CASE FinishUpdate
  <2>1. ~Unsaved(t) /\ ~Unsaved(t)' /\ channel' = channel
    BY <1>6 DEF FinishUpdate, Unsaved
  <2> QED BY <1>2, <1>3, <2>1 DEF OnTheWay, SavesOf, Saves, Account, Durable!vars
<1> QED BY <1>5, <1>6

(* It saves the state at the first append of it that is committed, and at  *)
(* no later one; if it ends with it, the first snapshot may be saved.      *)
LEMMA AppendDurable ==
    ASSUME Sound, Sound', Up, NEW t \in Fatal, NEW u \in Tables, u \in working,
           NEW committed \in BOOLEAN, IF committed THEN Commit(u) ELSE UNCHANGED catalog,
           UNCHANGED <<pc, process, engine, sequence>>,
           \/ closed' = TRUE
           \/ /\ UNCHANGED <<update, channel, closed>>
              /\ working' \in {working, working \ {u}}
              /\ u = t /\ ~committed => working' = working
    PROVE  [Durable(t)!Next]_(Durable(t)!vars)
<1> DEFINE saves == u = t /\ committed /\ Key \notin keys[t]
<1>1. update \in Updates /\ channel \in Seq(Updates) /\ ~closed /\ Phase = "saving"
  BY DEF Sound, Typed, TypeOK, Waiting, Phase
<1>2. UNCHANGED Current(t) /\ Up' /\ Key' = Key
  BY SameCurrent DEF Up, Key, engine, Sound
<1>3. OnTheWay(t) /\ OnTheWay(t)'
  BY SnapshotsAre, SnapshotsNextAre DEF Sound
<1>4. ASSUME ~saves PROVE Saved(t)' = Saved(t)
  <2>1. table'[t] = table[t]
    BY <1>1, <1>4, CommitSaves DEF Sound, catalog
  <2> QED BY <2>1 DEF Saved, Default
<1>5. ASSUME saves
      PROVE  /\ Unsaved(t) /\ Snapshots(t) # <<>> /\ Saved(t)' = Append(Saved(t), Head(Snapshots(t)))
             /\ Saved(t)' = Append(Saved(t), Snapshots(t)[1]) /\ 1 \in DOMAIN Snapshots(t)
             /\ Tail(Snapshots(t)) = SavesOf(t, channel)
  <2>1. Unsaved(t) /\ table'[t] = Append(table[t], Saves(t, update))
    BY <1>1, <1>5, CommitSaves DEF Unsaved, Sound
  <2>2. Saves(t, update) \in Values(t)
    BY <1>1, SavesType
  <2>3. Saved(t)' = Append(Saved(t), Saves(t, update))
    BY <2>1, <2>2, SavedAppend DEF Sound
  <2>4. Snapshots(t) = SavesOf(t, <<update>> \o channel)
    BY <1>3, <2>1 DEF OnTheWay
  <2> QED BY <1>1, <2>1, <2>3, <2>4, SavesOfFirst
<1>6. CASE closed' = TRUE
  <2>1. Phase' = "lost" /\ Snapshots(t)' = <<>>
    BY <1>2, <1>3, <1>6 DEF Phase, OnTheWay
  <2>2. Saved(t)' \in {Saved(t)} \cup {Append(Saved(t), Snapshots(t)[n]) :
                                          n \in DOMAIN Snapshots(t) \cap {1}}
    BY <1>4, <1>5
  <2> QED BY <1>1, <1>2, <2>1, <2>2 DEF Durable!Lose, Durable!Next
<1>7. CASE /\ UNCHANGED <<update, channel, closed>>
           /\ working' \in {working, working \ {u}}
           /\ u = t /\ ~committed => working' = working
  <2>1. UNCHANGED Phase
    BY <1>2, <1>7 DEF Phase, Up
  <2>2. SavesOf(t, channel)' = SavesOf(t, channel)
        /\ SavesOf(t, <<update>> \o channel)' = SavesOf(t, <<update>> \o channel)
    BY <1>7 DEF SavesOf, Saves, Account
  <2>3. CASE saves
    <3>1. ~Unsaved(t)'
      BY <1>1, <1>2, <2>3, CommitSaves DEF Unsaved, Sound
    <3>2. Snapshots(t)' = Tail(Snapshots(t))
      BY <1>3, <1>5, <2>2, <2>3, <3>1 DEF OnTheWay
    <3> QED BY <1>1, <1>2, <1>5, <2>1, <2>3, <3>2 DEF Durable!Save, Durable!Next
  <2>4. CASE ~saves
    <3>1. Unsaved(t)' = Unsaved(t)
      <4>1. CASE u # t
        BY <1>1, <1>2, <1>7, <4>1, CommitSaves DEF Unsaved, Sound, catalog
      <4>2. CASE u = t /\ committed
        BY <1>1, <1>2, <2>4, <4>2, CommitSaves DEF Unsaved, Sound
      <4>3. CASE u = t /\ ~committed
        BY <1>2, <1>7, <4>3 DEF Unsaved, catalog
      <4> QED BY <4>1, <4>2, <4>3
    <3>2. Snapshots(t)' = Snapshots(t)
      BY <1>3, <2>2, <3>1 DEF OnTheWay
    <3> QED BY <1>2, <1>4, <2>1, <2>4, <3>2 DEF Durable!vars
  <2> QED BY <2>3, <2>4
<1> QED BY <1>6, <1>7

(* A new process goes on from a state that was saved, from the last one if *)
(* its query is not stale.                                                 *)
LEMMA RestartDurable ==
    ASSUME Sound, Sound', NEW t \in Fatal,
           NEW checkpoints \in Found("checkpoints"), NEW states \in Found("insight_state"),
           NEW rows \in Found("order_events"), Restart(checkpoints, states, rows)
    PROVE  Durable(t)!Recover
<1> DEFINE n == IF t = "checkpoints" THEN checkpoints ELSE states
<1>1. UNCHANGED table /\ n \in Found(t) /\ n \in 0..Len(table[t])
  BY FoundType DEF Restart, catalog, Fatal, Tables, Sound
<1>2. Phase = "down" /\ Phase' = "saving"
  BY DEF Phase, Up, Restart
<1>3. /\ Len(table[t]) \in Nat /\ Len(Saved(t)) = Len(table[t]) + 1
      /\ n + 1 \in DOMAIN Saved(t) /\ Saved(t)[n + 1] = Loaded(t, n)
  BY <1>1, SavedType DEF Sound
<1>4. Current(t)' = Loaded(t, n)
  <2>1. /\ open' = Loaded("checkpoints", checkpoints).open
        /\ filled' = Loaded("checkpoints", checkpoints).filled
        /\ insights' = Loaded("insight_state", states)
    BY DEF Restart
  <2>2. Current(t)' = IF t = "checkpoints" THEN [open |-> open', filled |-> filled'] ELSE insights'
    BY DEF Current, Saves, Account, CurrentUpdate
  <2>3. CASE t = "checkpoints"
    <3>1. Loaded("checkpoints", checkpoints) \in Accounts
      BY <1>1, <2>3, LoadedType DEF Values, Sound
    <3> QED BY <2>1, <2>2, <2>3, <3>1 DEF Accounts
  <2>4. CASE t = "insight_state"
    BY <2>1, <2>2, <2>4
  <2> QED BY <2>3, <2>4 DEF Fatal
<1>5. IsFresh(t) => n + 1 = Len(Saved(t))
  BY <1>1, <1>3 DEF IsFresh, Found
<1>6. Snapshots(t) = <<>> /\ Snapshots(t)' = <<>>
  <2>1. OnTheWay(t) /\ OnTheWay(t)' /\ ~Up
    BY SnapshotsAre, SnapshotsNextAre DEF Sound, Restart, Up
  <2>2. ~Unsaved(t)' /\ channel' = <<>>
    BY DEF Restart, Unsaved, Sound, Waiting, Up
  <2> QED BY <2>1, <2>2 DEF OnTheWay, SavesOf
<1>7. Saved(t)' = Saved(t)
  BY <1>1, SameSaved
<1> HIDE DEF n
<1>8. \E m \in DOMAIN Saved(t) : Current(t)' = Saved(t)[m] /\ (IsFresh(t) => m = Len(Saved(t)))
  BY <1>3, <1>4, <1>5
<1> QED BY <1>2, <1>6, <1>7, <1>8 DEF Durable!Recover

(* Every step is a step of DurableState, or none.                          *)
LEMMA StepDurable ==
    ASSUME NEW t \in Fatal
    PROVE  Sound /\ Sound' /\ [Next]_vars => [Durable(t)!Next]_(Durable(t)!vars)
<1> SUFFICES ASSUME Sound, Sound', [Next]_vars PROVE [Durable(t)!Next]_(Durable(t)!vars)
  OBVIOUS
<1>1. CASE \/ PlaceOrder \/ (\E o \in open : FillOrder(o)) \/ RefreshInsights
           \/ (\E newDay \in BOOLEAN : EmitUpdate(newDay)) \/ EmitFails \/ Stop \/ Exit \/ Crash
  BY <1>1, LoopDurable
<1>2. CASE Receive \/ FinishUpdate
  BY <1>2, BetweenUpdatesDurable
<1>3. ASSUME NEW u \in Tables, AppendSucceeds(u) PROVE [Durable(t)!Next]_(Durable(t)!vars)
  BY <1>3, AppendDurable DEF AppendSucceeds
<1>4. ASSUME NEW u \in Tables, NEW committed \in BOOLEAN, AppendFails(u, committed)
      PROVE  [Durable(t)!Next]_(Durable(t)!vars)
  <2>1. CASE attempts'[u] = Attempts /\ EndsWriter(u)
    BY <1>4, <2>1, AppendDurable DEF AppendFails
  <2>2. CASE ~(attempts'[u] = Attempts /\ EndsWriter(u))
    <3>1. /\ working' = IF attempts'[u] < Attempts THEN working ELSE working \ {u}
          /\ UNCHANGED <<update, channel, closed>>
      BY <1>4, <2>2 DEF AppendFails
    <3>2. attempts'[u] \in 0..Attempts
      BY DEF Sound, Typed, TypeOK
    <3>3. u = t => working' = working
      BY <2>2, <3>1, <3>2, Bounds DEF EndsWriter
    <3> QED BY <1>4, <3>1, <3>3, AppendDurable DEF AppendFails
  <2> QED BY <2>1, <2>2
<1>5. ASSUME NEW checkpoints \in Found("checkpoints"), NEW states \in Found("insight_state"),
             NEW rows \in Found("order_events"), Restart(checkpoints, states, rows)
      PROVE  Durable(t)!Next
  BY <1>5, RestartDurable DEF Durable!Next
<1>6. CASE UNCHANGED vars
  BY <1>6, SameSnapshots, SameSaved, SameCurrent
     DEF vars, engine, writer, catalog, Phase, Up, Sound, Durable!vars
<1> QED BY <1>1, <1>2, <1>3, <1>4, <1>5, <1>6 DEF Next

(* The account a restart restores is one the run took a snapshot of, whole *)
(* and as it was, whatever rows its queries find; the last one that was    *)
(* saved, if the query for the checkpoint is not stale.                    *)
THEOREM AccountsAreDurable == Spec => AccountIsDurable
<1>1. Init => SavedAccount!Init
  <2>1. Init => Durable("checkpoints")!Init
    BY StartsDurable DEF Fatal
  <2> QED BY <2>1 DEF Durable!Init, SavedAccount!Init
<1>2. Sound /\ Sound' /\ [Next]_vars => [SavedAccount!Next]_(SavedAccount!vars)
  <2>1. Sound /\ Sound' /\ [Next]_vars
            => [Durable("checkpoints")!Next]_(Durable("checkpoints")!vars)
    BY StepDurable DEF Fatal
  <2> QED BY <2>1
          DEF Durable!Next, Durable!Work, Durable!Snapshot, Durable!Save, Durable!Lose,
              Durable!End, Durable!Recover, Durable!vars,
              SavedAccount!Next, SavedAccount!Work, SavedAccount!Snapshot, SavedAccount!Save,
              SavedAccount!Lose, SavedAccount!End, SavedAccount!Recover, SavedAccount!vars
<1> QED BY <1>1, <1>2, StartsSound, StaysSound, PTL
        DEF Spec, AccountIsDurable, SavedAccount!Spec

(* And so are the insights.                                                *)
THEOREM InsightsStayDurable == Spec => InsightsAreDurable
<1>1. Init => SavedInsights!Init
  <2>1. Init => Durable("insight_state")!Init
    BY StartsDurable DEF Fatal
  <2> QED BY <2>1 DEF Durable!Init, SavedInsights!Init
<1>2. Sound /\ Sound' /\ [Next]_vars => [SavedInsights!Next]_(SavedInsights!vars)
  <2>1. Sound /\ Sound' /\ [Next]_vars
            => [Durable("insight_state")!Next]_(Durable("insight_state")!vars)
    BY StepDurable DEF Fatal
  <2> QED BY <2>1
          DEF Durable!Next, Durable!Work, Durable!Snapshot, Durable!Save, Durable!Lose,
              Durable!End, Durable!Recover, Durable!vars,
              SavedInsights!Next, SavedInsights!Work, SavedInsights!Snapshot, SavedInsights!Save,
              SavedInsights!Lose, SavedInsights!End, SavedInsights!Recover, SavedInsights!vars
<1> QED BY <1>1, <1>2, StartsSound, StaysSound, PTL
        DEF Spec, InsightsAreDurable, SavedInsights!Spec

---------------------------------------------------------------------------
(* The events of this process on their way: of the update being appended   *)
(* (sender 0), of those in the channel, and those not sent (sender -1).    *)
Unrecorded == "order_events" \in working /\ Key \notin keys.order_events

Senders == {-1} \cup (IF Unrecorded THEN {0} ELSE {}) \cup DOMAIN channel

Batch(n) ==
    CASE n = -1 -> CurrentUpdate.events
      [] n = 0  -> update.events
      [] OTHER  -> channel[n].events

Recorded ==
    {table.order_events[n].order :
        n \in {m \in DOMAIN table.order_events : table.order_events[m].process = process}}

(* Open orders, now or in a snapshot, are different ones and were placed.  *)
OpenSets ==
    {open} \cup {channel[n].open : n \in DOMAIN channel}
           \cup (IF update = None THEN {} ELSE {update.open})
           \cup {table.checkpoints[n].open : n \in DOMAIN table.checkpoints}

Different(orders, number) ==
    /\ \A o, p \in orders : o.order = p.order => o = p
    /\ \A o \in orders : o.order =< number

OrdersDiffer == \A orders \in OpenSets : Different(orders, placed)

(* An order filled by this process is on its way at one place only, or     *)
(* recorded, and not open.                                                 *)
OnTheWayOnce ==
    \A m, n \in Senders : \A i \in DOMAIN Batch(m), j \in DOMAIN Batch(n) :
        Batch(m)[i] = Batch(n)[j] => m = n /\ i = j

Filled(order) == order \in Orders /\ order =< placed /\ \A o \in open : o.order # order

NoneBoth ==
    /\ \A m \in Senders : \A i \in DOMAIN Batch(m) :
          Batch(m)[i] \notin Recorded /\ Filled(Batch(m)[i])
    /\ \A order \in Recorded : Filled(order)

RowsOfThePast ==
    \A n \in DOMAIN table.order_events : table.order_events[n].process =< process

Once == OrdersDiffer /\ OnTheWayOnce /\ NoneBoth /\ RowsOfThePast /\ EventsRecordedOnce

(* The sets of open orders are typed; with numbers to spare they differ    *)
(* still.                                                                  *)
LEMMA OpenSetsType ==
    ASSUME Typed
    PROVE  \A orders \in OpenSets :
               orders \in Open /\ (Different(orders, placed) => Different(orders, placed + 1))
<1>1. OpenSets \subseteq Open
  <2>1. \A n \in DOMAIN channel : channel[n].open \in Open
    <3>1. \A n \in DOMAIN channel : channel[n] \in Updates
      BY DEF Typed, TypeOK
    <3> QED BY <3>1 DEF Updates
  <2>2. update # None => update.open \in Open
    BY DEF Typed, TypeOK, Updates
  <2>3. \A n \in DOMAIN table.checkpoints : table.checkpoints[n].open \in Open
    <3>1. table.checkpoints \in Seq(Accounts)
      BY DEF Typed, TypeOK, Fatal, Values
    <3>2. \A n \in DOMAIN table.checkpoints : table.checkpoints[n] \in Accounts
      BY <3>1
    <3> QED BY <3>2 DEF Accounts
  <2>4. open \in Open
    BY DEF Typed, TypeOK
  <2> QED BY <2>1, <2>2, <2>3, <2>4 DEF OpenSets
<1>2. ASSUME NEW orders \in Open, Different(orders, placed) PROVE Different(orders, placed + 1)
  <2>1. placed \in Int /\ \A o \in orders : o.order \in Int
    BY DEF Open, Orders, Typed, TypeOK
  <2> QED BY <1>2, <2>1 DEF Different
<1> QED BY <1>1, <1>2

(* No step makes two open orders, now or in a snapshot, the same.          *)
LEMMA OrdersDifferStep == Sound /\ Sound' /\ OrdersDiffer /\ [Next]_vars => OrdersDiffer'
<1> SUFFICES ASSUME Sound, Sound', OrdersDiffer, [Next]_vars PROVE OrdersDiffer'
  OBVIOUS
<1> USE DEF engine, writer, catalog
<1>1. ASSUME placed' = placed,
             \A orders \in OpenSets' : orders \in OpenSets \/ Different(orders, placed)
      PROVE  OrdersDiffer'
  BY <1>1 DEF OrdersDiffer
<1>2. CASE PlaceOrder
  <2>1. /\ placed \in Int /\ placed' = placed + 1 /\ open \in Open
        /\ open' = {o \in open : o.id # counter'} \cup {[id |-> counter', order |-> placed']}
        /\ UNCHANGED <<channel, update, table>>
    BY <1>2 DEF PlaceOrder, Sound, Typed, TypeOK
  <2>2. \A orders \in OpenSets : Different(orders, placed')
    BY <2>1, OpenSetsType DEF OrdersDiffer, Sound
  <2>3. open \in OpenSets /\ \A o \in open : o.order \in Int
    BY <2>1 DEF OpenSets, Open, Orders
  <2>4. \A o \in open : o.order =< placed
    BY <2>3 DEF OrdersDiffer, Different
  <2>5. Different(open, placed')
    BY <2>2, <2>3
  <2>6. \A o, p \in open' : o.order = p.order => o = p
    BY <2>1, <2>3, <2>4, <2>5 DEF Different
  <2>7. \A o \in open' : o.order =< placed'
    BY <2>1, <2>5 DEF Different
  <2>8. OpenSets' \subseteq OpenSets \cup {open'}
    BY <2>1 DEF OpenSets
  <2> QED BY <2>2, <2>6, <2>7, <2>8 DEF OrdersDiffer, Different
<1>3. ASSUME NEW o \in open, FillOrder(o) PROVE OrdersDiffer'
  <2>1. open' \subseteq open /\ UNCHANGED <<channel, update, table, placed>>
    BY <1>3 DEF FillOrder
  <2>2. Different(open', placed)
    BY <2>1 DEF OrdersDiffer, OpenSets, Different
  <2> QED BY <1>1, <2>1, <2>2 DEF OpenSets
<1>4. ASSUME NEW newDay \in BOOLEAN, EmitUpdate(newDay) PROVE OrdersDiffer'
  <2>1. channel' = Append(channel, CurrentUpdate) /\ UNCHANGED <<open, update, table, placed>>
    BY <1>4 DEF EmitUpdate
  <2>2. \A n \in DOMAIN channel' : \/ channel'[n] = CurrentUpdate
                                   \/ n \in DOMAIN channel /\ channel'[n] = channel[n]
    <3>1. channel \in Seq(Updates) /\ CurrentUpdate \in Updates
      BY CurrentUpdateType DEF Sound, Typed, TypeOK
    <3> QED BY <2>1, <3>1, AppendProperties
  <2>3. CurrentUpdate.open = open
    BY DEF CurrentUpdate
  <2>4. OpenSets' \subseteq OpenSets
    BY <2>1, <2>2, <2>3 DEF OpenSets
  <2> QED BY <1>1, <2>1, <2>4
<1>5. CASE Receive
  <2>1. /\ channel \in Seq(Updates) /\ channel # <<>>
        /\ channel' = Tail(channel) /\ update' = channel[1]
        /\ UNCHANGED <<open, table, placed>>
    BY <1>5 DEF Receive, Sound, Typed, TypeOK
  <2>2. /\ 1 \in DOMAIN channel
        /\ \A n \in DOMAIN channel' : n + 1 \in DOMAIN channel /\ channel'[n] = channel[n + 1]
    BY <2>1
  <2>3. OpenSets' \subseteq OpenSets
    BY <2>1, <2>2 DEF OpenSets
  <2> QED BY <1>1, <2>1, <2>3
<1>6. ASSUME NEW t \in Tables, t \in working, Commit(t) \/ UNCHANGED catalog,
             UNCHANGED <<open, placed>>,
             UNCHANGED <<update, channel>> \/ (update' = None /\ channel' = <<>>)
      PROVE  OrdersDiffer'
  <2>1. update \in Updates
    BY <1>6 DEF Sound, Waiting, Typed, TypeOK
  <2>2. \/ table'.checkpoints = table.checkpoints
        \/ table'.checkpoints = Append(table.checkpoints, Account(update))
    BY <1>6, <2>1, CommitSaves DEF Sound, Saves, Fatal, catalog
  <2>3. Account(update).open = update.open /\ update # None
    BY <2>1, NoneAssumption DEF Account
  <2>4. table.checkpoints \in Seq(Accounts) /\ Account(update) \in Accounts
    BY <2>1, SavesType DEF Sound, Typed, TypeOK, Fatal, Values, Saves
  <2>5. \A n \in DOMAIN table'.checkpoints :
            \/ n \in DOMAIN table.checkpoints /\ table'.checkpoints[n] = table.checkpoints[n]
            \/ table'.checkpoints[n] = Account(update)
    BY <2>2, <2>4, AppendProperties
  <2>6. OpenSets' \subseteq OpenSets
    BY <1>6, <2>3, <2>5 DEF OpenSets
  <2> QED BY <1>1, <1>6, <2>6
<1>7. ASSUME NEW t \in Tables, AppendSucceeds(t) PROVE OrdersDiffer'
  BY <1>6, <1>7 DEF AppendSucceeds
<1>8. ASSUME NEW t \in Tables, NEW committed \in BOOLEAN, AppendFails(t, committed)
      PROVE  OrdersDiffer'
  BY <1>6, <1>8 DEF AppendFails
<1>9. ASSUME NEW checkpoints \in Found("checkpoints"), NEW states \in Found("insight_state"),
             NEW rows \in Found("order_events"), Restart(checkpoints, states, rows)
      PROVE  OrdersDiffer'
  <2>1. channel' = <<>> /\ update' = None /\ table' = table /\ placed' = placed
    BY <1>9 DEF Restart, Sound, Waiting, Up
  <2>2. open' \in OpenSets \/ open' = {}
    <3>1. checkpoints \in 0..Len(table.checkpoints) /\ table.checkpoints \in Seq(Accounts)
      BY <1>9, FoundType DEF Tables, Fatal, Values, Sound, Typed, TypeOK
    <3>2. checkpoints = 0 \/ checkpoints \in DOMAIN table.checkpoints
      BY <3>1
    <3>3. open' = IF checkpoints = 0 THEN {} ELSE table.checkpoints[checkpoints].open
      BY <1>9 DEF Restart, Loaded, Default
    <3> QED BY <3>2, <3>3 DEF OpenSets
  <2>3. OpenSets' \subseteq OpenSets \cup {open'}
    BY <2>1 DEF OpenSets
  <2>4. Different({}, placed)
    BY DEF Different
  <2> QED BY <1>1, <2>1, <2>2, <2>3, <2>4
<1>10. CASE \/ RefreshInsights \/ EmitFails \/ FinishUpdate \/ Stop \/ Exit \/ Crash
            \/ UNCHANGED vars
  <2>1. /\ UNCHANGED <<open, table, placed>>
        /\ update' \in {update, None} /\ channel' \in {channel, <<>>}
    BY <1>10 DEF RefreshInsights, EmitFails, FinishUpdate, Stop, Exit, Crash, vars
  <2>2. OpenSets' \subseteq OpenSets
    BY <2>1 DEF OpenSets
  <2> QED BY <1>1, <2>1, <2>2
<1> QED BY <1>2, <1>3, <1>4, <1>5, <1>7, <1>8, <1>9, <1>10 DEF Next
(* Events that move from one sender to another, in order and all of them,  *)
(* or are lost.                                                            *)
Moves(place) ==
    /\ \A m \in Senders' : Batch(m)' # <<>> => place[m] \in Senders /\ Batch(m)' = Batch(place[m])
    /\ \A m, n \in Senders' :
          Batch(m)' # <<>> /\ Batch(n)' # <<>> /\ place[m] = place[n] => m = n

LEMMA MovedOnce ==
    ASSUME OnTheWayOnce, NoneBoth, RowsOfThePast, EventsRecordedOnce,
           NEW place, Moves(place), table'.order_events = table.order_events, process' = process,
           \A order : Filled(order) => Filled(order)'
    PROVE  OnTheWayOnce' /\ NoneBoth' /\ RowsOfThePast' /\ EventsRecordedOnce'
<1>1. Recorded' = Recorded
  BY DEF Recorded
<1>2. \A m \in Senders' : \A i \in DOMAIN Batch(m)' :
          Batch(m)' # <<>> /\ place[m] \in Senders /\ Batch(m)' = Batch(place[m])
  BY DEF Moves
<1>3. OnTheWayOnce'
  <2> SUFFICES ASSUME NEW m \in Senders', NEW n \in Senders', NEW i \in DOMAIN Batch(m)',
                      NEW j \in DOMAIN Batch(n)', Batch(m)'[i] = Batch(n)'[j]
               PROVE  m = n /\ i = j
    BY DEF OnTheWayOnce
  <2>1. /\ Batch(m)' # <<>> /\ place[m] \in Senders /\ Batch(m)' = Batch(place[m])
        /\ Batch(n)' # <<>> /\ place[n] \in Senders /\ Batch(n)' = Batch(place[n])
    BY <1>2
  <2>2. place[m] = place[n] /\ i = j
    BY <2>1 DEF OnTheWayOnce
  <2> QED BY <2>1, <2>2 DEF Moves
<1>4. NoneBoth'
  BY <1>1, <1>2 DEF NoneBoth
<1> QED BY <1>3, <1>4 DEF RowsOfThePast, EventsRecordedOnce

(* The writer's table of events, at an append to it or to another.         *)
LEMMA CommitEvents ==
    ASSUME Typed, update \in Updates, NEW t \in Tables, Commit(t)
    PROVE  /\ t # "order_events" =>
                 /\ table'.order_events = table.order_events
                 /\ keys'.order_events = keys.order_events
           /\ t = "order_events" => Key \in keys'.order_events
           /\ t = "order_events" /\ Key \in keys.order_events =>
                 table'.order_events = table.order_events
           /\ t = "order_events" /\ Key \notin keys.order_events =>
                 table'.order_events = table.order_events \o Rows("order_events")
<1>1. /\ DOMAIN table = Tables /\ "order_events" \in Tables
      /\ keys \in [Tables -> SUBSET (Nat \X Nat)]
  BY DEF Typed, TypeOK, Tables
<1>2. /\ keys'.order_events = IF t = "order_events" THEN keys.order_events \cup {Key}
                              ELSE keys.order_events
  BY <1>1 DEF Commit
<1>3. Key \in keys[t] => table' = table
  BY DEF Commit
<1>4. Key \notin keys[t] =>
          table'.order_events = IF t = "order_events" THEN table.order_events \o Rows(t)
                                ELSE table.order_events
  BY <1>1 DEF Commit
<1> QED BY <1>2, <1>3, <1>4

(* The events not sent.                                                    *)
LEMMA UnsentBatch == Batch(-1) = SubSeq(events, noted + 1, Len(events))
<1>1. Batch(-1) = CurrentUpdate.events
  BY DEF Batch
<1>2. CurrentUpdate.events = SubSeq(events, noted + 1, Len(events))
  BY DEF CurrentUpdate
<1> QED BY <1>1, <1>2

LEMMA UnsentBatchNext == (Batch(-1) = SubSeq(events, noted + 1, Len(events)))'
BY UnsentBatch, PTL

(* The last of a sequence, with one more.                                  *)
LEMMA SuffixOfAppend ==
    ASSUME NEW S, NEW s \in Seq(S), NEW e \in S, NEW k \in 0..Len(s)
    PROVE  /\ SubSeq(s, k + 1, Len(s)) \in Seq(S)
           /\ SubSeq(Append(s, e), k + 1, Len(s) + 1) = Append(SubSeq(s, k + 1, Len(s)), e)
<1> DEFINE tail == SubSeq(s, k + 1, Len(s))
           longer == SubSeq(Append(s, e), k + 1, Len(s) + 1)
<1>1. /\ Append(s, e) \in Seq(S) /\ Len(Append(s, e)) = Len(s) + 1 /\ Len(s) \in Nat /\ k \in Nat
      /\ \A n \in 1..Len(s) : Append(s, e)[n] = s[n] /\ s[n] \in S
      /\ Append(s, e)[Len(s) + 1] = e
  BY AppendProperties
<1>2. \A n \in k + 1..Len(s) : s[n] \in S
  BY <1>1
<1>3. \A n \in k + 1..Len(s) + 1 : Append(s, e)[n] \in S
  BY <1>1
<1>4. /\ tail \in Seq(S) /\ Len(tail) = Len(s) - k
      /\ \A n \in 1..Len(s) - (k + 1) + 1 : tail[n] = s[k + 1 + n - 1]
  BY <1>1, <1>2, SubSeqProperties
<1>5. /\ longer \in Seq(S) /\ Len(longer) = Len(s) + 1 - k
      /\ \A n \in 1..Len(s) + 1 - (k + 1) + 1 : longer[n] = Append(s, e)[k + 1 + n - 1]
  BY <1>1, <1>3, SubSeqProperties
<1> HIDE DEF tail, longer
<1>6. /\ Append(tail, e) \in Seq(S) /\ Len(Append(tail, e)) = Len(tail) + 1
      /\ \A n \in 1..Len(tail) : Append(tail, e)[n] = tail[n]
      /\ Append(tail, e)[Len(tail) + 1] = e
  BY <1>4, AppendProperties
<1>7. \A n \in 1..Len(longer) : longer[n] = Append(tail, e)[n]
  <2> TAKE n \in 1..Len(longer)
  <2>1. longer[n] = Append(s, e)[k + n]
    <3>1. k + 1 + n - 1 = k + n /\ n \in 1..Len(s) + 1 - (k + 1) + 1
      BY <1>1, <1>5
    <3> QED BY <1>5, <3>1
  <2>2. CASE n = Len(s) + 1 - k
    BY <1>1, <1>4, <1>6, <2>1, <2>2
  <2>3. CASE n \in 1..Len(s) - k
    <3>1. Append(s, e)[k + n] = s[k + n]
      BY <1>1, <2>3
    <3>2. k + 1 + n - 1 = k + n /\ n \in 1..Len(s) - (k + 1) + 1 /\ n \in 1..Len(tail)
      BY <1>1, <1>4, <2>3
    <3>3. tail[n] = s[k + n] /\ Append(tail, e)[n] = tail[n]
      BY <1>4, <1>6, <3>2
    <3> QED BY <2>1, <3>1, <3>3
  <2>4. n = Len(s) + 1 - k \/ n \in 1..Len(s) - k
    <3>1. Len(longer) = Len(s) + 1 - k /\ Len(s) \in Int /\ k \in Int
      BY <1>1, <1>5
    <3> QED BY <3>1
  <2> QED BY <2>2, <2>3, <2>4
<1>8. longer = Append(tail, e)
  BY <1>1, <1>4, <1>5, <1>6, <1>7, SeqEqual
<1> QED BY <1>4, <1>8 DEF tail, longer

(* An order that is filled becomes one.                                    *)
LEMMA FillOnce ==
    ASSUME Sound, OrdersDiffer, OnTheWayOnce, NoneBoth, RowsOfThePast, EventsRecordedOnce,
           NEW o \in open, FillOrder(o)
    PROVE  OnTheWayOnce' /\ NoneBoth' /\ RowsOfThePast' /\ EventsRecordedOnce'
<1> USE DEF engine, writer, catalog
<1>1. /\ open' = open \ {o} /\ events' = Append(events, o.order)
      /\ UNCHANGED <<process, placed, noted, channel, update, sequence, working, table, keys>>
  BY DEF FillOrder
<1>2. Senders' = Senders /\ Recorded' = Recorded
  BY <1>1 DEF Senders, Unrecorded, Key, Recorded
<1>3. \A m \in Senders : m # -1 => Batch(m)' = Batch(m)
  BY <1>1 DEF Batch
<1>4. /\ Batch(-1) \in Seq(Orders) /\ o.order \in Orders
      /\ Batch(-1)' = Append(Batch(-1), o.order)
  <2>1. /\ o.order \in Orders /\ events \in Seq(Orders) /\ noted \in 0..Len(events)
        /\ Len(events') = Len(events) + 1
    BY <1>1 DEF Sound, Typed, TypeOK, Open
  <2>2. /\ Batch(-1) = SubSeq(events, noted + 1, Len(events))
        /\ Batch(-1)' = SubSeq(Append(events, o.order), noted + 1, Len(events) + 1)
    BY <1>1, <2>1, UnsentBatch, UnsentBatchNext
  <2>3. /\ SubSeq(events, noted + 1, Len(events)) \in Seq(Orders)
        /\ SubSeq(Append(events, o.order), noted + 1, Len(events) + 1)
               = Append(SubSeq(events, noted + 1, Len(events)), o.order)
    BY <2>1, SuffixOfAppend
  <2> QED BY <2>1, <2>2, <2>3
<1>5. \A m \in Senders : \A i \in DOMAIN Batch(m) : Batch(m)[i] # o.order
  BY DEF NoneBoth, Filled
<1>6. \A i \in DOMAIN Batch(-1)' :
          \/ i \in DOMAIN Batch(-1) /\ Batch(-1)'[i] = Batch(-1)[i]
          \/ i = Len(Batch(-1)) + 1 /\ Batch(-1)'[i] = o.order
  BY <1>4, AppendProperties
<1>7. -1 \in Senders
  BY DEF Senders
<1>8. \A m \in Senders : \A i \in DOMAIN Batch(m)' :
          \/ i \in DOMAIN Batch(m) /\ Batch(m)'[i] = Batch(m)[i]
          \/ m = -1 /\ i = Len(Batch(-1)) + 1 /\ Batch(m)'[i] = o.order
  BY <1>3, <1>6
<1>9. OnTheWayOnce'
  BY <1>2, <1>5, <1>8 DEF OnTheWayOnce
<1>10. Filled(o.order)' /\ \A order : Filled(order) => Filled(order)'
  <2>1. Different(open, placed)
    BY DEF OrdersDiffer, OpenSets
  <2> QED BY <1>1, <1>4, <2>1 DEF Different, Filled
<1>11. o.order \notin Recorded
  BY DEF NoneBoth, Filled
<1>12. NoneBoth'
  BY <1>2, <1>8, <1>10, <1>11 DEF NoneBoth
<1> QED BY <1>1, <1>9, <1>12 DEF RowsOfThePast, EventsRecordedOnce

(* An element of a concatenation is one of either sequence.                *)
LEMMA ConcatParts ==
    ASSUME NEW S, NEW s \in Seq(S), NEW t \in Seq(S)
    PROVE  \A n \in DOMAIN (s \o t) :
               \/ n \in DOMAIN s /\ (s \o t)[n] = s[n]
               \/ \E i \in DOMAIN t : n = Len(s) + i /\ (s \o t)[n] = t[i]
<1>1. /\ s \o t \in Seq(S) /\ Len(s \o t) = Len(s) + Len(t)
      /\ \A n \in 1..Len(s) + Len(t) :
            (s \o t)[n] = IF n =< Len(s) THEN s[n] ELSE t[n - Len(s)]
  BY ConcatProperties
<1>2. /\ DOMAIN s = 1..Len(s) /\ DOMAIN t = 1..Len(t) /\ Len(s) \in Nat /\ Len(t) \in Nat
      /\ DOMAIN (s \o t) = 1..Len(s) + Len(t)
  BY <1>1
<1> TAKE n \in DOMAIN (s \o t)
<1>3. CASE n =< Len(s)
  BY <1>1, <1>2, <1>3
<1>4. CASE n > Len(s)
  <2>1. n - Len(s) \in 1..Len(t) /\ n = Len(s) + (n - Len(s))
    BY <1>2, <1>4
  <2>2. (s \o t)[n] = t[n - Len(s)]
    BY <1>1, <1>2, <1>4
  <2> QED BY <1>2, <2>1, <2>2
<1> QED BY <1>2, <1>3, <1>4

(* The events of an update are recorded.                                   *)
LEMMA RecordOnce ==
    ASSUME Typed, OnTheWayOnce, NoneBoth, RowsOfThePast, EventsRecordedOnce,
           Unrecorded, update \in Updates,
           table'.order_events = table.order_events \o Rows("order_events"),
           Senders' \subseteq Senders \ {0}, \A m \in Senders' : Batch(m)' = Batch(m),
           UNCHANGED <<process, open, placed>>
    PROVE  OnTheWayOnce' /\ NoneBoth' /\ RowsOfThePast' /\ EventsRecordedOnce'
<1> DEFINE rows  == table.order_events
           added == [n \in DOMAIN update.events |->
                        [order |-> update.events[n], process |-> process]]
<1>1. update.events \in Seq(Orders) /\ rows \in Seq(EventRows) /\ process \in 1..MaxProcesses
  BY DEF Updates, Typed, TypeOK
<1>2. 0 \in Senders /\ Batch(0) = update.events
  BY DEF Senders, Batch
<1>3. /\ added \in Seq(EventRows) /\ Len(added) = Len(update.events)
      /\ DOMAIN update.events = 1..Len(update.events) /\ Len(update.events) \in Nat
      /\ \A n \in 1..Len(update.events) :
            added[n].order = update.events[n] /\ added[n].process = process
  <2>1. /\ DOMAIN update.events = 1..Len(update.events) /\ Len(update.events) \in Nat
        /\ \A n \in 1..Len(update.events) : update.events[n] \in Orders
    BY <1>1
  <2>2. added \in [1..Len(update.events) -> EventRows]
    BY <1>1, <2>1 DEF EventRows
  <2> QED BY <2>1, <2>2
<1>4. table'.order_events = rows \o added
  BY DEF Rows, Fatal
<1> HIDE DEF rows, added
<1>5. \A n \in DOMAIN table'.order_events :
          \/ n \in DOMAIN rows /\ table'.order_events[n] = rows[n]
          \/ \E i \in DOMAIN added : n = Len(rows) + i /\ table'.order_events[n] = added[i]
  <2>1. rows \in Seq(EventRows) /\ added \in Seq(EventRows)
    BY <1>1, <1>3
  <2>2. \A n \in DOMAIN (rows \o added) :
            \/ n \in DOMAIN rows /\ (rows \o added)[n] = rows[n]
            \/ \E i \in DOMAIN added : n = Len(rows) + i /\ (rows \o added)[n] = added[i]
    BY <2>1, ConcatParts
  <2> QED BY <1>4, <2>2, Zenon
<1>6. DOMAIN added = DOMAIN update.events
  BY <1>3
<1>7. \A n \in DOMAIN table'.order_events :
          \/ n \in DOMAIN rows /\ table'.order_events[n] = rows[n]
          \/ \E i \in DOMAIN update.events :
                /\ n = Len(rows) + i
                /\ table'.order_events[n].order = update.events[i]
                /\ table'.order_events[n].process = process
  <2>1. \A i \in DOMAIN added : i \in DOMAIN update.events
            /\ added[i].order = update.events[i] /\ added[i].process = process
    BY <1>3, <1>6
  <2> QED BY <1>5, <2>1
<1> USE DEF rows
<1>8. \A i \in DOMAIN update.events : update.events[i] \notin Recorded /\ Filled(update.events[i])
  BY <1>2 DEF NoneBoth
<1>9. \A i, j \in DOMAIN update.events : update.events[i] = update.events[j] => i = j
  BY <1>2 DEF OnTheWayOnce
<1>10. RowsOfThePast'
  <2>1. process =< process
    BY <1>1
  <2> QED BY <1>7, <2>1 DEF RowsOfThePast
<1>11. EventsRecordedOnce'
  <2>1. \A m \in DOMAIN rows, i \in DOMAIN update.events :
            ~(rows[m].order = update.events[i] /\ rows[m].process = process)
    BY <1>8 DEF Recorded
  <2> QED BY <1>7, <1>9, <2>1 DEF EventsRecordedOnce
<1>12. \A order \in Recorded' :
          order \in Recorded \/ \E i \in DOMAIN update.events : order = update.events[i]
  BY <1>7 DEF Recorded
<1>13. NoneBoth'
  <2>1. \A order : Filled(order) => Filled(order)'
    BY DEF Filled
  <2>2. \A order \in Recorded' : Filled(order)
    BY <1>8, <1>12 DEF NoneBoth
  <2>3. ASSUME NEW m \in Senders', NEW i \in DOMAIN Batch(m)
        PROVE  Batch(m)[i] \notin Recorded' /\ Filled(Batch(m)[i])
    <3>1. Batch(m)[i] \notin Recorded /\ Filled(Batch(m)[i]) /\ m # 0 /\ m \in Senders
      BY <2>3 DEF NoneBoth
    <3>2. \A j \in DOMAIN update.events : Batch(m)[i] # update.events[j]
      BY <1>2, <2>3, <3>1 DEF OnTheWayOnce
    <3> QED BY <1>12, <3>1, <3>2
  <2> QED BY <2>1, <2>2, <2>3 DEF NoneBoth
<1>14. OnTheWayOnce'
  BY DEF OnTheWayOnce
<1> QED BY <1>10, <1>11, <1>13, <1>14

(* Senders that fall silent, the others as they are.                       *)
LEMMA SilencedOnce ==
    ASSUME Typed, OnTheWayOnce, NoneBoth, RowsOfThePast, EventsRecordedOnce,
           UNCHANGED <<process, events, noted>>, table'.order_events = table.order_events,
           \A order : Filled(order) => Filled(order)',
           channel' \in {channel, <<>>}, Unrecorded' => Unrecorded /\ update' = update
    PROVE  OnTheWayOnce' /\ NoneBoth' /\ RowsOfThePast' /\ EventsRecordedOnce'
<1> DEFINE place == [m \in Senders' |-> m]
<1>1. Senders' \subseteq Senders
  BY DEF Senders
<1>2. \A m \in Senders' : Batch(m)' = Batch(m)
  <2> TAKE m \in Senders'
  <2>1. CASE m = -1
    BY <2>1, UnsentBatch, UnsentBatchNext
  <2>2. CASE m = 0 /\ Unrecorded'
    BY <2>2 DEF Batch
  <2>3. CASE m \in DOMAIN channel'
    <3>1. channel' = channel /\ m # -1 /\ m # 0
      BY <2>3 DEF Typed, TypeOK
    <3> QED BY <3>1 DEF Batch
  <2> QED BY <2>1, <2>2, <2>3 DEF Senders
<1>3. Moves(place)
  BY <1>1, <1>2 DEF Moves
<1> QED BY <1>3, MovedOnce

(* The events not sent become those of the update sent last.               *)
LEMMA SentOnce ==
    ASSUME Typed, OnTheWayOnce, NoneBoth, RowsOfThePast, EventsRecordedOnce,
           NEW newDay \in BOOLEAN, EmitUpdate(newDay)
    PROVE  OnTheWayOnce' /\ NoneBoth' /\ RowsOfThePast' /\ EventsRecordedOnce'
<1> USE DEF engine, writer, catalog
<1>0. PICK last \in Int : last = Len(channel) + 1
  BY DEF Typed, TypeOK
<1> DEFINE place == [m \in Senders' |-> IF m = last THEN -1 ELSE m]
<1>1. /\ channel' = Append(channel, CurrentUpdate) /\ noted' = Len(events) /\ events' = events
      /\ UNCHANGED <<process, open, placed, table, keys, update, sequence, working>>
  BY DEF EmitUpdate
<1>2. channel \in Seq(Updates) /\ CurrentUpdate \in Updates /\ events \in Seq(Orders)
  BY CurrentUpdateType DEF Typed, TypeOK
<1>3. /\ DOMAIN channel = 1..Len(channel) /\ Len(channel) \in Nat
      /\ DOMAIN channel' = 1..last /\ channel'[last] = CurrentUpdate
      /\ \A m \in 1..Len(channel) : channel'[m] = channel[m] /\ m # last
      /\ last # -1 /\ last # 0
  BY <1>0, <1>1, <1>2, AppendProperties
<1>4. Batch(-1)' = <<>>
  <2>1. SubSeq(events, Len(events) + 1, Len(events)) = <<>>
    BY <1>2, SubSeqEmpty
  <2> QED BY <1>1, <2>1, UnsentBatchNext
<1>5. Batch(last)' = Batch(-1)
  <2>1. Batch(last)' = channel'[last].events
    BY <1>3 DEF Batch
  <2>2. Batch(-1) = CurrentUpdate.events
    BY DEF Batch
  <2> QED BY <1>3, <2>1, <2>2
<1>6. Senders' = Senders \cup {last} /\ -1 \in Senders
  BY <1>1, <1>3 DEF Senders, Unrecorded, Key
<1>7. \A m \in Senders \ {-1} : m # last /\ Batch(m)' = Batch(m)
  <2> TAKE m \in Senders \ {-1}
  <2>1. CASE m = 0
    BY <1>1, <1>3, <2>1 DEF Batch
  <2>2. CASE m \in DOMAIN channel
    <3>1. m # 0 /\ m # last /\ channel'[m] = channel[m]
      BY <1>3, <2>2
    <3> QED BY <3>1 DEF Batch
  <2> QED BY <2>1, <2>2 DEF Senders
<1>8. Moves(place)
  <2>1. ASSUME NEW m \in Senders', Batch(m)' # <<>>
        PROVE  /\ place[m] \in Senders /\ Batch(m)' = Batch(place[m])
               /\ m # last => place[m] = m /\ m # -1
    <3>1. CASE m = last
      BY <1>5, <1>6, <3>1
    <3>2. CASE m = -1
      BY <1>4, <2>1, <3>2
    <3>3. CASE m \in Senders \ {-1}
      BY <1>6, <1>7, <3>3
    <3> QED BY <1>6, <3>1, <3>2, <3>3
  <2>2. place[last] = -1
    BY <1>6
  <2> QED BY <2>1, <2>2 DEF Moves
<1>9. \A order : Filled(order) => Filled(order)'
  BY <1>1 DEF Filled
<1> QED BY <1>1, <1>8, <1>9, MovedOnce

(* The writer receives the update sent first.                              *)
LEMMA ReceivedOnce ==
    ASSUME Typed, Waiting, OnTheWayOnce, NoneBoth, RowsOfThePast, EventsRecordedOnce, Receive
    PROVE  OnTheWayOnce' /\ NoneBoth' /\ RowsOfThePast' /\ EventsRecordedOnce'
<1> USE DEF engine, writer, catalog
<1> DEFINE place == [m \in Senders' |-> IF m = -1 THEN -1 ELSE m + 1]
<1>1. /\ channel # <<>> /\ channel \in Seq(Updates)
      /\ update' = channel[1] /\ channel' = Tail(channel)
      /\ UNCHANGED <<process, open, placed, events, noted, table>>
  BY DEF Receive, Typed, TypeOK
<1>2. /\ DOMAIN channel = 1..Len(channel) /\ Len(channel) \in Nat /\ 1 \in DOMAIN channel
      /\ DOMAIN channel' = 1..Len(channel) - 1
      /\ \A m \in 1..Len(channel) - 1 : channel'[m] = channel[m + 1]
  BY <1>1, HeadTailProperties
<1>3. \A m \in Senders' : m = -1 \/ m \in 0..Len(channel) - 1
  BY <1>2 DEF Senders
<1>4. \A m \in 0..Len(channel) - 1 : m + 1 \in Senders /\ Batch(m)' = Batch(m + 1)
  <2> TAKE m \in 0..Len(channel) - 1
  <2>1. m + 1 \in DOMAIN channel /\ m + 1 # -1 /\ m + 1 # 0 /\ m # -1
    BY <1>2
  <2>2. Batch(m + 1) = channel[m + 1].events
    BY <2>1 DEF Batch
  <2>3. CASE m = 0
    BY <1>1, <2>2, <2>3, <2>1 DEF Batch, Senders
  <2>4. CASE m # 0
    <3>1. channel'[m] = channel[m + 1]
      BY <1>2, <2>4
    <3>2. Batch(m)' = channel'[m].events
      BY <2>1, <2>4 DEF Batch
    <3> QED BY <2>1, <2>2, <3>1, <3>2 DEF Senders
  <2> QED BY <2>3, <2>4
<1>5. Batch(-1)' = Batch(-1) /\ -1 \in Senders
  BY <1>1, UnsentBatch, UnsentBatchNext DEF Senders
<1>6. Moves(place)
  <2>1. ASSUME NEW m \in Senders'
        PROVE  /\ place[m] \in Senders /\ Batch(m)' = Batch(place[m])
               /\ place[m] = IF m = -1 THEN -1 ELSE m + 1
    BY <1>3, <1>4, <1>5, <2>1
  <2>2. ASSUME NEW m \in Senders', NEW n \in Senders', place[m] = place[n] PROVE m = n
    BY <1>2, <1>3, <2>1, <2>2
  <2> QED BY <2>1, <2>2 DEF Moves
<1>7. \A order : Filled(order) => Filled(order)'
  BY <1>1 DEF Filled
<1> QED BY <1>1, <1>6, <1>7, MovedOnce

(* A new process has recorded nothing and has nothing on its way.          *)
LEMMA RestartOnce ==
    ASSUME Typed, Waiting, RowsOfThePast, EventsRecordedOnce,
           NEW checkpoints \in Found("checkpoints"), NEW states \in Found("insight_state"),
           NEW rows \in Found("order_events"), Restart(checkpoints, states, rows)
    PROVE  OnTheWayOnce' /\ NoneBoth' /\ RowsOfThePast' /\ EventsRecordedOnce'
<1> USE DEF engine, writer, catalog
<1>1. /\ process \in Int /\ process' = process + 1 /\ table' = table
      /\ channel' = <<>> /\ working' = {} /\ noted' = rows
      /\ table.order_events \in Seq(EventRows) /\ rows \in 0..Len(table.order_events)
  BY FoundType DEF Restart, Waiting, Up, Typed, TypeOK, Tables
<1>2. /\ DOMAIN table.order_events = 1..Len(table.order_events)
      /\ Len(table.order_events) \in Nat
      /\ \A n \in DOMAIN table.order_events : table.order_events[n].process \in Int
  <2>1. /\ DOMAIN table.order_events = 1..Len(table.order_events)
        /\ Len(table.order_events) \in Nat
        /\ \A n \in 1..Len(table.order_events) : table.order_events[n] \in EventRows
    BY <1>1
  <2>2. \A row \in EventRows : row.process \in Int
    BY DEF EventRows
  <2> QED BY <2>1, <2>2
<1>3. Senders' = {-1}
  BY <1>1 DEF Senders, Unrecorded
<1>4. Batch(-1)' = <<>>
  <2>1. events' = [n \in 1..rows |-> table.order_events[n].order] /\ rows \in Nat
    BY <1>1, <1>2 DEF Restart
  <2>2. Len(events') = rows
    BY <2>1
  <2>3. SubSeq(events', noted' + 1, Len(events')) = <<>>
    BY <1>1, <1>2, <2>2, SubSeqEmpty
  <2> QED BY <2>3, UnsentBatchNext
<1>5. \A n \in DOMAIN table.order_events : table.order_events[n].process < process'
  BY <1>1, <1>2 DEF RowsOfThePast
<1>6. Recorded' = {}
  <2>1. \A n \in DOMAIN table.order_events : table.order_events[n].process # process'
    BY <1>1, <1>2, <1>5
  <2> QED BY <1>1, <2>1 DEF Recorded
<1>7. DOMAIN (Batch(-1)') = {}
  BY <1>4
<1>8. OnTheWayOnce'
  BY <1>3, <1>7 DEF OnTheWayOnce
<1>9. NoneBoth'
  BY <1>3, <1>6, <1>7 DEF NoneBoth
<1>10. RowsOfThePast' /\ EventsRecordedOnce'
  BY <1>1, <1>2, <1>5 DEF RowsOfThePast, EventsRecordedOnce
<1> QED BY <1>8, <1>9, <1>10

(* An append, whatever becomes of it.                                      *)
LEMMA AppendOnce ==
    ASSUME Typed, Waiting, OnTheWayOnce, NoneBoth, RowsOfThePast, EventsRecordedOnce,
           NEW t \in Tables, t \in working, Commit(t) \/ UNCHANGED catalog,
           UNCHANGED <<process, engine, sequence>>, working' \subseteq working,
           UNCHANGED <<update, channel>> \/ (working' = {} /\ channel' = <<>>)
    PROVE  OnTheWayOnce' /\ NoneBoth' /\ RowsOfThePast' /\ EventsRecordedOnce'
<1> USE DEF engine, catalog
<1>1. update \in Updates /\ Key' = Key
  BY DEF Typed, TypeOK, Waiting, Key
<1>2. \A order : Filled(order) => Filled(order)'
  BY DEF Filled
<1>3. Key \in keys.order_events => Key \in keys'.order_events
  BY <1>1, CommitEvents
<1>4. channel' \in {channel, <<>>} /\ (Unrecorded' => Unrecorded /\ update' = update)
  BY <1>1, <1>3 DEF Unrecorded
<1>5. CASE table'.order_events = table.order_events
  BY <1>2, <1>4, <1>5, SilencedOnce
<1>6. CASE table'.order_events # table.order_events
  <2>1. /\ t = "order_events" /\ Commit(t) /\ Key \notin keys.order_events
        /\ table'.order_events = table.order_events \o Rows("order_events")
        /\ Key \in keys'.order_events
    BY <1>1, <1>6, CommitEvents
  <2>2. Unrecorded /\ ~Unrecorded'
    BY <1>1, <2>1 DEF Unrecorded
  <2>3. 0 \notin DOMAIN channel
    BY DEF Typed, TypeOK
  <2>4. Senders' \subseteq Senders \ {0}
    BY <1>4, <2>2, <2>3 DEF Senders
  <2>5. ASSUME NEW m \in Senders' PROVE Batch(m)' = Batch(m)
    <3>1. CASE m = -1
      BY <3>1, UnsentBatch, UnsentBatchNext
    <3>2. CASE m \in DOMAIN channel'
      <4>1. channel' = channel /\ m # -1 /\ m # 0
        BY <1>4, <3>2 DEF Typed, TypeOK
      <4> QED BY <4>1 DEF Batch
    <3> QED BY <2>2, <3>1, <3>2 DEF Senders
  <2> QED BY <1>1, <2>1, <2>2, <2>4, <2>5, RecordOnce
<1> QED BY <1>5, <1>6

(* Every event is at one place, or recorded once.                          *)
LEMMA StepOnce == Sound /\ Sound' /\ Once /\ [Next]_vars => Once'
<1> SUFFICES ASSUME Sound, Sound', Once, [Next]_vars
             PROVE  OnTheWayOnce' /\ NoneBoth' /\ RowsOfThePast' /\ EventsRecordedOnce'
  BY OrdersDifferStep DEF Once
<1> DEFINE Still == OnTheWayOnce' /\ NoneBoth' /\ RowsOfThePast' /\ EventsRecordedOnce'
<1> USE DEF engine, writer, catalog
<1>1. /\ Typed /\ Waiting /\ OrdersDiffer /\ OnTheWayOnce /\ NoneBoth /\ RowsOfThePast
      /\ EventsRecordedOnce
  BY DEF Sound, Once
<1>2. CASE PlaceOrder
  <2>1. /\ UNCHANGED <<process, events, noted, table, keys, channel, working, update, sequence>>
        /\ placed \in Int /\ placed' = placed + 1
        /\ open' = {o \in open : o.id # counter'} \cup {[id |-> counter', order |-> placed']}
    BY <1>1, <1>2 DEF PlaceOrder, Typed, TypeOK
  <2>2. \A order : Filled(order) => Filled(order)'
    BY <2>1 DEF Filled, Orders
  <2>3. Unrecorded' => Unrecorded /\ update' = update
    BY <2>1 DEF Unrecorded, Key
  <2> QED BY <1>1, <2>1, <2>2, <2>3, SilencedOnce
<1>3. ASSUME NEW o \in open, FillOrder(o) PROVE Still
  BY <1>1, <1>3, FillOnce
<1>4. ASSUME NEW newDay \in BOOLEAN, EmitUpdate(newDay) PROVE Still
  BY <1>1, <1>4, SentOnce
<1>5. CASE Receive
  BY <1>1, <1>5, ReceivedOnce
<1>6. ASSUME NEW t \in Tables, AppendSucceeds(t) PROVE Still
  <2>1. working' \subseteq working
    BY <1>6 DEF AppendSucceeds
  <2> QED BY <1>1, <1>6, <2>1, AppendOnce DEF AppendSucceeds
<1>7. ASSUME NEW t \in Tables, NEW committed \in BOOLEAN, AppendFails(t, committed) PROVE Still
  <2>1. /\ working' \subseteq working /\ (Commit(t) \/ UNCHANGED catalog)
        /\ UNCHANGED <<update, channel>> \/ (working' = {} /\ channel' = <<>>)
    BY <1>7 DEF AppendFails
  <2> QED BY <1>1, <1>7, <2>1, AppendOnce DEF AppendFails
<1>8. ASSUME NEW checkpoints \in Found("checkpoints"), NEW states \in Found("insight_state"),
             NEW rows \in Found("order_events"), Restart(checkpoints, states, rows)
      PROVE  Still
  BY <1>1, <1>8, RestartOnce
<1>9. CASE RefreshInsights \/ EmitFails \/ FinishUpdate \/ Stop \/ Exit \/ Crash \/ UNCHANGED vars
  <2>1. /\ UNCHANGED <<process, open, placed, events, noted, table, keys>>
        /\ channel' \in {channel, <<>>}
        /\ working' = {} \/ UNCHANGED <<update, sequence, working>>
    BY <1>9 DEF RefreshInsights, EmitFails, FinishUpdate, Stop, Exit, Crash, vars
  <2>2. \A order : Filled(order) => Filled(order)'
    BY <2>1 DEF Filled
  <2>3. Unrecorded' => Unrecorded /\ update' = update
    BY <2>1 DEF Unrecorded, Key
  <2> QED BY <1>1, <2>1, <2>2, <2>3, SilencedOnce
<1> QED BY <1>2, <1>3, <1>4, <1>5, <1>6, <1>7, <1>8, <1>9 DEF Next

(* At the start nothing is on its way.                                     *)
LEMMA StartsOnce == Init => Once
<1> SUFFICES ASSUME Init PROVE Once
  OBVIOUS
<1>1. /\ channel = <<>> /\ open = {} /\ working = {} /\ update = None
      /\ table.checkpoints = <<>> /\ table.order_events = <<>> /\ events = <<>> /\ noted = 0
  BY DEF Init, Tables
<1>2. OrdersDiffer
  BY <1>1 DEF OrdersDiffer, OpenSets, Different
<1>3. Senders = {-1}
  BY <1>1 DEF Senders, Unrecorded
<1>4. Batch(-1) = <<>>
  BY <1>1, UnsentBatch, SubSeqEmpty
<1>5. Recorded = {}
  BY <1>1 DEF Recorded
<1>6. DOMAIN Batch(-1) = {}
  BY <1>4
<1>7. OnTheWayOnce /\ NoneBoth
  BY <1>3, <1>5, <1>6 DEF OnTheWayOnce, NoneBoth
<1>8. RowsOfThePast /\ EventsRecordedOnce
  BY <1>1 DEF RowsOfThePast, EventsRecordedOnce
<1> QED BY <1>2, <1>7, <1>8 DEF Once

(* An order event is recorded at most once by a process, however often the *)
(* append of it is tried.                                                  *)
THEOREM NothingRecordedTwice == Spec => []EventsRecordedOnce
<1>1. Init => Sound /\ Once
  BY StartsSound, StartsOnce
<1>2. (Sound /\ Once) /\ [Next]_vars => (Sound /\ Once)'
  BY StaysSound, StepOnce
<1>3. Sound /\ Once => EventsRecordedOnce
  BY DEF Once
<1> QED BY <1>1, <1>2, <1>3, PTL DEF Spec
=============================================================================
