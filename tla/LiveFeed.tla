------------------------------ MODULE LiveFeed ------------------------------
(***************************************************************************)
(* The live runner's loop and the data that reaches it.  A dispatcher task *)
(* moves the provider's events into one channel per subscription; the loop *)
(* drains the channels into the assembler, which releases what is due at   *)
(* the wall-clock time as one slice; strategy code that sees the slice may *)
(* change its subscriptions, which the loop then brings about at the       *)
(* provider.  Once a second the loop scans the scheduled events.           *)
(*                                                                         *)
(* Left out: the contents of the items, those that make no slice           *)
(* (heartbeats), and the brokerage, which LiveBrokerageRouter models.      *)
(***************************************************************************)
EXTENDS Schedule, Sequences, Functions

CONSTANTS
    Subs,         \* subscriptions
    Items,        \* what the provider may offer
    SubOf, EndOf, \* the subscription of an item and its end time
    Custom,       \* custom subscriptions, whose old rows are discarded
    MaxAge,       \* LIVE_CUSTOM_DATA_MAX_AGE_NS
    Period,       \* the resolution of a subscription
    FillForward,  \* subscriptions whose last bar is repeated in later slices
    Equities,     \* those that are not repeated while the exchange is closed
    OpenAt,       \* times at which the exchange is open
    Initial,      \* the subscriptions the algorithm starts with
    Wishes,       \* those its strategy code may ask for
    Primed,       \* events registered in initialize
    SecondTicks,  \* ticks of a second
    MaxSetBacks,  \* bound: times the wall clock is set back by a tick
    MaxWire       \* bound: items on their way to the dispatcher

VARIABLES
    wall,        \* the wall clock, and how often it has been set back
    provider,    \* subscriptions the provider serves
    streaming,   \* the provider's event stream has not ended
    wire,        \* the event stream: items on their way to the dispatcher
    dispatching, \* the dispatcher has not ended
    channel,     \* the channel of each subscription
    subscribed,  \* market, configs and senders of the LiveSubscriptionSet
    wanted,      \* the algorithm's subscriptions
    pc,          \* where the loop is
    asm,         \* the LiveSliceAssembler
    slice,       \* the slice being processed: its bars
    clock,       \* the algorithm's time
    pulse,       \* LiveTimePulse.last_second
    schedule,    \* the ScheduleManager
    offered,     \* history: items in the order in which the provider offered them
    delivered,   \* history: the slice time of each item delivered
    fired,       \* history: how often each trigger of a date has fired
    since        \* history: the time from which an event's triggers count

feed  == <<provider, streaming, wire, dispatching, channel, subscribed>>
loop  == <<wanted, pc, asm, slice, clock, pulse>>
sched == <<schedule, fired, since>>
vars  == <<wall, feed, loop, sched, offered, delivered>>

StreamLost == "stream lost"   \* the error the dispatcher leaves in every channel

ASSUME FeedAssumption ==
    /\ SubOf \in [Items -> Subs] /\ EndOf \in [Items -> 0..MaxTime]
    /\ StreamLost \notin Items
    /\ {Custom, FillForward, Equities, Initial} \cup Wishes \subseteq SUBSET Subs
    /\ Period \in [Subs -> Nat \ {0}] /\ OpenAt \subseteq Int
    /\ MaxAge \in Nat /\ SecondTicks \in Nat \ {0} /\ MaxSetBacks \in Nat /\ MaxWire \in Nat
    /\ Primed \subseteq Events

(* live.rs up to the loop: events of initialize are primed, subscriptions  *)
(* made; the provider has offered nothing yet.                             *)
None == -1   \* no bar remembered of a subscription

Init ==
    /\ wall = [now |-> 0, setBacks |-> 0]
    /\ provider = Initial /\ subscribed = Initial /\ wanted = Initial
    /\ streaming = TRUE /\ dispatching = TRUE
    /\ wire = <<>>
    /\ channel = [s \in Subs |-> <<>>]
    /\ pc = "top"
    /\ asm = [pending |-> {}, frontier |-> 0, fills |-> Initial \cap FillForward,
              memory |-> [s \in Subs |-> None]]
    /\ slice = [s \in {} |-> [end |-> 0, filled |-> FALSE]]
    /\ clock = 0
    /\ pulse = 0
    /\ schedule = SkipUntil([registered |-> Primed, frontier |-> 0,
                             evaluated |-> [e \in Events |-> 0]], 0)
    /\ offered = <<>>
    /\ delivered = [i \in {} |-> 0]
    /\ fired = [e \in Events |-> [d \in Dates |-> 0]]
    /\ since = [e \in Events |-> 0]

---------------------------------------------------------------------------
(* The wall clock and the provider.                                        *)
Tick ==
    /\ wall.now < MaxTime
    /\ wall' = [wall EXCEPT !.now = @ + 1]
    /\ UNCHANGED <<feed, loop, sched, offered, delivered>>

SetBack ==
    /\ wall.now > 0 /\ wall.setBacks < MaxSetBacks
    /\ wall' = [now |-> wall.now - 1, setBacks |-> wall.setBacks + 1]
    /\ UNCHANGED <<feed, loop, sched, offered, delivered>>

Offer(i) ==
    /\ streaming
    /\ SubOf[i] \in provider
    /\ i \notin Range(offered)
    /\ Len(wire) < MaxWire
    /\ wire' = Append(wire, i)
    /\ offered' = Append(offered, i)
    /\ UNCHANGED <<wall, provider, streaming, dispatching, channel, subscribed, loop, sched,
                   delivered>>

EndStream ==
    /\ streaming
    /\ streaming' = FALSE
    /\ UNCHANGED <<wall, provider, wire, dispatching, channel, subscribed, loop, sched,
                   offered, delivered>>

---------------------------------------------------------------------------
(* The dispatcher task: an item of a subscription that has no sender, and  *)
(* a custom row older than the grace period, is dropped.                   *)
Fresh(i) == SubOf[i] \in Custom => EndOf[i] >= wall.now - MaxAge

Dispatch ==
    /\ dispatching
    /\ wire # <<>>
    /\ wire' = Tail(wire)
    /\ LET i == Head(wire)
       IN  channel' = IF SubOf[i] \in subscribed /\ Fresh(i)
                      THEN [channel EXCEPT ![SubOf[i]] = Append(@, i)]
                      ELSE channel
    /\ UNCHANGED <<wall, provider, streaming, dispatching, subscribed, loop, sched,
                   offered, delivered>>

EndDispatch ==
    /\ dispatching /\ ~streaming
    /\ wire = <<>>
    /\ dispatching' = FALSE
    /\ channel' = [s \in Subs |-> IF s \in subscribed THEN Append(channel[s], StreamLost)
                                                      ELSE channel[s]]
    /\ UNCHANGED <<wall, provider, streaming, wire, subscribed, loop, sched, offered, delivered>>

---------------------------------------------------------------------------
(* The top of the loop.  A pulse scans the scheduled events, at whose      *)
(* triggers callbacks run, then moves the algorithm's clock to the second. *)
Second == (wall.now \div SecondTicks) * SecondTicks

Fire(due) ==
    fired' = [e \in Events |-> [d \in Dates |->
                 IF \E x \in due : x.event = e /\ x.date = d THEN fired[e][d] + 1 ELSE fired[e][d]]]

TakePulse ==
    /\ pc = "top"
    /\ Second > pulse
    /\ pulse' = Second
    /\ schedule' = Scanned(schedule, Second)
    /\ Fire(DueEvents(schedule, Second))
    /\ clock' = Second
    /\ wanted' \in IF DueEvents(schedule, Second) = {} THEN {wanted} ELSE Wishes
    /\ pc' = "poll"
    /\ UNCHANGED <<wall, feed, asm, slice, since, offered, delivered>>

NoPulse ==
    /\ pc = "top"
    /\ Second =< pulse
    /\ pc' = "poll"
    /\ UNCHANGED <<wall, feed, wanted, asm, slice, clock, pulse, sched, offered, delivered>>

(* A callback registers an event: a scheduled one, or one that runs in     *)
(* process_live_slice, where it comes to the same.                         *)
Register(e) ==
    /\ pc = "poll"
    /\ e \notin schedule.registered
    /\ schedule' = AddEvent(schedule, e)
    /\ since' = [since EXCEPT ![e] = schedule.frontier]
    /\ UNCHANGED <<wall, feed, loop, fired, offered, delivered>>

---------------------------------------------------------------------------
(* poll_live_item until every channel is found empty.                      *)
Take(s) ==
    /\ pc = "poll"
    /\ s \in subscribed
    /\ channel[s] # <<>>
    /\ Head(channel[s]) # StreamLost
    /\ channel' = [channel EXCEPT ![s] = Tail(@)]
    /\ asm' = [asm EXCEPT !.pending = @ \cup {Head(channel[s])}]
    /\ UNCHANGED <<wall, provider, streaming, wire, dispatching, subscribed, wanted, pc,
                   slice, clock, pulse, sched, offered, delivered>>

(* The run ends with an error, and what was drained is not delivered.      *)
LoseStream(s) ==
    /\ pc = "poll"
    /\ s \in subscribed
    /\ channel[s] # <<>>
    /\ Head(channel[s]) = StreamLost
    /\ pc' = "stopped"
    /\ UNCHANGED <<wall, feed, wanted, asm, slice, clock, pulse, sched, offered, delivered>>

Drained == \A s \in subscribed : channel[s] = <<>>

---------------------------------------------------------------------------
(* LiveSliceAssembler.  set_subscriptions: what is not wanted any more is  *)
(* forgotten.                                                              *)
(* Fault: whether they repeat their bars or not.                           *)
FillsAll == subscribed

Fills == subscribed \cap FillForward

SetSubscriptions ==
    [asm EXCEPT !.fills = Fills,
                !.memory = [s \in Subs |-> IF s \in Fills THEN @[s] ELSE None]]

(* They are set in every iteration, and not again when the run ends.       *)
Assembler == IF pc = "poll" THEN SetSubscriptions ELSE asm

LaterOf(a, b) == IF a >= b THEN a ELSE b

(* Fault: the wall clock as it is.                                         *)
WallFrontier == wall.now

Frontier == LaterOf(wall.now, asm.frontier)

(* Fault: only what has come due since the last slice.                     *)
JustDue == {i \in asm.pending : EndOf[i] > asm.frontier /\ EndOf[i] =< Frontier}

Due == {i \in asm.pending : EndOf[i] =< Frontier}

(* Fault: what is not due is not kept.                                     *)
Forgotten == {}

Future == asm.pending \ Due

(* The items of a subscription among those due; the one that came last is  *)
(* the bar in the slice, the one with the latest end is remembered.        *)
DueOf(s) == {i \in Due : SubOf[i] = s}

Position(i) == CHOOSE n \in DOMAIN offered : offered[n] = i

LastArrived(s) == CHOOSE i \in DueOf(s) : \A j \in DueOf(s) : Position(j) =< Position(i)

(* remember_market_data                                                    *)
Remembered(s) ==
    IF s \in Assembler.fills /\ DueOf(s) # {}
    THEN LET latest == CHOOSE i \in DueOf(s) : \A j \in DueOf(s) : EndOf[j] =< EndOf[i]
         IN  LaterOf(EndOf[latest], Assembler.memory[s])
    ELSE Assembler.memory[s]

(* fill_forward_item: the end of the bar that repeats the one remembered.  *)
(* Fault: always the remembered bar itself.                                *)
RememberedEnd(s) == Remembered(s)

FillEnd(s) ==
    Remembered(s) + ((Frontier - Remembered(s)) \div Period[s]) * Period[s]

Filled(s) ==
    /\ s \in Assembler.fills /\ DueOf(s) = {}
    /\ Remembered(s) # None /\ Frontier > Remembered(s)
    /\ s \in Equities => FillEnd(s) - Period[s] \in OpenAt

SliceBars ==
    [s \in {s \in Subs : DueOf(s) # {} \/ Filled(s)} |->
        IF DueOf(s) # {} THEN [end |-> EndOf[LastArrived(s)], filled |-> FALSE]
                         ELSE [end |-> FillEnd(s), filled |-> TRUE]]

(* advance, then process_live_slice, in which strategy code runs; `next`   *)
(* is where the loop goes on when there is a slice, else `idle`.           *)
Advance(next, idle) ==
    /\ asm' = [Assembler EXCEPT !.frontier = Frontier, !.pending = Future,
                          !.memory = [s \in Subs |-> Remembered(s)]]
    /\ \/ /\ Due = {}
          /\ pc' = idle
          /\ UNCHANGED <<wanted, slice, clock, delivered>>
       \/ /\ Due # {}
          /\ slice' = SliceBars
          /\ clock' = Frontier
          /\ delivered' = [i \in DOMAIN delivered \cup Due |->
                              IF i \in Due THEN Frontier ELSE delivered[i]]
          /\ wanted' \in Wishes
          /\ pc' = next
    /\ UNCHANGED <<wall, feed, pulse, sched, offered>>

Release == pc = "poll" /\ Drained /\ Advance("sync", "top")

(* The run ends: one more slice from what has been drained.                *)
Flush == pc = "top" /\ Advance("last sync", "stopped")

---------------------------------------------------------------------------
(* sync_live_subscriptions.  Subscribing at the provider and installing    *)
(* the sender are two steps, as the dispatcher may run in between.         *)
Syncing == pc \in {"sync", "last sync"}

Remove(s) ==
    /\ Syncing
    /\ s \in subscribed \ wanted
    /\ provider' = provider \ {s}
    /\ subscribed' = subscribed \ {s}
    /\ channel' = [channel EXCEPT ![s] = <<>>]
    /\ UNCHANGED <<wall, streaming, wire, dispatching, loop, sched, offered, delivered>>

Subscribe(s) ==
    /\ Syncing
    /\ subscribed \subseteq wanted
    /\ provider \subseteq subscribed
    /\ s \in wanted \ subscribed
    /\ provider' = provider \cup {s}
    /\ UNCHANGED <<wall, streaming, wire, dispatching, channel, subscribed, loop, sched,
                   offered, delivered>>

Install(s) ==
    /\ Syncing
    /\ s \in provider \ subscribed
    /\ subscribed' = subscribed \cup {s}
    /\ UNCHANGED <<wall, provider, streaming, wire, dispatching, channel, loop, sched,
                   offered, delivered>>

Synced ==
    /\ Syncing
    /\ subscribed = wanted
    /\ pc' = IF pc = "sync" THEN "top" ELSE "stopped"
    /\ slice' = [s \in {} |-> slice[s]]
    /\ UNCHANGED <<wall, feed, wanted, asm, clock, pulse, sched, offered, delivered>>

(* The provider fails to subscribe or unsubscribe, or the algorithm ends   *)
(* with an error: the run is over.                                         *)
Abort ==
    /\ Syncing
    /\ pc' = "stopped"
    /\ UNCHANGED <<wall, feed, wanted, asm, slice, clock, pulse, sched, offered, delivered>>

---------------------------------------------------------------------------
SyncSubscriptions ==
    \/ \E s \in Subs : Remove(s) \/ Subscribe(s) \/ Install(s)
    \/ Synced

Loop ==
    \/ TakePulse \/ NoPulse \/ Release
    \/ \E s \in Subs : Take(s) \/ LoseStream(s)
    \/ SyncSubscriptions

Next ==
    \/ Tick \/ SetBack \/ EndStream
    \/ \E i \in Items : Offer(i)
    \/ Dispatch \/ EndDispatch
    \/ \E e \in Events : Register(e)
    \/ Loop
    \/ Flush \/ Abort

Spec == Init /\ [][Next]_vars

(* Time passes; the dispatcher task and the loop keep running.  Nothing    *)
(* makes the provider offer, or the run end.                               *)
FairSpec == Spec /\ WF_vars(Tick) /\ WF_vars(Dispatch \/ EndDispatch) /\ WF_vars(Loop)

---------------------------------------------------------------------------
TypeOK ==
    /\ wall \in [now : 0..MaxTime, setBacks : 0..MaxSetBacks]
    /\ provider \subseteq Subs /\ subscribed \subseteq Subs /\ wanted \subseteq Subs
    /\ streaming \in BOOLEAN /\ dispatching \in BOOLEAN
    /\ wire \in Seq(Items) /\ offered \in Seq(Items)
    /\ channel \in [Subs -> Seq(Items \cup {StreamLost})]
    /\ pc \in {"top", "poll", "sync", "last sync", "stopped"}
    /\ asm \in [pending : SUBSET Items, frontier : Nat, fills : SUBSET FillForward,
                memory : [Subs -> Int]]
    /\ clock \in Nat /\ pulse \in Nat
    /\ IsSchedule(schedule)
    /\ DOMAIN delivered \subseteq Items
    /\ delivered \in [DOMAIN delivered -> Nat]
    /\ fired \in [Events -> [Dates -> Nat]]
    /\ since \in [Events -> Int]

(* Where an item can be on its way.                                        *)
InChannel(i) == i \in Range(channel[SubOf[i]])
OnItsWay == Range(wire) \cup {i \in Items : InChannel(i)} \cup asm.pending

(* What the feed promises: no item twice, none early, no slice back in     *)
(* time, nothing that was lost reappears - over removed and re-added       *)
(* subscriptions, a clock that is set back, and data early and late.       *)
Delivery == INSTANCE LiveDelivery WITH
    offered   <- Range(offered),
    gone      <- Range(offered) \ (OnItsWay \cup DOMAIN delivered),
    delivered <- delivered,
    frontier  <- asm.frontier

DeliverySpec == Delivery!Spec

(* Data of one subscription arrives in the order in which the provider     *)
(* sent it, unless it was sent with a time ahead of what followed.         *)
InOrder ==
    \A m, n \in DOMAIN offered :
        LET i == offered[m]
            j == offered[n]
        IN  m < n /\ SubOf[i] = SubOf[j] /\ EndOf[i] =< EndOf[j] /\ j \in DOMAIN delivered =>
                /\ i \notin OnItsWay
                /\ i \in DOMAIN delivered => delivered[i] =< delivered[j]

(* Every trigger of a registered event fires exactly once when its time    *)
(* comes, however the scans fall on the boundaries of dates, and no        *)
(* trigger from before the event was registered fires.                     *)
EachTriggerOnce ==
    \A e \in Events, d \in Dates :
        LET time == TriggerTime(Rules[e], d)
        IN  fired[e][d] = IF /\ e \in schedule.registered
                             /\ d \in Rules[e].dates
                             /\ time > since[e] /\ time =< pulse
                          THEN 1 ELSE 0

(* A bar repeated in a slice is of a subscription the algorithm had when   *)
(* the slice was made, ended at the last boundary of its resolution, and   *)
(* never takes the place of a real one.                                    *)
FillsCurrent ==
    \A s \in DOMAIN slice :
        slice[s].filled =>
            /\ s \in asm.fills
            /\ slice[s].end =< clock /\ slice[s].end > clock - Period[s]
            /\ \A i \in DOMAIN delivered :
                  delivered[i] = clock /\ SubOf[i] = s => EndOf[i] =< slice[s].end

(* What has reached a channel or the assembler is delivered, unless its    *)
(* subscription is dropped or the run ends.                                *)
Held(i) == InChannel(i) \/ i \in asm.pending
HeldIsDelivered ==
    \A i \in Items : Held(i) ~> i \in DOMAIN delivered \/ SubOf[i] \notin subscribed \/ pc = "stopped"

(* The comment of poll_live_item: a dropped stream is surfaced, so that    *)
(* nothing trades blind on a dead subscription.                            *)
LossNoticed == (~dispatching) ~> pc = "stopped"

(* The live tests' wall_clock_regression_never_moves_live_time_backward.   *)
LiveTimeNeverBack == [][clock' >= clock]_vars
=============================================================================
