----------------------------- MODULE Framework -----------------------------
(***************************************************************************)
(* The algorithm framework of a live run: alpha models emit insights,      *)
(* portfolio construction turns the active ones into targets, risk models  *)
(* override them and ImmediateExecutionModel retains the targets until the *)
(* holdings reach them.  The insights are written to the run catalog and   *)
(* survive the process; a restart restores them, replays history through   *)
(* the models and merges what the replay emitted with what was restored.   *)
(*                                                                         *)
(* Left out: insight IDs, scores, weights and Down insights (a target is   *)
(* one lot or none, and portfolio construction gives one lot to a symbol   *)
(* with an active insight), prices, and the catalog, whose last durable    *)
(* snapshot is "saved".                                                    *)
(***************************************************************************)
EXTENDS Integers, FiniteSets

CONSTANTS
    Symbols, Sources,    \* securities and alpha models
    Deterministic,       \* sources whose signals a replay of history repeats
    Period,              \* how long an insight of a source is active
    EverySlice,          \* cadence of portfolio construction: each time step,
    NextRebalance,       \*   or the next time after each time (None: no next)
    OnInsights,          \* changes of insights make a rebalance due
    OnSecurities,        \* changes of securities do
    Window,              \* the warm-up period
    None,                \* no time, no target, no time step
    MaxTime,             \* bound: time steps
    MaxSignals,          \* bound: signals of a time step
    MaxCrashes           \* bound: crashes of the process

VARIABLES
    now,       \* the time of the last time step
    pc,        \* "top" of the live loop, "slice", "emit", "events" or "warmup"
    insights,  \* InsightCollection: active and closed
    flats,     \* pending_flat_targets
    rebalance, \* next_rebalance_time and the pending flags
    dirty,     \* pending_insight_events is not empty
    targets,   \* the targets ImmediateExecutionModel retains
    holdings,  \* lots held at the brokerage
    open,      \* lots of the open order of each symbol
    saved,     \* the insight snapshot in the catalog
    replay,    \* the time of the next warm-up slice
    crashes,
    emitted,   \* history: the signals of each time step
    asked      \* history: the last target each symbol was given since startup

vars == <<now, pc, insights, flats, rebalance, dirty, targets, holdings, open, saved, replay,
          crashes, emitted, asked>>

Times   == 1..MaxTime
Signals == [source : Sources, symbol : Symbols, flat : BOOLEAN]

ASSUME FrameworkAssumption ==
    /\ Deterministic \subseteq Sources /\ Period \in [Sources -> Nat]
    /\ {EverySlice, OnInsights, OnSecurities} \subseteq BOOLEAN
    /\ MaxTime \in Nat /\ Window \in Nat /\ MaxSignals \in Nat /\ MaxCrashes \in Nat
    /\ None \notin Nat
    /\ NextRebalance \in [Times -> Nat \cup {None}]
    /\ EverySlice => \A t \in Times : NextRebalance[t] = None

---------------------------------------------------------------------------
(* Insights.                                                               *)
IsActive(i, t) == t =< i.close
Expired(t) == {i \in insights.active : ~IsActive(i, t)}

HasActive(collection, s, t) == \E i \in collection : i.symbol = s /\ IsActive(i, t)

Emission(g, t) ==
    [symbol |-> g.symbol, source |-> g.source, generated |-> t, close |-> t + Period[g.source]]

(* close_source_symbol: a Flat closes the insights of its own source only. *)
FlatClosed(collection, signals) ==
    {i \in collection : \E g \in signals : g.flat /\ g.source = i.source /\ g.symbol = i.symbol}

ClosedBy(closing, t) == {[i EXCEPT !.close = IF t < @ THEN t ELSE @] : i \in closing}

(* The signals one time step may emit, one of a source for a symbol.       *)
SomeSignals(sources) ==
    {gs \in SUBSET {g \in Signals : g.source \in sources} :
        /\ Cardinality(gs) =< MaxSignals
        /\ \A g, h \in gs : g.source = h.source /\ g.symbol = h.symbol => g = h}

---------------------------------------------------------------------------
(* is_rebalance_due at time t, and what it leaves behind.                  *)
NextTime(t) == IF rebalance.next = None THEN NextRebalance[t] ELSE rebalance.next

RebalanceDue(t, changes) ==
    \/ rebalance.next = None /\ EverySlice
    \/ rebalance.pending
    \/ OnSecurities /\ rebalance.securities
    \/ OnInsights /\ changes
    \/ NextTime(t) # None /\ NextTime(t) =< t

Rebalanced(t) == [next |-> NextRebalance[t], pending |-> FALSE, securities |-> FALSE]

---------------------------------------------------------------------------
(* ImmediateExecutionModel.  New targets replace those of their symbols;   *)
(* the fulfilled ones are retired, an order is placed for each of the      *)
(* others that open orders do not already account for, unless the buying   *)
(* power or the security's data does not allow it.                         *)
(* Fault: a target is added to the one retained.                           *)
RetainedSum(updates) ==
    [s \in DOMAIN targets \cup DOMAIN updates |->
        IF s \notin DOMAIN updates THEN targets[s]
        ELSE IF s \notin DOMAIN targets THEN updates[s]
        ELSE targets[s] + updates[s]]

Retained(updates) ==
    [s \in DOMAIN targets \cup DOMAIN updates |->
        IF s \in DOMAIN updates THEN updates[s] ELSE targets[s]]

Fulfilled(retained) == {s \in DOMAIN retained : retained[s] = holdings[s]}

Warm(updates) ==
    /\ targets' = Retained(updates)
    /\ UNCHANGED open

(* Fault: open orders are not accounted for.                               *)
ExecuteAgain(updates, blocked) ==
    LET retained == Retained(updates)
        working  == DOMAIN retained \ Fulfilled(retained)
    IN  /\ targets' = [s \in working |-> retained[s]]
        /\ open' = [s \in Symbols |-> open[s] + IF s \in working \ blocked
                                                THEN retained[s] - holdings[s] ELSE 0]

Execute(updates, blocked) ==
    LET retained == Retained(updates)
        working  == DOMAIN retained \ Fulfilled(retained)
    IN  /\ targets' = [s \in working |-> retained[s]]
        /\ open' = [s \in Symbols |-> IF s \in working \ blocked THEN retained[s] - holdings[s]
                                                                 ELSE open[s]]

---------------------------------------------------------------------------
(* run_pipeline_from_alpha at time t: the insights that expire, those a    *)
(* Flat closes, the new ones, and the symbols that are to be flattened.    *)
Kept(t)             == insights.active \ Expired(t)
Flatted(t, signals) == FlatClosed(Kept(t), signals)
Added(t, signals)   == {Emission(g, t) : g \in {h \in signals : ~h.flat}}
Active(t, signals)  == (Kept(t) \ Flatted(t, signals)) \cup Added(t, signals)
Flatting(signals)   == flats \cup {g.symbol : g \in {h \in signals : h.flat}}

(* The symbols with an active insight, and those that lost their last one. *)
Wanted(t, signals) == {s \in Symbols : HasActive(Active(t, signals), s, t)}
Gone(t, signals)   == {i.symbol : i \in Expired(t)} \ Wanted(t, signals)

Idle(t, signals) ==
    Wanted(t, signals) = {} /\ Gone(t, signals) = {} /\ Flatting(signals) = {}

Due(t, signals) ==
    /\ ~Idle(t, signals)
    /\ RebalanceDue(t, signals # {} \/ Expired(t) # {} \/ Flatting(signals) # {})

(* The insights the risk models cancel, theirs being the symbols "risky",  *)
(* and the targets the execution model is given.                           *)
Cancelled(t, signals, risky) ==
    IF Due(t, signals) THEN {i \in Active(t, signals) : i.symbol \in risky} ELSE {}

Updates(t, signals, risky) ==
    LET created == Wanted(t, signals) \cup Gone(t, signals) \cup Flatting(signals) \cup risky
    IN  IF Due(t, signals)
        THEN [s \in created |->
                 IF s \in Wanted(t, signals) \ (Flatting(signals) \cup risky) THEN 1 ELSE 0]
        ELSE [s \in {} |-> 0]

Pipeline(t, signals, risky) ==
    LET expired   == Expired(t)
        flatted   == Flatted(t, signals)
        cancelled == Cancelled(t, signals, risky)
        updates   == Updates(t, signals, risky)
    IN  /\ insights' = [active |-> Active(t, signals) \ cancelled,
                        closed |-> insights.closed \cup expired \cup ClosedBy(flatted, t)
                                       \cup cancelled]
        /\ flats' = IF Due(t, signals) THEN {} ELSE Flatting(signals)
        /\ rebalance' = IF Idle(t, signals) THEN rebalance
                        ELSE IF Due(t, signals) THEN Rebalanced(t)
                        ELSE [rebalance EXCEPT !.next = NextTime(t)]
        /\ dirty' = (dirty \/ expired \cup flatted \cup Added(t, signals) \cup cancelled # {})
        /\ emitted' = [emitted EXCEPT ![t] = signals]
        /\ asked' = [s \in Symbols |-> IF s \in DOMAIN updates THEN updates[s] ELSE asked[s]]

---------------------------------------------------------------------------
Init ==
    /\ now = 0
    /\ pc = "top"
    /\ insights = [active |-> {}, closed |-> {}]
    /\ flats = {}
    /\ rebalance = [next |-> None, pending |-> FALSE, securities |-> FALSE]
    /\ dirty = FALSE
    /\ targets = [s \in {} |-> 0]
    /\ holdings \in [Symbols -> {0, 1}]
    /\ open = [s \in Symbols |-> 0]
    /\ saved = insights
    /\ replay = 1
    /\ crashes = 0
    /\ emitted = [t \in Times |-> None]
    /\ asked = [s \in Symbols |-> None]

(* A data slice or a pulse at which scheduled callbacks run.               *)
BeginStep ==
    /\ pc = "top"
    /\ now < MaxTime
    /\ now' = now + 1
    /\ pc' = "slice"
    /\ UNCHANGED <<insights, flats, rebalance, dirty, targets, holdings, open, saved, replay,
                   crashes, emitted, asked>>

(* cancel_insights, called from on_data, a scheduled callback or an order  *)
(* event handler: the insights expire at the next time step.               *)
(* Faults: the insights leave the collection at once; no event is pushed.  *)
RemoveInsights(s) ==
    /\ pc \in {"slice", "events"}
    /\ LET cancelled == {i \in insights.active : i.symbol = s /\ IsActive(i, now)}
       IN  /\ insights' = [active |-> insights.active \ cancelled,
                           closed |-> insights.closed \cup cancelled]
           /\ dirty' = (dirty \/ cancelled # {})
           /\ rebalance' = [rebalance EXCEPT !.pending = @ \/ cancelled # {}]
    /\ UNCHANGED <<now, pc, flats, targets, holdings, open, saved, replay, crashes, emitted,
                   asked>>

CancelSilently(s) ==
    /\ pc \in {"slice", "events"}
    /\ LET cancelled == {i \in insights.active : i.symbol = s /\ IsActive(i, now)}
       IN  insights' = [insights EXCEPT !.active =
                           (@ \ cancelled) \cup {[i EXCEPT !.close = now - 1] : i \in cancelled}]
    /\ UNCHANGED <<now, pc, flats, rebalance, dirty, targets, holdings, open, saved, replay,
                   crashes, emitted, asked>>

CancelInsights(s) ==
    /\ pc \in {"slice", "events"}
    /\ LET cancelled == {i \in insights.active : i.symbol = s /\ IsActive(i, now)}
       IN  /\ insights' = [insights EXCEPT !.active =
                              (@ \ cancelled) \cup {[i EXCEPT !.close = now - 1] : i \in cancelled}]
           /\ dirty' = (dirty \/ cancelled # {})
           /\ rebalance' = [rebalance EXCEPT !.pending = @ \/ cancelled # {}]
    /\ UNCHANGED <<now, pc, flats, targets, holdings, open, saved, replay, crashes, emitted,
                   asked>>

(* Universe selection, or strategy code that adds or removes a security.   *)
ChangeSecurities ==
    /\ pc = "slice"
    /\ rebalance' = [rebalance EXCEPT !.securities = TRUE]
    /\ UNCHANGED <<now, pc, insights, flats, dirty, targets, holdings, open, saved, replay,
                   crashes, emitted, asked>>

RunFramework(signals, risky, blocked) ==
    /\ pc = "slice"
    /\ Pipeline(now, signals, risky)
    /\ Execute(Updates(now, signals, risky), blocked)
    /\ pc' = "emit"
    /\ UNCHANGED <<now, holdings, saved, replay, crashes>>

(* emit_live_catalog_update: nothing is written when no event is pending.  *)
EmitUpdate ==
    /\ pc \in {"emit", "events"}
    /\ saved' = IF dirty THEN insights ELSE saved
    /\ dirty' = FALSE
    /\ pc' = "top"
    /\ UNCHANGED <<now, insights, flats, rebalance, targets, holdings, open, replay, crashes,
                   emitted, asked>>

(* The brokerage fills or rejects an order; service_live_brokerage sees it *)
(* at the top of the loop, or the account sync when the run is down.       *)
Answer(s, filled) ==
    /\ pc \in {"top", "warmup"}
    /\ open[s] # 0
    /\ holdings' = [holdings EXCEPT ![s] = IF filled THEN @ + open[s] ELSE @]
    /\ open' = [open EXCEPT ![s] = 0]
    /\ pc' = IF pc = "top" THEN "events" ELSE pc
    /\ UNCHANGED <<now, insights, flats, rebalance, dirty, targets, saved, replay, crashes,
                   emitted, asked>>

---------------------------------------------------------------------------
(* The process dies and is started again, now or a time step later: the    *)
(* framework is new but for the insights of the catalog, whose securities  *)
(* are added when initialize did not.                                      *)
Crash ==
    /\ pc # "warmup"
    /\ crashes < MaxCrashes
    /\ crashes' = crashes + 1
    /\ now' \in {t \in {now, now + 1} : t =< MaxTime}
    /\ pc' = "warmup"
    /\ insights' = saved
    /\ flats' = {}
    /\ \E added \in {FALSE, saved.active # {}} :
           rebalance' = [next |-> None, pending |-> FALSE, securities |-> added]
    /\ dirty' = (saved.active # {})
    /\ targets' = [s \in {} |-> 0]
    /\ replay' = IF now' < Window THEN 1 ELSE now' - Window + 1
    /\ asked' = [s \in Symbols |-> None]
    /\ UNCHANGED <<holdings, open, saved, emitted>>

(* What the models emit at a time of the past: what they emitted then, the *)
(* sources that follow live events only being silent.                      *)
Replayed(t) ==
    IF emitted[t] = None THEN SomeSignals(Deterministic)
                           ELSE {{g \in emitted[t] : g.source \in Deterministic}}

(* process_warmup_slice.  There are no holdings yet for a risk model to    *)
(* act on, and orders are suppressed.                                      *)
WarmUp(signals) ==
    /\ pc = "warmup"
    /\ replay =< now
    /\ signals \in Replayed(replay)
    /\ Pipeline(replay, signals, {})
    /\ Warm(Updates(replay, signals, {}))
    /\ replay' = replay + 1
    /\ UNCHANGED <<now, pc, holdings, saved, crashes>>

(* reconcile_live_insights_after_warmup: what the replay emitted, and what *)
(* it did not of the restored insights.  A record is its semantic key.     *)
(* Fault: only what the replay left.                                       *)
MergedFromReplay(restored, replayed) == replayed

Merged(restored, replayed) ==
    LET only == (restored.active \cup restored.closed) \ (replayed.active \cup replayed.closed)
    IN  [active |-> replayed.active \cup {i \in only : IsActive(i, now)},
         closed |-> (replayed.closed \ replayed.active) \cup {i \in only : ~IsActive(i, now)}]

(* Reconciliation, accept_brokerage_startup_state and the first update of  *)
(* the catalog, which is always written.                                   *)
FinishWarmUp ==
    /\ pc = "warmup"
    /\ replay > now
    /\ insights' = Merged(saved, insights)
    /\ saved' = insights'
    /\ dirty' = FALSE
    /\ flats' = {}
    /\ rebalance' = [rebalance EXCEPT !.pending = FALSE]
    /\ asked' = [s \in Symbols |-> None]
    /\ pc' = "top"
    /\ UNCHANGED <<now, targets, holdings, open, replay, crashes, emitted>>

---------------------------------------------------------------------------
Next ==
    \/ BeginStep
    \/ \E s \in Symbols : CancelInsights(s)
    \/ ChangeSecurities
    \/ \E signals \in SomeSignals(Sources), risky \in SUBSET {s \in Symbols : holdings[s] # 0},
          blocked \in SUBSET Symbols : RunFramework(signals, risky, blocked)
    \/ EmitUpdate
    \/ \E s \in Symbols, filled \in BOOLEAN : Answer(s, filled)
    \/ Crash
    \/ \E signals \in SomeSignals(Deterministic) : WarmUp(signals)
    \/ FinishWarmUp

Spec == Init /\ [][Next]_vars

---------------------------------------------------------------------------
Insights == [symbol : Symbols, source : Sources, generated : Times, close : Int]

(* Every variable has its type.                                            *)
TypeOK ==
    /\ now \in 0..MaxTime
    /\ pc \in {"top", "slice", "emit", "events", "warmup"}
    /\ {insights, saved} \subseteq [active : SUBSET Insights, closed : SUBSET Insights]
    /\ flats \subseteq Symbols
    /\ rebalance \in [next : Nat \cup {None}, pending : BOOLEAN, securities : BOOLEAN]
    /\ dirty \in BOOLEAN
    /\ DOMAIN targets \subseteq Symbols /\ \A s \in DOMAIN targets : targets[s] \in {0, 1}
    /\ holdings \in [Symbols -> Int] /\ open \in [Symbols -> Int]
    /\ replay \in 1..MaxTime + 1 /\ crashes \in 0..MaxCrashes
    /\ emitted \in [Times -> {None} \cup SUBSET Signals]
    /\ asked \in [Symbols -> {None, 0, 1}]

(* After a time step the execution model retains a nonzero target only of  *)
(* a symbol that has an active insight: an expiry, a Flat, a cancellation  *)
(* and a risk model's cancellation each reach the retained target within   *)
(* the time step that sees it, and a restart brings back no other target.  *)
(* (That a change of insights makes a rebalance due is needed for it.)     *)
TargetsBacked ==
    pc = "emit" =>
        \A s \in DOMAIN targets : targets[s] # 0 => HasActive(insights.active, s, now)

(* Holdings and open orders together never exceed the one lot that any     *)
(* target asks for, over retries, fills, rejections and restarts.          *)
NeverOvershoots == \A s \in Symbols : holdings[s] + open[s] \in {0, 1}

(* At the top of the loop the catalog's snapshot is the insight collection:*)
(* no change of it escapes the pending events that cause it to be written. *)
SavedIsCurrent == pc = "top" => saved = insights

(* A restart keeps every insight of the catalog that has time left,        *)
(* whatever the replay of history made of it.                              *)
RestoredSurvive ==
    [][pc = "warmup" /\ pc' = "top" =>
          \A i \in saved.active : now < i.close => i \in insights'.active]_vars

(* "retain genuinely new replay signals" (catalog_state.rs:237): no insight *)
(* is active after a restart that a Flat of its source, replayed or        *)
(* emitted while the process was down, has closed.  The code revives it.   *)
FlatsSurviveRestart ==
    [][pc = "warmup" /\ pc' = "top" =>
          \A i \in insights'.active, t \in Times :
             i.generated < t /\ emitted[t] # None =>
                 [source |-> i.source, symbol |-> i.symbol, flat |-> TRUE] \notin emitted[t]]_vars

(* "targets are retained in a collection and ordered by margin impact      *)
(* until projected holdings satisfy them" (immediate.rs:10): a target the  *)
(* execution model no longer retains is what holdings and open orders come *)
(* to.  The code compares it with the holdings alone.                      *)
RetainedUntilProjected ==
    pc = "emit" =>
        \A s \in Symbols \ DOMAIN targets : asked[s] # None => holdings[s] + open[s] = asked[s]

(* "The framework may change the position only after normal post-startup   *)
(* alpha or scheduled logic requests a new target" (live.rs:344): an order *)
(* is only placed for a symbol given a target since the startup.           *)
StartupKeepsHoldings ==
    [][pc = "slice" => \A s \in Symbols : open'[s] # open[s] => asked'[s] # None]_vars

=============================================================================
