-------------------------- MODULE Framework_proofs --------------------------
(***************************************************************************)
(* Through every step of the framework, for any symbols, alpha models,     *)
(* periods, cadences and numbers of crashes: the types, the lots held and  *)
(* ordered, the insights behind the retained targets, and the agreement of *)
(* the insights with the catalog.                                          *)
(***************************************************************************)
EXTENDS Framework, TLAPS

(* A time step runs at a time that has begun.                              *)
Typed ==
    /\ TypeOK
    /\ pc = "slice" => now \in Times

(* A lot held or none, and with the open order again a lot or none.        *)
OneLot ==
    \A s \in Symbols : holdings[s] \in {0, 1} /\ holdings[s] + open[s] \in {0, 1}

(* A nonzero retained target has an insight in the collection, which may   *)
(* have run out since: the next time step sees that it has.                *)
Backed ==
    \A s \in DOMAIN targets :
        targets[s] # 0 => \E i \in insights.active : i.symbol = s

(* What the catalog lacks is announced by a pending event.                 *)
Announced ==
    /\ pc = "top" => ~dirty
    /\ pc # "warmup" /\ ~dirty => saved = insights

(* No insight is of the future, nor of the time step that is to run.       *)
Past ==
    /\ \A i \in insights.active \cup insights.closed :
          i.generated =< now /\ (pc = "slice" => i.generated < now)
    /\ \A i \in saved.active \cup saved.closed : i.generated =< now

(* An insight with time left is not both active and closed; the closed     *)
(* ones of a replay with time left are those that were restored closed.    *)
Apart ==
    /\ pc # "warmup" => \A i \in insights.active \cap insights.closed : i.close =< now
    /\ \A i \in saved.active \cap saved.closed : i.close =< now
    /\ pc = "warmup" => \A i \in insights.closed : now < i.close => i \in saved.closed

---------------------------------------------------------------------------
(* What portfolio construction gives the execution model: one lot or none, *)
(* for symbols.                                                            *)
LEMMA UpdatesType ==
    ASSUME Typed, NEW t, NEW signals \in SUBSET Signals, NEW risky \in SUBSET Symbols
    PROVE  /\ DOMAIN Updates(t, signals, risky) \subseteq Symbols
           /\ \A s \in DOMAIN Updates(t, signals, risky) : Updates(t, signals, risky)[s] \in {0, 1}
<1>1. Wanted(t, signals) \subseteq Symbols
  BY DEF Wanted
<1>2. Gone(t, signals) \subseteq Symbols
  BY DEF Gone, Expired, Typed, TypeOK, Insights
<1>3. Flatting(signals) \subseteq Symbols
  BY DEF Flatting, Typed, TypeOK, Signals
<1> QED BY <1>1, <1>2, <1>3 DEF Updates

(* The insights of a collection keep their type as a step of the pipeline  *)
(* adds and closes some.                                                   *)
LEMMA PipelineInsights ==
    ASSUME Typed, NEW t \in Times, NEW signals \in SUBSET Signals,
           NEW risky \in SUBSET Symbols, Pipeline(t, signals, risky)
    PROVE  insights' \in [active : SUBSET Insights, closed : SUBSET Insights]
<1>1. Kept(t) \subseteq Insights /\ Expired(t) \subseteq Insights
  BY DEF Kept, Expired, Typed, TypeOK
<1>2. Flatted(t, signals) \subseteq Insights
  BY <1>1 DEF Flatted, FlatClosed
<1>3. ClosedBy(Flatted(t, signals), t) \subseteq Insights
  BY <1>2, FrameworkAssumption DEF ClosedBy, Insights, Times
<1>4. \A g \in Signals : Emission(g, t) \in Insights
  <2> TAKE g \in Signals
  <2>1. g.source \in Sources /\ g.symbol \in Symbols
    BY DEF Signals
  <2>2. t + Period[g.source] \in Int
    BY <2>1, FrameworkAssumption DEF Times
  <2> QED BY <2>1, <2>2 DEF Emission, Insights
<1>5. Added(t, signals) \subseteq Insights
  BY <1>4 DEF Added
<1>6. Active(t, signals) \subseteq Insights
  BY <1>1, <1>5 DEF Active
<1>7. Cancelled(t, signals, risky) \subseteq Insights
  BY <1>6 DEF Cancelled
<1>8. insights.closed \subseteq Insights
  BY DEF Typed, TypeOK
<1>9. insights' = [active |-> Active(t, signals) \ Cancelled(t, signals, risky),
                   closed |-> insights.closed \cup Expired(t)
                                 \cup ClosedBy(Flatted(t, signals), t)
                                 \cup Cancelled(t, signals, risky)]
  BY DEF Pipeline
<1> QED BY <1>1, <1>3, <1>6, <1>7, <1>8, <1>9

(* So do the other variables the pipeline sets.                            *)
LEMMA PipelineType ==
    ASSUME Typed, NEW t \in Times, NEW signals \in SUBSET Signals,
           NEW risky \in SUBSET Symbols, Pipeline(t, signals, risky)
    PROVE  /\ flats' \subseteq Symbols
           /\ rebalance' \in [next : Nat \cup {None}, pending : BOOLEAN, securities : BOOLEAN]
           /\ dirty' \in BOOLEAN
           /\ emitted' \in [Times -> {None} \cup SUBSET Signals]
           /\ asked' \in [Symbols -> {None, 0, 1}]
<1>1. flats' \subseteq Symbols
  BY DEF Pipeline, Flatting, Typed, TypeOK, Signals
<1>2. rebalance' \in [next : Nat \cup {None}, pending : BOOLEAN, securities : BOOLEAN]
  <2>1. NextRebalance[t] \in Nat \cup {None}
    BY FrameworkAssumption
  <2>2. NextTime(t) \in Nat \cup {None}
    BY <2>1 DEF NextTime, Typed, TypeOK
  <2>3. \/ rebalance' = rebalance
        \/ rebalance' = Rebalanced(t)
        \/ rebalance' = [rebalance EXCEPT !.next = NextTime(t)]
    BY DEF Pipeline
  <2>4. rebalance \in [next : Nat \cup {None}, pending : BOOLEAN, securities : BOOLEAN]
    BY DEF Typed, TypeOK
  <2>5. Rebalanced(t) \in [next : Nat \cup {None}, pending : BOOLEAN, securities : BOOLEAN]
    BY <2>1 DEF Rebalanced
  <2>6. [rebalance EXCEPT !.next = NextTime(t)]
            \in [next : Nat \cup {None}, pending : BOOLEAN, securities : BOOLEAN]
    BY <2>2, <2>4, Zenon
  <2> QED BY <2>3, <2>4, <2>5, <2>6
<1>3. dirty' \in BOOLEAN
  BY DEF Pipeline
<1>4. emitted' \in [Times -> {None} \cup SUBSET Signals]
  BY DEF Pipeline, Typed, TypeOK
<1>5. asked' \in [Symbols -> {None, 0, 1}]
  <2>1. asked' = [s \in Symbols |-> IF s \in DOMAIN Updates(t, signals, risky)
                                    THEN Updates(t, signals, risky)[s] ELSE asked[s]]
    BY DEF Pipeline
  <2> QED BY <2>1, UpdatesType DEF Typed, TypeOK
<1> QED BY <1>1, <1>2, <1>3, <1>4, <1>5

(* The execution model retains targets of its symbols, of a lot or none.   *)
LEMMA RetainedType ==
    ASSUME Typed, NEW updates, DOMAIN updates \subseteq Symbols,
           \A s \in DOMAIN updates : updates[s] \in {0, 1}
    PROVE  /\ DOMAIN Retained(updates) = DOMAIN targets \cup DOMAIN updates
           /\ DOMAIN Retained(updates) \subseteq Symbols
           /\ \A s \in DOMAIN Retained(updates) : Retained(updates)[s] \in {0, 1}
BY DEF Retained, Typed, TypeOK

(* And orders differences of lots.                                         *)
LEMMA ExecuteType ==
    ASSUME Typed, NEW updates, DOMAIN updates \subseteq Symbols,
           \A s \in DOMAIN updates : updates[s] \in {0, 1},
           NEW blocked, Execute(updates, blocked)
    PROVE  /\ DOMAIN targets' \subseteq Symbols
           /\ \A s \in DOMAIN targets' : targets'[s] \in {0, 1}
           /\ open' \in [Symbols -> Int]
<1> DEFINE retained == Retained(updates)
           working  == DOMAIN retained \ Fulfilled(retained)
<1>1. DOMAIN retained \subseteq Symbols /\ \A s \in DOMAIN retained : retained[s] \in {0, 1}
  BY RetainedType
<1>2. /\ targets' = [s \in working |-> retained[s]]
      /\ open' = [s \in Symbols |-> IF s \in working \ blocked THEN retained[s] - holdings[s]
                                                               ELSE open[s]]
  BY DEF Execute
<1>3. working \subseteq DOMAIN retained
  OBVIOUS
<1>4. holdings \in [Symbols -> Int] /\ open \in [Symbols -> Int]
  BY DEF Typed, TypeOK
<1> HIDE DEF retained, working
<1>5. open' \in [Symbols -> Int]
  BY <1>1, <1>2, <1>3, <1>4
<1> QED BY <1>1, <1>2, <1>3, <1>5

(* What survives a restart is an insight collection.                       *)
LEMMA MergedType ==
    ASSUME Typed
    PROVE  Merged(saved, insights) \in [active : SUBSET Insights, closed : SUBSET Insights]
BY DEF Merged, Typed, TypeOK

(* Every step keeps the types.                                             *)
LEMMA StepTyped == Typed /\ [Next]_vars => Typed'
<1> SUFFICES ASSUME Typed, [Next]_vars PROVE Typed'
  OBVIOUS
<1> USE FrameworkAssumption DEF Times
<1>1. CASE BeginStep
  BY <1>1 DEF BeginStep, Typed, TypeOK
<1>2. ASSUME NEW s \in Symbols, CancelInsights(s) PROVE Typed'
  <2> DEFINE cancelled == {i \in insights.active : i.symbol = s /\ IsActive(i, now)}
             renewed   == (insights.active \ cancelled)
                              \cup {[i EXCEPT !.close = now - 1] : i \in cancelled}
  <2>1. renewed \subseteq Insights
    <3>1. insights.active \subseteq Insights /\ now - 1 \in Int
      BY DEF Typed, TypeOK
    <3>2. \A i \in Insights : [i EXCEPT !.close = now - 1] \in Insights
      BY <3>1 DEF Insights
    <3> QED BY <3>1, <3>2
  <2>2. insights' = [insights EXCEPT !.active = renewed]
    BY <1>2 DEF CancelInsights
  <2>3. insights' \in [active : SUBSET Insights, closed : SUBSET Insights]
    <3> HIDE DEF renewed
    <3> QED BY <2>1, <2>2 DEF Typed, TypeOK
  <2>4. /\ dirty' = (dirty \/ cancelled # {})
        /\ rebalance' = [rebalance EXCEPT !.pending = @ \/ cancelled # {}]
        /\ UNCHANGED <<now, pc, flats, targets, holdings, open, saved, replay, crashes, emitted,
                       asked>>
    BY <1>2 DEF CancelInsights
  <2>5. /\ dirty' \in BOOLEAN
        /\ rebalance' \in [next : Nat \cup {None}, pending : BOOLEAN, securities : BOOLEAN]
    <3>1. rebalance \in [next : Nat \cup {None}, pending : BOOLEAN, securities : BOOLEAN]
      BY DEF Typed, TypeOK
    <3>2. (rebalance.pending \/ cancelled # {}) \in BOOLEAN
      BY <3>1
    <3> HIDE DEF cancelled
    <3>3. rebalance' \in [next : Nat \cup {None}, pending : BOOLEAN, securities : BOOLEAN]
      BY <2>4, <3>1, <3>2, Zenon
    <3> QED BY <2>4, <3>3
  <2> QED BY <2>3, <2>4, <2>5 DEF Typed, TypeOK
<1>3. CASE ChangeSecurities
  BY <1>3 DEF ChangeSecurities, Typed, TypeOK
<1>4. ASSUME NEW signals \in SomeSignals(Sources),
             NEW risky \in SUBSET {s \in Symbols : holdings[s] # 0},
             NEW blocked \in SUBSET Symbols, RunFramework(signals, risky, blocked)
      PROVE  Typed'
  <2>1. signals \in SUBSET Signals /\ risky \in SUBSET Symbols /\ now \in Times
    BY <1>4 DEF SomeSignals, RunFramework, Typed
  <2>2. /\ Pipeline(now, signals, risky)
        /\ Execute(Updates(now, signals, risky), blocked)
        /\ pc' = "emit"
        /\ UNCHANGED <<now, holdings, saved, replay, crashes>>
    BY <1>4 DEF RunFramework
  <2>3. insights' \in [active : SUBSET Insights, closed : SUBSET Insights]
    BY <2>1, <2>2, PipelineInsights
  <2>4. /\ DOMAIN targets' \subseteq Symbols
        /\ \A s \in DOMAIN targets' : targets'[s] \in {0, 1}
        /\ open' \in [Symbols -> Int]
    BY <2>1, <2>2, UpdatesType, ExecuteType
  <2> QED BY <2>1, <2>2, <2>3, <2>4, PipelineType DEF Typed, TypeOK
<1>5. CASE EmitUpdate
  BY <1>5 DEF EmitUpdate, Typed, TypeOK
<1>6. ASSUME NEW s \in Symbols, NEW filled \in BOOLEAN, Answer(s, filled) PROVE Typed'
  BY <1>6 DEF Answer, Typed, TypeOK
<1>7. CASE Crash
  <2>1. replay' \in 1..MaxTime + 1
    <3>1. now' \in 0..MaxTime
      BY <1>7 DEF Crash, Typed, TypeOK
    <3>2. replay' = IF now' < Window THEN 1 ELSE now' - Window + 1
      BY <1>7 DEF Crash
    <3>3. MaxTime \in Nat /\ Window \in Nat
      BY FrameworkAssumption
    <3>4. \A n \in 0..MaxTime : (IF n < Window THEN 1 ELSE n - Window + 1) \in 1..MaxTime + 1
      BY <3>3
    <3> QED BY <3>1, <3>2, <3>4
  <2>2. /\ now' \in 0..MaxTime /\ crashes' \in 0..MaxCrashes /\ pc' = "warmup"
        /\ insights' = saved /\ flats' = {} /\ DOMAIN targets' = {}
        /\ dirty' \in BOOLEAN
        /\ asked' = [s \in Symbols |-> None]
        /\ UNCHANGED <<holdings, open, saved, emitted>>
    BY <1>7 DEF Crash, Typed, TypeOK
  <2>3. rebalance' \in [next : Nat \cup {None}, pending : BOOLEAN, securities : BOOLEAN]
    <3>1. \A added \in BOOLEAN : [next |-> None, pending |-> FALSE, securities |-> added]
              \in [next : Nat \cup {None}, pending : BOOLEAN, securities : BOOLEAN]
      OBVIOUS
    <3>2. (saved.active # {}) \in BOOLEAN
      OBVIOUS
    <3>3. PICK added \in {FALSE, saved.active # {}} :
              rebalance' = [next |-> None, pending |-> FALSE, securities |-> added]
      BY <1>7 DEF Crash
    <3> QED BY <3>1, <3>2, <3>3
  <2> QED BY <2>1, <2>2, <2>3 DEF Typed, TypeOK
<1>8. ASSUME NEW signals \in SomeSignals(Deterministic), WarmUp(signals) PROVE Typed'
  <2>1. signals \in SUBSET Signals /\ {} \in SUBSET Symbols /\ replay \in Times
    BY <1>8 DEF SomeSignals, WarmUp, Typed, TypeOK
  <2>2. /\ Pipeline(replay, signals, {})
        /\ targets' = Retained(Updates(replay, signals, {}))
        /\ pc = "warmup" /\ replay' = replay + 1
        /\ UNCHANGED <<now, pc, holdings, open, saved, crashes>>
    BY <1>8 DEF WarmUp, Warm
  <2>3. insights' \in [active : SUBSET Insights, closed : SUBSET Insights]
    BY <2>1, <2>2, PipelineInsights
  <2>4. /\ DOMAIN targets' \subseteq Symbols
        /\ \A s \in DOMAIN targets' : targets'[s] \in {0, 1}
    BY <2>1, <2>2, UpdatesType, RetainedType
  <2>5. replay' \in 1..MaxTime + 1
    BY <2>1, <2>2
  <2> QED BY <2>1, <2>2, <2>3, <2>4, <2>5, PipelineType DEF Typed, TypeOK
<1>9. CASE FinishWarmUp
  <2>1. insights' \in [active : SUBSET Insights, closed : SUBSET Insights]
    BY <1>9, MergedType DEF FinishWarmUp
  <2>2. rebalance' \in [next : Nat \cup {None}, pending : BOOLEAN, securities : BOOLEAN]
    BY <1>9 DEF FinishWarmUp, Typed, TypeOK
  <2>3. /\ saved' = insights' /\ dirty' = FALSE /\ flats' = {} /\ pc' = "top"
        /\ asked' = [s \in Symbols |-> None]
        /\ UNCHANGED <<now, targets, holdings, open, replay, crashes, emitted>>
    BY <1>9 DEF FinishWarmUp
  <2> QED BY <2>1, <2>2, <2>3 DEF Typed, TypeOK
<1>10. CASE UNCHANGED vars
  BY <1>10 DEF vars, Typed, TypeOK
<1> QED BY <1>1, <1>2, <1>3, <1>4, <1>5, <1>6, <1>7, <1>8, <1>9, <1>10 DEF Next

---------------------------------------------------------------------------
(* Holdings and open orders come to a lot or none after every step.        *)
LEMMA StepOneLot == Typed /\ OneLot /\ [Next]_vars => OneLot'
<1> SUFFICES ASSUME Typed, OneLot, [Next]_vars, NEW z \in Symbols
             PROVE  holdings'[z] \in {0, 1} /\ holdings'[z] + open'[z] \in {0, 1}
  BY DEF OneLot
<1> DEFINE Fine == holdings'[z] \in {0, 1} /\ holdings'[z] + open'[z] \in {0, 1}
<1>0. /\ holdings \in [Symbols -> Int] /\ open \in [Symbols -> Int]
      /\ holdings[z] \in {0, 1} /\ holdings[z] + open[z] \in {0, 1}
  BY DEF Typed, TypeOK, OneLot
<1>1. CASE UNCHANGED <<holdings, open>>
  BY <1>0, <1>1
<1>2. ASSUME NEW s \in Symbols, NEW filled \in BOOLEAN, Answer(s, filled) PROVE Fine
  BY <1>0, <1>2 DEF Answer
<1>3. ASSUME NEW signals \in SomeSignals(Sources),
             NEW risky \in SUBSET {s \in Symbols : holdings[s] # 0},
             NEW blocked \in SUBSET Symbols, RunFramework(signals, risky, blocked)
      PROVE  Fine
  <2> DEFINE updates  == Updates(now, signals, risky)
             retained == Retained(updates)
             working  == DOMAIN retained \ Fulfilled(retained)
  <2>1. signals \in SUBSET Signals /\ risky \in SUBSET Symbols
    BY DEF SomeSignals
  <2>2. \A s \in DOMAIN retained : retained[s] \in {0, 1}
    BY <2>1, UpdatesType, RetainedType
  <2>3. /\ holdings' = holdings
        /\ open' = [s \in Symbols |-> IF s \in working \ blocked THEN retained[s] - holdings[s]
                                                                 ELSE open[s]]
    BY <1>3 DEF RunFramework, Execute
  <2>4. working \subseteq DOMAIN retained
    OBVIOUS
  <2> HIDE DEF working, retained
  <2>5. CASE z \in working \ blocked
    <3>1. retained[z] \in {0, 1} /\ open'[z] = retained[z] - holdings[z]
      BY <2>2, <2>3, <2>4, <2>5
    <3> QED BY <1>0, <2>3, <3>1
  <2>6. CASE z \notin working \ blocked
    BY <1>0, <2>3, <2>6
  <2> QED BY <2>5, <2>6
<1>4. CASE BeginStep \/ (\E s \in Symbols : CancelInsights(s)) \/ ChangeSecurities \/ EmitUpdate
           \/ Crash \/ (\E signals \in SomeSignals(Deterministic) : WarmUp(signals)) \/ FinishWarmUp
           \/ UNCHANGED vars
  BY <1>1, <1>4 DEF BeginStep, CancelInsights, ChangeSecurities, EmitUpdate, Crash, WarmUp, Warm,
                    FinishWarmUp, vars
<1> QED BY <1>2, <1>3, <1>4 DEF Next

---------------------------------------------------------------------------
(* A symbol whose insight no longer counts is given a target: one whose    *)
(* target stays as it was has kept its insight.                            *)
LEMMA UnaskedKeep ==
    ASSUME Typed, OnInsights, NEW t \in Times, NEW signals \in SUBSET Signals,
           NEW risky \in SUBSET Symbols, NEW i \in insights.active,
           i.symbol \notin DOMAIN Updates(t, signals, risky)
    PROVE  i \in Active(t, signals) \ Cancelled(t, signals, risky) /\ IsActive(i, t)
<1> DEFINE changes == signals # {} \/ Expired(t) # {} \/ Flatting(signals) # {}
<1>1. i.symbol \in Symbols
  BY DEF Typed, TypeOK, Insights
<1>2. changes => RebalanceDue(t, changes)
  BY DEF RebalanceDue
<1>3. Due(t, signals) =>
          DOMAIN Updates(t, signals, risky)
              = Wanted(t, signals) \cup Gone(t, signals) \cup Flatting(signals) \cup risky
  BY DEF Updates
<1>4. i \notin Expired(t)
  <2> SUFFICES ASSUME i \in Expired(t) PROVE FALSE
    OBVIOUS
  <2>1. i.symbol \in Gone(t, signals) \cup Wanted(t, signals)
    BY DEF Gone
  <2>2. ~Idle(t, signals)
    BY <2>1 DEF Idle
  <2>3. Due(t, signals)
    BY <1>2, <2>2 DEF Due
  <2> QED BY <1>3, <2>1, <2>3
<1>5. i \notin Flatted(t, signals)
  <2> SUFFICES ASSUME i \in Flatted(t, signals) PROVE FALSE
    OBVIOUS
  <2>1. PICK g \in signals : g.flat /\ g.symbol = i.symbol
    BY DEF Flatted, FlatClosed
  <2>2. i.symbol \in Flatting(signals)
    BY <2>1 DEF Flatting
  <2>3. Due(t, signals)
    BY <1>2, <2>1, <2>2 DEF Due, Idle
  <2> QED BY <1>3, <2>2, <2>3
<1>6. i \in Active(t, signals)
  BY <1>4, <1>5 DEF Active, Kept
<1>7. IsActive(i, t)
  BY <1>4 DEF Expired
<1>8. i.symbol \in Wanted(t, signals)
  BY <1>1, <1>6, <1>7 DEF Wanted, HasActive
<1>9. ~Due(t, signals)
  BY <1>3, <1>8
<1> QED BY <1>6, <1>7, <1>9 DEF Cancelled

(* A symbol that is given a lot has an insight that no risk model cancels. *)
LEMMA AskedBacked ==
    ASSUME NEW t, NEW signals, NEW risky, NEW s \in DOMAIN Updates(t, signals, risky),
           Updates(t, signals, risky)[s] # 0
    PROVE  \E i \in Active(t, signals) \ Cancelled(t, signals, risky) :
               i.symbol = s /\ IsActive(i, t)
<1>1. s \in Wanted(t, signals) \ (Flatting(signals) \cup risky)
  BY DEF Updates
<1>2. PICK i \in Active(t, signals) : i.symbol = s /\ IsActive(i, t)
  BY <1>1 DEF Wanted, HasActive
<1>3. i \notin Cancelled(t, signals, risky)
  BY <1>1, <1>2 DEF Cancelled
<1> QED BY <1>2, <1>3

(* So every nonzero target retained after a run of the pipeline has an     *)
(* insight that is active at the time of the run.                          *)
LEMMA PipelineBacks ==
    ASSUME Typed, Backed, OnInsights, NEW t \in Times, NEW signals \in SUBSET Signals,
           NEW risky \in SUBSET Symbols, Pipeline(t, signals, risky),
           NEW s \in DOMAIN Retained(Updates(t, signals, risky)),
           Retained(Updates(t, signals, risky))[s] # 0
    PROVE  HasActive(insights'.active, s, t)
<1> DEFINE updates == Updates(t, signals, risky)
<1>1. insights'.active = Active(t, signals) \ Cancelled(t, signals, risky)
  BY DEF Pipeline
<1>2. CASE s \in DOMAIN updates
  <2>1. updates[s] # 0
    BY <1>2 DEF Retained
  <2>2. \E i \in Active(t, signals) \ Cancelled(t, signals, risky) :
            i.symbol = s /\ IsActive(i, t)
    BY <1>2, <2>1, AskedBacked
  <2> QED BY <1>1, <2>2 DEF HasActive
<1>3. CASE s \notin DOMAIN updates
  <2>1. s \in DOMAIN targets /\ targets[s] # 0
    BY <1>3 DEF Retained
  <2>2. PICK i \in insights.active : i.symbol = s
    BY <2>1 DEF Backed
  <2>3. i \in Active(t, signals) \ Cancelled(t, signals, risky) /\ IsActive(i, t)
    BY <1>3, <2>2, UnaskedKeep
  <2> QED BY <1>1, <2>2, <2>3 DEF HasActive
<1> QED BY <1>2, <1>3

(* Every step keeps an insight behind each nonzero target.                 *)
LEMMA StepBacked ==
    OnInsights /\ Typed /\ Backed /\ TargetsBacked /\ [Next]_vars => Backed' /\ TargetsBacked'
<1> SUFFICES ASSUME OnInsights, Typed, Backed, TargetsBacked, [Next]_vars
             PROVE  Backed' /\ TargetsBacked'
  OBVIOUS
<1>1. CASE UNCHANGED <<insights, targets>> /\ (pc' # "emit" \/ UNCHANGED <<pc, now>>)
  BY <1>1 DEF Backed, TargetsBacked
<1>2. ASSUME NEW s \in Symbols, CancelInsights(s) PROVE Backed' /\ TargetsBacked'
  <2> DEFINE cancelled == {i \in insights.active : i.symbol = s /\ IsActive(i, now)}
             renewed   == (insights.active \ cancelled)
                              \cup {[i EXCEPT !.close = now - 1] : i \in cancelled}
  <2>1. insights'.active = renewed /\ targets' = targets /\ pc' # "emit"
    BY <1>2 DEF CancelInsights, Typed, TypeOK
  <2>2. \A i \in insights.active : \E j \in renewed : j.symbol = i.symbol
    <3> TAKE i \in insights.active
    <3>1. CASE i \in cancelled
      <4>1. [i EXCEPT !.close = now - 1] \in renewed
        BY <3>1
      <4>2. [i EXCEPT !.close = now - 1].symbol = i.symbol
        BY DEF Typed, TypeOK, Insights
      <4> QED BY <4>1, <4>2
    <3>2. CASE i \notin cancelled
      BY <3>2
    <3> QED BY <3>1, <3>2
  <2> HIDE DEF renewed
  <2> QED BY <2>1, <2>2 DEF Backed, TargetsBacked
<1>3. ASSUME NEW signals \in SomeSignals(Sources),
             NEW risky \in SUBSET {s \in Symbols : holdings[s] # 0},
             NEW blocked \in SUBSET Symbols, RunFramework(signals, risky, blocked)
      PROVE  Backed' /\ TargetsBacked'
  <2> DEFINE retained == Retained(Updates(now, signals, risky))
  <2>1. signals \in SUBSET Signals /\ risky \in SUBSET Symbols /\ now \in Times
    BY <1>3 DEF SomeSignals, RunFramework, Typed
  <2>2. /\ Pipeline(now, signals, risky) /\ now' = now
        /\ targets' = [s \in DOMAIN retained \ Fulfilled(retained) |-> retained[s]]
    BY <1>3 DEF RunFramework, Execute
  <2>3. \A s \in DOMAIN retained : retained[s] # 0 => HasActive(insights'.active, s, now)
    BY <2>1, <2>2, PipelineBacks
  <2> HIDE DEF retained
  <2>4. \A s \in DOMAIN targets' : targets'[s] # 0 => HasActive(insights'.active, s, now)
    BY <2>2, <2>3
  <2> QED BY <2>2, <2>4 DEF Backed, TargetsBacked, HasActive
<1>4. ASSUME NEW signals \in SomeSignals(Deterministic), WarmUp(signals)
      PROVE  Backed' /\ TargetsBacked'
  <2> DEFINE retained == Retained(Updates(replay, signals, {}))
  <2>1. signals \in SUBSET Signals /\ {} \in SUBSET Symbols /\ replay \in Times
    BY <1>4, FrameworkAssumption DEF SomeSignals, WarmUp, Typed, TypeOK, Times
  <2>2. Pipeline(replay, signals, {}) /\ targets' = retained /\ pc' # "emit"
    BY <1>4 DEF WarmUp, Warm
  <2>3. \A s \in DOMAIN retained : retained[s] # 0 => HasActive(insights'.active, s, replay)
    BY <2>1, <2>2, PipelineBacks
  <2> HIDE DEF retained
  <2> QED BY <2>2, <2>3 DEF Backed, TargetsBacked, HasActive
<1>5. CASE Crash
  BY <1>5 DEF Crash, Backed, TargetsBacked
<1>6. CASE FinishWarmUp
  <2>1. insights.active \subseteq insights'.active
    BY <1>6 DEF FinishWarmUp, Merged
  <2>2. targets' = targets /\ pc' # "emit"
    BY <1>6 DEF FinishWarmUp
  <2> QED BY <2>1, <2>2 DEF Backed, TargetsBacked
<1>7. CASE BeginStep \/ ChangeSecurities \/ EmitUpdate \/ UNCHANGED vars
           \/ (\E s \in Symbols, filled \in BOOLEAN : Answer(s, filled))
  BY <1>1, <1>7 DEF BeginStep, ChangeSecurities, EmitUpdate, Answer, vars
<1> QED BY <1>2, <1>3, <1>4, <1>5, <1>6, <1>7 DEF Next

---------------------------------------------------------------------------
(* A run of the pipeline that leaves no event pending leaves the insights  *)
(* as they were.                                                           *)
LEMMA QuietPipeline ==
    ASSUME Typed, NEW t, NEW signals, NEW risky, Pipeline(t, signals, risky), ~dirty'
    PROVE  ~dirty /\ insights' = insights
<1>1. /\ ~dirty
      /\ Expired(t) = {} /\ Flatted(t, signals) = {} /\ Added(t, signals) = {}
      /\ Cancelled(t, signals, risky) = {}
  BY DEF Pipeline
<1>2. ClosedBy(Flatted(t, signals), t) = {}
  BY <1>1 DEF ClosedBy
<1>3. Active(t, signals) = insights.active
  BY <1>1 DEF Active, Kept
<1>4. insights' = [active |-> Active(t, signals) \ Cancelled(t, signals, risky),
                   closed |-> insights.closed \cup Expired(t)
                                 \cup ClosedBy(Flatted(t, signals), t)
                                 \cup Cancelled(t, signals, risky)]
  BY DEF Pipeline
<1>5. insights' = [active |-> insights.active, closed |-> insights.closed]
  BY <1>1, <1>2, <1>3, <1>4
<1>6. insights \in [active : SUBSET Insights, closed : SUBSET Insights]
  BY DEF Typed, TypeOK
<1> QED BY <1>1, <1>5, <1>6

(* Every step keeps the catalog in step with the insights, or an event     *)
(* pending.                                                                *)
LEMMA StepAnnounced == Typed /\ Announced /\ [Next]_vars => Announced'
<1> SUFFICES ASSUME Typed, Announced, [Next]_vars PROVE Announced'
  OBVIOUS
<1>1. CASE BeginStep \/ ChangeSecurities \/ Crash \/ FinishWarmUp \/ UNCHANGED vars
           \/ (\E s \in Symbols, filled \in BOOLEAN : Answer(s, filled))
  BY <1>1 DEF BeginStep, ChangeSecurities, Crash, FinishWarmUp, Answer, vars, Announced
<1>2. ASSUME NEW s \in Symbols, CancelInsights(s) PROVE Announced'
  <2> DEFINE cancelled == {i \in insights.active : i.symbol = s /\ IsActive(i, now)}
             renewed   == (insights.active \ cancelled)
                              \cup {[i EXCEPT !.close = now - 1] : i \in cancelled}
  <2>1. /\ insights' = [insights EXCEPT !.active = renewed]
        /\ dirty' = (dirty \/ cancelled # {})
        /\ pc' = pc /\ pc # "top" /\ pc # "warmup" /\ saved' = saved
    BY <1>2 DEF CancelInsights
  <2>2. ~dirty' => ~dirty /\ renewed = insights.active
    BY <2>1
  <2>3. insights \in [active : SUBSET Insights, closed : SUBSET Insights]
    BY DEF Typed, TypeOK
  <2> HIDE DEF renewed, cancelled
  <2>4. renewed = insights.active => insights' = insights
    BY <2>1, <2>3
  <2> QED BY <2>1, <2>2, <2>4 DEF Announced
<1>3. ASSUME NEW signals \in SomeSignals(Sources),
             NEW risky \in SUBSET {s \in Symbols : holdings[s] # 0},
             NEW blocked \in SUBSET Symbols, RunFramework(signals, risky, blocked)
      PROVE  Announced'
  <2>1. Pipeline(now, signals, risky) /\ pc = "slice" /\ pc' = "emit" /\ saved' = saved
    BY <1>3 DEF RunFramework
  <2>2. ~dirty' => ~dirty /\ insights' = insights
    BY <2>1, QuietPipeline
  <2> QED BY <2>1, <2>2 DEF Announced
<1>4. CASE EmitUpdate
  BY <1>4 DEF EmitUpdate, Announced
<1>5. ASSUME NEW signals \in SomeSignals(Deterministic), WarmUp(signals) PROVE Announced'
  BY <1>5 DEF WarmUp, Announced
<1> QED BY <1>1, <1>2, <1>3, <1>4, <1>5 DEF Next

---------------------------------------------------------------------------
(* Where the insights of a collection come from as the pipeline runs.      *)
LEMMA PipelineOrigins ==
    ASSUME Typed, NEW t \in Times, NEW signals \in SUBSET Signals,
           NEW risky \in SUBSET Symbols, Pipeline(t, signals, risky)
    PROVE  /\ \A i \in insights'.active : i \in insights.active \/ i.generated = t
           /\ \A i \in insights'.closed : \/ i \in insights.closed
                                          \/ i.close =< t
                                          \/ i \notin insights'.active /\ risky # {}
           /\ \A i \in insights'.active \cup insights'.closed :
                 \/ i.generated = t
                 \/ \E j \in insights.active \cup insights.closed : i.generated = j.generated
<1> DEFINE cancelled == Cancelled(t, signals, risky)
           flatted   == Flatted(t, signals)
<1>1. insights'.active = Active(t, signals) \ cancelled
  BY DEF Pipeline
<1>2. insights'.closed = insights.closed \cup Expired(t) \cup ClosedBy(flatted, t) \cup cancelled
  BY DEF Pipeline
<1>3. \A i \in Active(t, signals) : i \in insights.active \/ i.generated = t
  BY DEF Active, Kept, Added, Emission
<1>4. Expired(t) \subseteq insights.active /\ \A i \in Expired(t) : i.close =< t
  BY DEF Expired, IsActive, Typed, TypeOK, Insights, Times
<1>5. flatted \subseteq insights.active /\ insights.active \subseteq Insights
  BY DEF Flatted, FlatClosed, Kept, Typed, TypeOK
<1>6. \A i \in ClosedBy(flatted, t) :
          i.close =< t /\ \E j \in insights.active : i.generated = j.generated
  <2> TAKE i \in ClosedBy(flatted, t)
  <2>1. PICK j \in flatted : i = [j EXCEPT !.close = IF t < @ THEN t ELSE @]
    BY DEF ClosedBy
  <2>2. j \in insights.active /\ j.close \in Int /\ t \in Int
    BY <1>5, <2>1 DEF Insights, Times
  <2>3. i.generated = j.generated /\ i.close = IF t < j.close THEN t ELSE j.close
    BY <1>5, <2>1 DEF Insights
  <2> QED BY <2>2, <2>3
<1>7. cancelled \subseteq Active(t, signals) /\ (risky = {} => cancelled = {})
  BY DEF Cancelled
<1> HIDE DEF cancelled, flatted
<1>8. \A i \in insights'.closed : \/ i \in insights.closed
                                  \/ i.close =< t
                                  \/ i \notin insights'.active /\ risky # {}
  BY <1>1, <1>2, <1>4, <1>6, <1>7
<1>9. \A i \in insights'.active \cup insights'.closed :
          \/ i.generated = t
          \/ \E j \in insights.active \cup insights.closed : i.generated = j.generated
  BY <1>1, <1>2, <1>3, <1>4, <1>6, <1>7
<1> QED BY <1>1, <1>3, <1>8, <1>9

(* A cancelled insight is of the same time, and has run out.               *)
LEMMA CancelOrigins ==
    ASSUME Typed, NEW s \in Symbols, CancelInsights(s)
    PROVE  /\ insights'.closed = insights.closed
           /\ \A i \in insights'.active :
                 \/ i \in insights.active
                 \/ i.close =< now /\ \E j \in insights.active : i.generated = j.generated
<1> DEFINE cancelled == {i \in insights.active : i.symbol = s /\ IsActive(i, now)}
           renewed   == (insights.active \ cancelled)
                            \cup {[i EXCEPT !.close = now - 1] : i \in cancelled}
<1>1. insights' = [insights EXCEPT !.active = renewed]
  BY DEF CancelInsights
<1>2. insights \in [active : SUBSET Insights, closed : SUBSET Insights] /\ now \in Int
  BY DEF Typed, TypeOK
<1>3. insights'.active = renewed /\ insights'.closed = insights.closed
  <2> HIDE DEF renewed
  <2> QED BY <1>1, <1>2
<1>4. \A j \in insights.active :
          /\ [j EXCEPT !.close = now - 1].close =< now
          /\ [j EXCEPT !.close = now - 1].generated = j.generated
  BY <1>2 DEF Insights
<1> QED BY <1>3, <1>4

(* No step takes an insight from the future.                               *)
LEMMA StepPast == Typed /\ Past /\ [Next]_vars => Past'
<1> SUFFICES ASSUME Typed, Past, [Next]_vars PROVE Past'
  OBVIOUS
<1>0. now \in Int /\ \A i \in insights.active \cup insights.closed \cup saved.active \cup saved.closed :
          i.generated \in Int
  BY DEF Typed, TypeOK, Insights, Times
<1>1. CASE BeginStep \/ ChangeSecurities \/ EmitUpdate \/ UNCHANGED vars
           \/ (\E s \in Symbols, filled \in BOOLEAN : Answer(s, filled))
  BY <1>0, <1>1 DEF BeginStep, ChangeSecurities, EmitUpdate, Answer, vars, Past
<1>2. ASSUME NEW s \in Symbols, CancelInsights(s) PROVE Past'
  <2>1. pc' = pc /\ now' = now /\ saved' = saved
    BY <1>2 DEF CancelInsights
  <2> QED BY <1>2, <2>1, CancelOrigins DEF Past
<1>3. ASSUME NEW signals \in SomeSignals(Sources),
             NEW risky \in SUBSET {s \in Symbols : holdings[s] # 0},
             NEW blocked \in SUBSET Symbols, RunFramework(signals, risky, blocked)
      PROVE  Past'
  <2>1. signals \in SUBSET Signals /\ risky \in SUBSET Symbols /\ now \in Times
    BY <1>3 DEF SomeSignals, RunFramework, Typed
  <2>2. Pipeline(now, signals, risky) /\ pc' = "emit" /\ UNCHANGED <<now, saved>>
    BY <1>3 DEF RunFramework
  <2> QED BY <1>0, <2>1, <2>2, PipelineOrigins DEF Past
<1>4. CASE Crash
  <2>1. now' >= now /\ now' \in Int
    BY <1>0, <1>4 DEF Crash
  <2> QED BY <1>0, <1>4, <2>1 DEF Crash, Past
<1>5. ASSUME NEW signals \in SomeSignals(Deterministic), WarmUp(signals) PROVE Past'
  <2>1. signals \in SUBSET Signals /\ {} \in SUBSET Symbols /\ replay \in Times /\ replay =< now
    BY <1>5, FrameworkAssumption DEF SomeSignals, WarmUp, Typed, TypeOK, Times
  <2>2. Pipeline(replay, signals, {}) /\ pc' = "warmup" /\ UNCHANGED <<now, saved>>
    BY <1>5 DEF WarmUp
  <2> QED BY <1>0, <2>1, <2>2, PipelineOrigins DEF Past
<1>6. CASE FinishWarmUp
  <2>1. insights'.active \cup insights'.closed
            \subseteq insights.active \cup insights.closed \cup saved.active \cup saved.closed
    BY <1>6 DEF FinishWarmUp, Merged
  <2>2. saved' = insights' /\ now' = now /\ pc' = "top"
    BY <1>6 DEF FinishWarmUp
  <2> QED BY <2>1, <2>2 DEF Past
<1> QED BY <1>1, <1>2, <1>3, <1>4, <1>5, <1>6 DEF Next

---------------------------------------------------------------------------
(* What a restart makes of the restored and the replayed insights is apart.*)
LEMMA MergedApart ==
    ASSUME Typed, NEW i \in Merged(saved, insights).active \cap Merged(saved, insights).closed
    PROVE  i.close =< now
<1> DEFINE only == (saved.active \cup saved.closed) \ (insights.active \cup insights.closed)
<1>1. /\ i \in insights.active \/ i \in only
      /\ \/ i \in insights.closed \ insights.active
         \/ i \in only /\ ~IsActive(i, now)
  BY DEF Merged
<1>2. i \in only /\ ~IsActive(i, now)
  BY <1>1
<1>3. i.close \in Int /\ now \in Int
  BY <1>2 DEF Typed, TypeOK, Insights
<1> QED BY <1>2, <1>3 DEF IsActive

(* No step makes an insight with time left both active and closed.         *)
LEMMA StepApart == Typed /\ Past /\ Apart /\ [Next]_vars => Apart'
<1> SUFFICES ASSUME Typed, Past, Apart, [Next]_vars PROVE Apart'
  OBVIOUS
<1>0. now \in Int /\ \A i \in insights.active \cup insights.closed \cup saved.active \cup saved.closed :
          i.close \in Int /\ i.generated \in Int
  BY DEF Typed, TypeOK, Insights, Times
<1>1. CASE BeginStep \/ ChangeSecurities \/ EmitUpdate \/ UNCHANGED vars
           \/ (\E s \in Symbols, filled \in BOOLEAN : Answer(s, filled))
  BY <1>0, <1>1 DEF BeginStep, ChangeSecurities, EmitUpdate, Answer, vars, Apart
<1>2. ASSUME NEW s \in Symbols, CancelInsights(s) PROVE Apart'
  <2>1. pc' = pc /\ pc # "warmup" /\ now' = now /\ saved' = saved
    BY <1>2 DEF CancelInsights
  <2> QED BY <1>2, <2>1, CancelOrigins DEF Apart
<1>3. ASSUME NEW signals \in SomeSignals(Sources),
             NEW risky \in SUBSET {s \in Symbols : holdings[s] # 0},
             NEW blocked \in SUBSET Symbols, RunFramework(signals, risky, blocked)
      PROVE  Apart'
  <2>1. signals \in SUBSET Signals /\ risky \in SUBSET Symbols /\ now \in Times
    BY <1>3 DEF SomeSignals, RunFramework, Typed
  <2>2. /\ Pipeline(now, signals, risky) /\ pc = "slice" /\ pc' = "emit"
        /\ UNCHANGED <<now, saved>>
    BY <1>3 DEF RunFramework
  <2>3. \A i \in insights'.active \cap insights'.closed : i.close =< now
    <3> TAKE i \in insights'.active \cap insights'.closed
    <3>1. CASE i \notin insights.closed
      BY <2>1, <2>2, <3>1, PipelineOrigins
    <3>2. CASE i \in insights.closed
      <4>1. i.generated # now
        BY <1>0, <2>2, <3>2 DEF Past
      <4>2. i \in insights.active
        BY <2>1, <2>2, <4>1, PipelineOrigins
      <4> QED BY <2>2, <3>2, <4>2 DEF Apart
    <3> QED BY <3>1, <3>2
  <2> QED BY <2>2, <2>3 DEF Apart
<1>4. CASE Crash
  <2>1. now' >= now /\ now' \in Int
    BY <1>0, <1>4 DEF Crash
  <2>2. pc' = "warmup" /\ insights' = saved /\ saved' = saved
    BY <1>4 DEF Crash
  <2> QED BY <1>0, <2>1, <2>2 DEF Apart
<1>5. ASSUME NEW signals \in SomeSignals(Deterministic), WarmUp(signals) PROVE Apart'
  <2>1. signals \in SUBSET Signals /\ {} \in SUBSET Symbols /\ replay \in Times /\ replay =< now
    BY <1>5, FrameworkAssumption DEF SomeSignals, WarmUp, Typed, TypeOK, Times
  <2>2. Pipeline(replay, signals, {}) /\ pc = "warmup" /\ pc' = "warmup" /\ UNCHANGED <<now, saved>>
    BY <1>5 DEF WarmUp
  <2>3. insights' \in [active : SUBSET Insights, closed : SUBSET Insights]
    BY <2>1, <2>2, PipelineInsights
  <2>4. \A i \in insights'.closed : i.close \in Int /\ (i \in insights.closed \/ i.close =< replay)
    BY <2>1, <2>2, <2>3, PipelineOrigins DEF Insights
  <2>5. \A i \in insights'.closed : now < i.close => i \in saved.closed
    BY <1>0, <2>1, <2>2, <2>4 DEF Apart, Times
  <2> QED BY <2>2, <2>5 DEF Apart
<1>6. CASE FinishWarmUp
  <2>1. insights' = Merged(saved, insights) /\ saved' = insights' /\ now' = now /\ pc' = "top"
    BY <1>6 DEF FinishWarmUp
  <2> QED BY <2>1, MergedApart DEF Apart
<1> QED BY <1>1, <1>2, <1>3, <1>4, <1>5, <1>6 DEF Next

(* A restart keeps what the catalog has with time left: a replay closes    *)
(* nothing that has.                                                       *)
LEMMA FinishKeeps ==
    ASSUME Typed, Apart, FinishWarmUp, NEW i \in saved.active, now < i.close
    PROVE  i \in insights'.active
<1>1. i.close \in Int /\ now \in Int
  BY DEF Typed, TypeOK, Insights
<1>2. i \notin saved.closed
  BY <1>1 DEF Apart
<1>3. i \notin insights.closed
  BY <1>2 DEF Apart, FinishWarmUp
<1>4. IsActive(i, now)
  BY <1>1 DEF IsActive
<1> QED BY <1>3, <1>4 DEF FinishWarmUp, Merged

(* No other step ends a replay.                                            *)
LEMMA StepRestores ==
    ASSUME Typed, Apart, [Next]_vars, pc = "warmup", pc' = "top",
           NEW i \in saved.active, now < i.close
    PROVE  i \in insights'.active
<1>1. CASE FinishWarmUp
  BY <1>1, FinishKeeps
<1>2. CASE ~FinishWarmUp
  BY <1>2 DEF Next, BeginStep, CancelInsights, ChangeSecurities, RunFramework, EmitUpdate, Answer,
              Crash, WarmUp, vars
<1> QED BY <1>1, <1>2

---------------------------------------------------------------------------
(* What every reachable state satisfies, whatever makes a rebalance due.   *)
Sound == Typed /\ OneLot /\ Announced /\ Past /\ Apart

(* It holds at the start of a run, and no step breaks it.                  *)
LEMMA StartsSound == Init => Sound
<1> SUFFICES ASSUME Init PROVE Sound
  OBVIOUS
<1>1. Typed
  <2>1. /\ rebalance = [next |-> None, pending |-> FALSE, securities |-> FALSE]
        /\ insights = [active |-> {}, closed |-> {}] /\ saved = insights
    BY DEF Init
  <2>2. /\ rebalance \in [next : Nat \cup {None}, pending : BOOLEAN, securities : BOOLEAN]
        /\ {insights, saved} \subseteq [active : SUBSET Insights, closed : SUBSET Insights]
    BY <2>1
  <2>3. holdings \in [Symbols -> Int] /\ open \in [Symbols -> Int]
    BY DEF Init
  <2>4. /\ now \in 0..MaxTime /\ pc = "top" /\ dirty \in BOOLEAN /\ flats = {}
        /\ replay \in 1..MaxTime + 1 /\ crashes \in 0..MaxCrashes
        /\ DOMAIN targets = {}
    <3>1. MaxTime \in Nat /\ MaxCrashes \in Nat
      BY FrameworkAssumption
    <3>2. /\ now = 0 /\ pc = "top" /\ dirty = FALSE /\ flats = {} /\ replay = 1 /\ crashes = 0
          /\ targets = [s \in {} |-> 0]
      BY DEF Init
    <3>3. 0 \in 0..MaxTime /\ 0 \in 0..MaxCrashes /\ 1 \in 1..MaxTime + 1
      BY <3>1
    <3>4. DOMAIN targets = {}
      BY <3>2
    <3> QED BY <3>2, <3>3, <3>4
  <2>5. /\ emitted \in [Times -> {None} \cup SUBSET Signals]
        /\ asked \in [Symbols -> {None, 0, 1}]
    BY DEF Init
  <2> QED BY <2>2, <2>3, <2>4, <2>5 DEF Typed, TypeOK
<1> QED BY <1>1 DEF Init, Sound, OneLot, Announced, Past, Apart

LEMMA StaysSound == Sound /\ [Next]_vars => Sound'
BY StepTyped, StepOneLot, StepAnnounced, StepPast, StepApart DEF Sound

(* The holdings and the open orders are typed, a target is one lot or none *)
(* and insights, replays and signals stay within their types.              *)
THEOREM FrameworkTyped == Spec => []TypeOK
<1>1. Sound => TypeOK
  BY DEF Sound, Typed
<1> QED BY <1>1, StartsSound, StaysSound, PTL DEF Spec

(* Holdings and open orders together are never more than the one lot that  *)
(* any target asks for, nor less than none.                                *)
THEOREM LotsNeverOvershoot == Spec => []NeverOvershoots
<1>1. Sound => NeverOvershoots
  BY DEF Sound, OneLot, NeverOvershoots
<1> QED BY <1>1, StartsSound, StaysSound, PTL DEF Spec

(* At the top of the live loop the catalog has the insights of the run.    *)
THEOREM CatalogHasInsights == Spec => []SavedIsCurrent
<1>1. Sound => SavedIsCurrent
  BY DEF Sound, Announced, SavedIsCurrent
<1> QED BY <1>1, StartsSound, StaysSound, PTL DEF Spec

(* A restart keeps every insight of the catalog that has time left.        *)
THEOREM RestartsKeepInsights == Spec => RestoredSurvive
<1>1. Sound /\ [Next]_vars =>
          [pc = "warmup" /\ pc' = "top" =>
              \A i \in saved.active : now < i.close => i \in insights'.active]_vars
  BY StepRestores DEF Sound
<1> QED BY <1>1, StartsSound, StaysSound, PTL DEF Spec, RestoredSurvive

(* When changes of insights make a rebalance due, a nonzero target that is *)
(* retained after a time step is of a symbol with an active insight.       *)
THEOREM TargetsHaveInsights == OnInsights => (Spec => []TargetsBacked)
<1> SUFFICES ASSUME OnInsights PROVE Spec => []TargetsBacked
  OBVIOUS
<1>1. Init => Sound /\ Backed /\ TargetsBacked
  BY StartsSound DEF Init, Backed, TargetsBacked
<1>2. Sound /\ Backed /\ TargetsBacked /\ [Next]_vars => Sound' /\ Backed' /\ TargetsBacked'
  BY StaysSound, StepBacked DEF Sound
<1> QED BY <1>1, <1>2, PTL DEF Spec

=============================================================================
