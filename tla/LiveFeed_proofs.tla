--------------------------- MODULE LiveFeed_proofs ---------------------------
(***************************************************************************)
(* Proofs about the live loop and the data that reaches it.                *)
(***************************************************************************)
EXTENDS LiveFeed, WellFoundedInduction, TLAPS

---------------------------------------------------------------------------
(* Numbers.                                                                *)

(* Division rounds down.                                                   *)
LEMMA DivBounds ==
    ASSUME NEW a \in Int, NEW b \in Nat \ {0}
    PROVE  /\ a \div b \in Int /\ (a \div b) * b \in Int
           /\ (a \div b) * b =< a
           /\ a < (a \div b) * b + b
OBVIOUS

(* A product with a positive number keeps the order, and shows it.         *)
LEMMA ProductGrows ==
    ASSUME NEW m \in Int, NEW n \in Int, NEW b \in Nat \ {0}
    PROVE  /\ m * b \in Int
           /\ m < n => m * b + b =< n * b
           /\ m * b < n * b => m < n
OBVIOUS

(* A natural number, rounded down to a multiple.                           *)
LEMMA RoundedDown ==
    ASSUME NEW a \in Nat, NEW b \in Nat \ {0}
    PROVE  (a \div b) * b \in Nat
<1>1. a < (a \div b) * b + b /\ a \div b \in Int
  BY DivBounds
<1>2. a \div b >= 0
  <2>1. SUFFICES ASSUME a \div b < 0 PROVE FALSE
    BY <1>1
  <2>2. (a \div b) * b + b =< 0 * b
    BY <1>1, <2>1, ProductGrows
  <2> QED BY <1>1, <2>2, DivBounds
<1> QED BY <1>1, <1>2

(* Of things whose measure is bounded there is one with the greatest.      *)
LEMMA GreatestExists ==
    ASSUME NEW bound \in Nat, NEW S, NEW measure, S # {},
           \A x \in S : measure[x] \in 0..bound
    PROVE  \E x \in S : \A y \in S : measure[y] =< measure[x]
<1> DEFINE gaps == {bound - measure[x] : x \in S}
<1>1. gaps \subseteq Nat /\ gaps # {}
  OBVIOUS
<1>2. IsWellFoundedOn(OpToRel(<, Nat), Nat)
  BY NatLessThanWellFounded
<1>3. PICK least \in gaps : \A y \in gaps : ~(<<y, least>> \in OpToRel(<, Nat))
  <2> HIDE DEF gaps
  <2> QED BY <1>1, <1>2, WFMin
<1>4. PICK x \in S : least = bound - measure[x]
  OBVIOUS
<1>5. ASSUME NEW y \in S PROVE measure[y] =< measure[x]
  <2>1. bound - measure[y] \in gaps
    OBVIOUS
  <2>2. ~(bound - measure[y] < least)
    BY <1>1, <1>3, <2>1 DEF OpToRel
  <2> QED BY <1>4, <2>2
<1> QED BY <1>5

---------------------------------------------------------------------------
(* What the constants are.                                                 *)
LEMMA Constants ==
    /\ SubOf \in [Items -> Subs] /\ \A i \in Items : EndOf[i] \in 0..MaxTime
    /\ StreamLost \notin Items
    /\ Initial \subseteq Subs /\ \A w \in Wishes : w \subseteq Subs
    /\ Period \in [Subs -> Nat \ {0}]
    /\ SecondTicks \in Nat \ {0} /\ MaxSetBacks \in Nat /\ MaxTime \in Nat /\ DayTicks \in Nat \ {0}
    /\ Primed \subseteq Events /\ FillForward \subseteq Subs
BY FeedAssumption, TimeAssumption

(* The types, in words the provers can use.                                *)
LEMMA Types ==
    ASSUME TypeOK
    PROVE  /\ wall.now \in 0..MaxTime /\ wall.setBacks \in 0..MaxSetBacks
           /\ asm = [pending |-> asm.pending, frontier |-> asm.frontier, fills |-> asm.fills,
                     memory |-> asm.memory]
           /\ asm.pending \subseteq Items /\ asm.frontier \in Nat
           /\ asm.fills \subseteq FillForward /\ asm.memory \in [Subs -> Int]
           /\ Second \in Nat /\ Frontier \in Nat
           /\ Frontier >= asm.frontier /\ Frontier >= wall.now
<1>1. /\ wall.now \in 0..MaxTime /\ wall.setBacks \in 0..MaxSetBacks
      /\ asm \in [pending : SUBSET Items, frontier : Nat, fills : SUBSET FillForward,
                  memory : [Subs -> Int]]
  BY DEF TypeOK
<1>2. Second \in Nat
  <2>1. wall.now \in Nat /\ SecondTicks \in Nat \ {0}
    BY <1>1, Constants
  <2> QED BY <2>1, RoundedDown DEF Second
<1>3. Frontier \in Nat /\ Frontier >= asm.frontier /\ Frontier >= wall.now
  BY <1>1, Constants DEF Frontier, LaterOf
<1> QED BY <1>1, <1>2, <1>3

(* What the assembler does to its subscriptions in every iteration.        *)
LEMMA AssemblerTypes ==
    ASSUME TypeOK
    PROVE  /\ Assembler = [asm EXCEPT !.fills = Assembler.fills, !.memory = Assembler.memory]
           /\ Assembler.fills \subseteq FillForward
           /\ Assembler.memory \in [Subs -> Int]
           /\ \A s \in Subs : Assembler.memory[s] \in {asm.memory[s], None}
<1>1. ASSUME pc = "poll"
      PROVE  /\ Assembler.fills = Fills
             /\ Assembler.memory = [s \in Subs |-> IF s \in Fills THEN asm.memory[s] ELSE None]
             /\ Assembler = [asm EXCEPT !.fills = Assembler.fills, !.memory = Assembler.memory]
  BY <1>1, Types DEF Assembler, SetSubscriptions
<1>2. ASSUME pc # "poll"
      PROVE  Assembler = asm
  BY <1>2 DEF Assembler
<1>3. CASE pc = "poll"
  <2>1. Assembler.fills \subseteq FillForward
    BY <1>1, <1>3 DEF Fills
  <2>2. Assembler.memory \in [Subs -> Int]
    BY <1>1, <1>3, Types DEF None
  <2> QED BY <1>1, <1>3, <2>1, <2>2
<1>4. CASE pc # "poll"
  BY <1>2, <1>4, Types
<1> QED BY <1>3, <1>4

(* A due item that ends last exists, and is the one CHOOSE means.          *)
LEMMA LatestIsDue ==
    ASSUME TypeOK, NEW s \in Subs, DueOf(s) # {},
           NEW latest, latest = CHOOSE i \in DueOf(s) : \A j \in DueOf(s) : EndOf[j] =< EndOf[i]
    PROVE  latest \in DueOf(s) /\ \A j \in DueOf(s) : EndOf[j] =< EndOf[latest]
<1>1. DueOf(s) \subseteq Items
  BY Types DEF DueOf, Due
<1>2. MaxTime \in Nat /\ \A i \in DueOf(s) : EndOf[i] \in 0..MaxTime
  BY <1>1, Constants
<1>3. \E i \in DueOf(s) : \A j \in DueOf(s) : EndOf[j] =< EndOf[i]
  BY <1>2, GreatestExists
<1> QED BY <1>3

(* The memory of a subscription: the latest of the due bars and the bar    *)
(* remembered, or nothing.                                                 *)
LEMMA RememberedIs ==
    ASSUME TypeOK, NEW s \in Subs
    PROVE  /\ Remembered(s) \in Int
           /\ \/ Remembered(s) = Assembler.memory[s]
              \/ \E i \in DueOf(s) : Remembered(s) = EndOf[i]
           /\ Remembered(s) >= Assembler.memory[s]
           /\ s \in Assembler.fills => \A i \in DueOf(s) : EndOf[i] =< Remembered(s)
<1>1. Assembler.memory[s] \in Int
  BY AssemblerTypes
<1>2. CASE s \in Assembler.fills /\ DueOf(s) # {}
  <2>1. PICK latest : latest = CHOOSE i \in DueOf(s) : \A j \in DueOf(s) : EndOf[j] =< EndOf[i]
    OBVIOUS
  <2>2. latest \in DueOf(s) /\ \A j \in DueOf(s) : EndOf[j] =< EndOf[latest]
    BY <1>2, <2>1, LatestIsDue
  <2>3. \A j \in DueOf(s) : EndOf[j] \in Int
    BY Types, Constants DEF DueOf, Due
  <2>4. Remembered(s) = LaterOf(EndOf[latest], Assembler.memory[s])
    BY <1>2, <2>1 DEF Remembered
  <2>5. /\ Remembered(s) \in Int /\ Remembered(s) >= Assembler.memory[s]
        /\ Remembered(s) >= EndOf[latest]
        /\ Remembered(s) \in {EndOf[latest], Assembler.memory[s]}
    BY <1>1, <2>2, <2>3, <2>4 DEF LaterOf
  <2>6. \A i \in DueOf(s) : EndOf[i] =< Remembered(s)
    BY <2>2, <2>3, <2>5
  <2> QED BY <2>2, <2>5, <2>6
<1>3. CASE ~(s \in Assembler.fills /\ DueOf(s) # {})
  <2>1. Remembered(s) = Assembler.memory[s]
    BY <1>3 DEF Remembered
  <2> QED BY <1>1, <1>3, <2>1
<1> QED BY <1>2, <1>3

(* The manager stays one, and what a scan leaves.                          *)
LEMMA ScheduleStays ==
    ASSUME NEW s, IsSchedule(s), NEW time \in Int
    PROVE  IsSchedule(Scanned(s, time)) /\ IsSchedule(SkipUntil(s, time))
BY DEF IsSchedule, Scanned, SkipUntil

(* Some slice is made or not, and the assembler moves on.                  *)
LEMMA AdvanceTypes ==
    ASSUME TypeOK, NEW next, NEW idle, Advance(next, idle)
    PROVE  /\ asm' \in [pending : SUBSET Items, frontier : Nat, fills : SUBSET FillForward,
                        memory : [Subs -> Int]]
           /\ asm'.pending = Future /\ asm'.frontier = Frontier
           /\ asm'.fills = Assembler.fills
           /\ \A s \in Subs : asm'.memory[s] = Remembered(s)
           /\ wanted' \subseteq Subs /\ clock' \in Nat
           /\ DOMAIN delivered' = DOMAIN delivered \cup Due
           /\ DOMAIN delivered' \subseteq Items
           /\ delivered' \in [DOMAIN delivered' -> Nat]
           /\ \A i \in DOMAIN delivered' :
                 delivered'[i] = IF i \in Due THEN Frontier ELSE delivered[i]
           /\ pc' \in {next, idle}
<1>1. \A s \in Subs : Remembered(s) \in Int
  BY RememberedIs
<1>2. asm' = [Assembler EXCEPT !.frontier = Frontier, !.pending = Future,
                               !.memory = [s \in Subs |-> Remembered(s)]]
  BY DEF Advance
<1>3. /\ asm'.pending = Future /\ asm'.frontier = Frontier /\ asm'.fills = Assembler.fills
      /\ asm'.memory = [s \in Subs |-> Remembered(s)]
      /\ asm' = [pending |-> asm'.pending, frontier |-> asm'.frontier, fills |-> asm'.fills,
                 memory |-> asm'.memory]
  BY <1>2, AssemblerTypes, Types
<1>4. Future \subseteq Items /\ Frontier \in Nat /\ Due \subseteq Items
  BY Types DEF Future, Due
<1>5. asm' \in [pending : SUBSET Items, frontier : Nat, fills : SUBSET FillForward,
                memory : [Subs -> Int]]
  BY <1>1, <1>3, <1>4, AssemblerTypes
<1>6. wanted' \subseteq Subs /\ clock' \in Nat
  BY <1>4, Constants DEF Advance, TypeOK
<1>7. /\ DOMAIN delivered' = DOMAIN delivered \cup Due
      /\ \A i \in DOMAIN delivered' :
            delivered'[i] = IF i \in Due THEN Frontier ELSE delivered[i]
  BY DEF Advance
<1>8. delivered' = [i \in DOMAIN delivered' |-> delivered'[i]]
  <2>1. delivered = [i \in DOMAIN delivered |-> delivered[i]]
    BY DEF TypeOK
  <2>2. CASE Due = {}
    BY <2>1, <2>2 DEF Advance
  <2>3. CASE Due # {}
    BY <2>3 DEF Advance
  <2> QED BY <2>2, <2>3
<1>9. DOMAIN delivered' \subseteq Items /\ delivered' \in [DOMAIN delivered' -> Nat]
  <2>1. DOMAIN delivered \subseteq Items /\ \A i \in DOMAIN delivered : delivered[i] \in Nat
    BY DEF TypeOK
  <2> QED BY <1>4, <1>7, <1>8, <2>1
<1>10. pc' \in {next, idle}
  BY DEF Advance
<1> QED BY <1>1, <1>3, <1>5, <1>6, <1>7, <1>9, <1>10

(* What is taken out of a queue was in it, and what stays was.             *)
LEMMA HeadAndTail ==
    ASSUME NEW T, NEW q \in Seq(T), q # <<>>
    PROVE  Head(q) \in T /\ Tail(q) \in Seq(T) /\ Range(Tail(q)) \subseteq Range(q)
           /\ Head(q) \in Range(q) /\ Range(q) \subseteq {Head(q)} \cup Range(Tail(q))
<1>1. Head(q) \in T /\ Tail(q) \in Seq(T) /\ Head(q) = q[1] /\ 1 \in DOMAIN q
  OBVIOUS
<1>2. Range(Tail(q)) \subseteq Range(q)
  <2>1. \A i \in DOMAIN Tail(q) : i + 1 \in DOMAIN q /\ Tail(q)[i] = q[i + 1]
    OBVIOUS
  <2> QED BY <2>1 DEF Range
<1>3. Range(q) \subseteq {Head(q)} \cup Range(Tail(q))
  <2>1. \A i \in DOMAIN q : i # 1 => i - 1 \in DOMAIN Tail(q) /\ Tail(q)[i - 1] = q[i]
    OBVIOUS
  <2> QED BY <1>1, <2>1 DEF Range
<1> QED BY <1>1, <1>2, <1>3 DEF Range

(* What is put at the end of a queue joins what is in it.                  *)
LEMMA AppendRange ==
    ASSUME NEW T, NEW q \in Seq(T), NEW x \in T
    PROVE  Append(q, x) \in Seq(T) /\ Range(Append(q, x)) = Range(q) \cup {x}
<1>1. Append(q, x) \in Seq(T)
  OBVIOUS
<1>2. /\ DOMAIN Append(q, x) = DOMAIN q \cup {Len(q) + 1}
      /\ \A i \in DOMAIN q : Append(q, x)[i] = q[i]
      /\ Append(q, x)[Len(q) + 1] = x
  OBVIOUS
<1> QED BY <1>1, <1>2 DEF Range

(* The initial state is one of the types.                                  *)
LEMMA InitTypes == Init => TypeOK
<1> SUFFICES ASSUME Init PROVE TypeOK
  OBVIOUS
<1>1. wall \in [now : 0..MaxTime, setBacks : 0..MaxSetBacks]
  BY Constants DEF Init
<1>2. provider \subseteq Subs /\ subscribed \subseteq Subs /\ wanted \subseteq Subs
  BY Constants DEF Init
<1>3. wire \in Seq(Items) /\ offered \in Seq(Items)
  BY DEF Init
<1>4. channel \in [Subs -> Seq(Items \cup {StreamLost})]
  BY DEF Init
<1>5. asm \in [pending : SUBSET Items, frontier : Nat, fills : SUBSET FillForward,
               memory : [Subs -> Int]]
  <2>1. [s \in Subs |-> None] \in [Subs -> Int]
    BY DEF None
  <2> QED BY <2>1 DEF Init
<1>6. IsSchedule(schedule)
  <2>1. IsSchedule([registered |-> Primed, frontier |-> 0, evaluated |-> [e \in Events |-> 0]])
    BY Constants DEF IsSchedule
  <2> QED BY <2>1 DEF Init, SkipUntil, IsSchedule
<1>7. DOMAIN delivered \subseteq Items /\ delivered \in [DOMAIN delivered -> Nat]
  BY DEF Init
<1>8. fired \in [Events -> [Dates -> Nat]] /\ since \in [Events -> Int]
  BY DEF Init
<1>9. streaming \in BOOLEAN /\ dispatching \in BOOLEAN
  BY DEF Init
<1>10. clock \in Nat /\ pulse \in Nat /\ pc = "top"
  BY DEF Init
<1> QED BY <1>1, <1>2, <1>3, <1>4, <1>5, <1>6, <1>7, <1>8, <1>9, <1>10 DEF TypeOK

(* Every step keeps the types.                                             *)
LEMMA NextTypes == TypeOK /\ [Next]_vars => TypeOK'
<1> SUFFICES ASSUME TypeOK, [Next]_vars PROVE TypeOK'
  OBVIOUS
<1> USE DEF feed, loop, sched
<1>1. CASE Tick
  <2>1. wall' \in [now : 0..MaxTime, setBacks : 0..MaxSetBacks]
    <3>1. wall \in [now : 0..MaxTime, setBacks : 0..MaxSetBacks]
      BY DEF TypeOK
    <3>2. wall.now + 1 \in 0..MaxTime
      BY <1>1, Types, Constants DEF Tick
    <3> QED BY <1>1, <3>1, <3>2 DEF Tick
  <2> QED BY <1>1, <2>1 DEF Tick, TypeOK
<1>2. CASE SetBack
  <2>1. wall' \in [now : 0..MaxTime, setBacks : 0..MaxSetBacks]
    <3>1. wall.now - 1 \in 0..MaxTime /\ wall.setBacks + 1 \in 0..MaxSetBacks
      BY <1>2, Types, Constants DEF SetBack
    <3> QED BY <1>2, <3>1 DEF SetBack
  <2> QED BY <1>2, <2>1 DEF SetBack, TypeOK
<1>3. CASE EndStream
  <2>1. streaming' \in BOOLEAN
    BY <1>3 DEF EndStream
  <2> QED BY <1>3, <2>1 DEF EndStream, TypeOK
<1>4. ASSUME NEW i \in Items, Offer(i) PROVE TypeOK'
  <2>1. wire' \in Seq(Items) /\ offered' \in Seq(Items)
    BY <1>4, AppendRange DEF Offer, TypeOK
  <2> QED BY <1>4, <2>1 DEF Offer, TypeOK
<1>5. CASE Dispatch
  <2>1. Head(wire) \in Items /\ Tail(wire) \in Seq(Items)
    BY <1>5, HeadAndTail DEF Dispatch, TypeOK
  <2>2. channel' \in [Subs -> Seq(Items \cup {StreamLost})]
    <3>1. channel \in [Subs -> Seq(Items \cup {StreamLost})]
      BY DEF TypeOK
    <3>2. SubOf[Head(wire)] \in Subs
      BY <2>1, Constants
    <3>3. Append(channel[SubOf[Head(wire)]], Head(wire)) \in Seq(Items \cup {StreamLost})
      BY <2>1, <3>1, <3>2
    <3> QED BY <1>5, <3>1, <3>2, <3>3 DEF Dispatch
  <2> QED BY <1>5, <2>1, <2>2 DEF Dispatch, TypeOK
<1>6. CASE EndDispatch
  <2>1. channel' \in [Subs -> Seq(Items \cup {StreamLost})]
    <3>1. \A s \in Subs : channel[s] \in Seq(Items \cup {StreamLost})
      BY DEF TypeOK
    <3>2. \A s \in Subs : Append(channel[s], StreamLost) \in Seq(Items \cup {StreamLost})
      BY <3>1
    <3> QED BY <1>6, <3>1, <3>2 DEF EndDispatch
  <2>2. dispatching' \in BOOLEAN
    BY <1>6 DEF EndDispatch
  <2> QED BY <1>6, <2>1, <2>2 DEF EndDispatch, TypeOK
<1>7. CASE TakePulse
  <2>1. Second \in Nat
    BY Types
  <2>2. fired' \in [Events -> [Dates -> Nat]]
    BY <1>7 DEF TakePulse, Fire, TypeOK
  <2>3. IsSchedule(schedule')
    <3>1. schedule' = Scanned(schedule, Second) /\ IsSchedule(schedule)
      BY <1>7 DEF TakePulse, TypeOK
    <3> QED BY <2>1, <3>1, ScheduleStays
  <2>4. wanted' \subseteq Subs
    BY <1>7, Constants DEF TakePulse, TypeOK
  <2> QED BY <1>7, <2>1, <2>2, <2>3, <2>4 DEF TakePulse, TypeOK
<1>8. CASE NoPulse
  BY <1>8 DEF NoPulse, TypeOK
<1>9. ASSUME NEW e \in Events, Register(e) PROVE TypeOK'
  <2>1. IsSchedule(schedule) /\ schedule' = AddEvent(schedule, e)
    BY <1>9 DEF Register, TypeOK
  <2>2. IsSchedule(schedule')
    BY <2>1 DEF IsSchedule, AddEvent
  <2>3. since' \in [Events -> Int]
    BY <1>9, <2>1 DEF Register, TypeOK, IsSchedule
  <2> QED BY <1>9, <2>2, <2>3 DEF Register, TypeOK
<1>10. ASSUME NEW s \in Subs, Take(s) PROVE TypeOK'
  <2>1. channel[s] \in Seq(Items \cup {StreamLost}) /\ channel[s] # <<>>
    BY <1>10 DEF Take, TypeOK
  <2>2. /\ Head(channel[s]) \in Items
        /\ Tail(channel[s]) \in Seq(Items \cup {StreamLost})
    BY <1>10, <2>1, HeadAndTail DEF Take
  <2>3. channel' \in [Subs -> Seq(Items \cup {StreamLost})]
    BY <1>10, <2>2 DEF Take, TypeOK
  <2>4. asm' \in [pending : SUBSET Items, frontier : Nat, fills : SUBSET FillForward,
                  memory : [Subs -> Int]]
    BY <1>10, <2>2 DEF Take, TypeOK
  <2> QED BY <1>10, <2>3, <2>4 DEF Take, TypeOK
<1>11. ASSUME NEW s \in Subs, LoseStream(s) PROVE TypeOK'
  BY <1>11 DEF LoseStream, TypeOK
<1>12. ASSUME Release \/ Flush PROVE TypeOK'
  <2>1. PICK next \in {"sync", "last sync"}, idle \in {"top", "stopped"} : Advance(next, idle)
    BY <1>12 DEF Release, Flush
  <2>2. UNCHANGED <<wall, feed, pulse, sched, offered>>
    BY <2>1 DEF Advance
  <2>3. pc' \in {"top", "poll", "sync", "last sync", "stopped"}
    BY <2>1, AdvanceTypes
  <2>4. /\ asm' \in [pending : SUBSET Items, frontier : Nat, fills : SUBSET FillForward,
                     memory : [Subs -> Int]]
        /\ wanted' \subseteq Subs /\ clock' \in Nat
        /\ DOMAIN delivered' \subseteq Items
        /\ delivered' \in [DOMAIN delivered' -> Nat]
    BY <2>1, AdvanceTypes
  <2>5. streaming' \in BOOLEAN /\ dispatching' \in BOOLEAN
    BY <2>2 DEF TypeOK
  <2> QED BY <2>2, <2>3, <2>4, <2>5 DEF TypeOK
<1>13. ASSUME NEW s \in Subs, Remove(s) PROVE TypeOK'
  <2>1. <<>> \in Seq(Items \cup {StreamLost})
    OBVIOUS
  <2>2. channel' \in [Subs -> Seq(Items \cup {StreamLost})]
    BY <1>13, <2>1 DEF Remove, TypeOK
  <2>3. provider' \subseteq Subs /\ subscribed' \subseteq Subs
    BY <1>13 DEF Remove, TypeOK
  <2> QED BY <1>13, <2>2, <2>3 DEF Remove, TypeOK
<1>14. ASSUME NEW s \in Subs, Subscribe(s) PROVE TypeOK'
  BY <1>14 DEF Subscribe, TypeOK
<1>15. ASSUME NEW s \in Subs, Install(s) PROVE TypeOK'
  BY <1>15 DEF Install, TypeOK
<1>16. ASSUME Synced \/ Abort PROVE TypeOK'
  BY <1>16 DEF Synced, Abort, TypeOK
<1>17. CASE UNCHANGED vars
  BY <1>17 DEF vars, TypeOK
<1> QED BY <1>1, <1>2, <1>3, <1>4, <1>5, <1>6, <1>7, <1>8, <1>9, <1>10, <1>11, <1>12, <1>13,
           <1>14, <1>15, <1>16, <1>17 DEF Next, Loop, SyncSubscriptions

(* The feed keeps to its types: TypeOK of LiveFeed.                        *)
THEOREM TypesHold == Spec => []TypeOK
<1>1. Init => TypeOK
  BY InitTypes
<1>2. TypeOK /\ [Next]_vars => TypeOK'
  BY NextTypes
<1> QED BY <1>1, <1>2, PTL DEF Spec

---------------------------------------------------------------------------
(* The scheduled events.                                                   *)

(* What a rule is.                                                         *)
LEMMA RuleIs ==
    ASSUME NEW e \in Events
    PROVE  /\ Rules[e].ticks \in Int /\ Rules[e].dates \subseteq Dates
           /\ \/ /\ Rules[e].kind = "At"
                 /\ Rules[e].ticks >= -DayTicks /\ Rules[e].ticks < 2 * DayTicks
              \/ /\ Rules[e].kind = "Every"
                 /\ Rules[e].ticks \in Nat \ {0} /\ Rules[e].ticks =< DayTicks
<1>1. Rules[e] \in Rule /\ DayTicks \in Nat \ {0}
  BY RulesAssumption, TimeAssumption
<1>2. CASE Rules[e] \in [kind : {"At"}, ticks : (-DayTicks)..(2 * DayTicks - 1),
                         dates : SUBSET Dates]
  BY <1>1, <1>2
<1>3. CASE Rules[e] \in [kind : {"Every"}, ticks : 1..DayTicks, dates : SUBSET Dates]
  BY <1>1, <1>3
<1> QED BY <1>1, <1>2, <1>3 DEF Rule

(* A trigger lies between a date before its date and the end of the next.  *)
LEMMA TriggerNearDate ==
    ASSUME NEW e \in Events, NEW d \in Int
    PROVE  /\ TriggerTime(Rules[e], d) \in Int /\ d * DayTicks \in Int
           /\ TriggerTime(Rules[e], d) >= d * DayTicks - DayTicks
           /\ TriggerTime(Rules[e], d) < d * DayTicks + 2 * DayTicks
<1>1. DayTicks \in Nat \ {0} /\ d * DayTicks \in Int
  BY Constants, ProductGrows
<1>2. CASE Rules[e].kind = "At" /\ Rules[e].ticks >= -DayTicks /\ Rules[e].ticks < 2 * DayTicks
  <2>1. TriggerTime(Rules[e], d) = d * DayTicks + Rules[e].ticks
    BY <1>2 DEF TriggerTime
  <2> QED BY <1>1, <1>2, <2>1, RuleIs
<1>3. CASE Rules[e].kind = "Every" /\ Rules[e].ticks \in Nat \ {0} /\ Rules[e].ticks =< DayTicks
  <2>1. PICK day, ticks : day = d * DayTicks /\ ticks = Rules[e].ticks
    OBVIOUS
  <2>2. TriggerTime(Rules[e], d) = (day \div ticks) * ticks
    BY <1>3, <2>1 DEF TriggerTime
  <2>3. /\ (day \div ticks) * ticks \in Int
        /\ (day \div ticks) * ticks =< day /\ day < (day \div ticks) * ticks + ticks
    BY <1>1, <1>3, <2>1, DivBounds
  <2>4. day \in Int /\ ticks \in Int /\ ticks =< DayTicks
    BY <1>1, <1>3, <2>1
  <2>5. /\ TriggerTime(Rules[e], d) \in Int
        /\ TriggerTime(Rules[e], d) >= day - DayTicks
        /\ TriggerTime(Rules[e], d) < day + 2 * DayTicks
    BY <1>1, <2>2, <2>3, <2>4
  <2> QED BY <1>1, <2>1, <2>5
<1> QED BY <1>2, <1>3, RuleIs

(* Every trigger between two times is of a date the scan looks at.         *)
LEMMA TriggerIsScanned ==
    ASSUME NEW e \in Events, NEW d \in Int, NEW after \in Int, NEW through \in Int,
           TriggerTime(Rules[e], d) > after, TriggerTime(Rules[e], d) =< through
    PROVE  d \in DatesScanned(after, through)
<1>1. PICK time : time = TriggerTime(Rules[e], d)
  OBVIOUS
<1>2. PICK from, to : from = DateOf(after) /\ to = DateOf(through)
  OBVIOUS
<1>3. /\ time \in Int /\ after < time /\ time =< through
      /\ d * DayTicks \in Int
      /\ d * DayTicks - DayTicks =< time /\ time < d * DayTicks + 2 * DayTicks
  BY <1>1, TriggerNearDate
<1>4. /\ DayTicks \in Nat \ {0} /\ from \in Int /\ to \in Int
      /\ from * DayTicks \in Int /\ to * DayTicks \in Int
      /\ from * DayTicks =< after /\ through < to * DayTicks + DayTicks
  BY <1>2, Constants, DivBounds DEF DateOf
<1>5. d * DayTicks - DayTicks < to * DayTicks + DayTicks
  BY <1>3, <1>4
<1>6. from * DayTicks < d * DayTicks + 2 * DayTicks
  BY <1>3, <1>4
<1>7. (d - 1) * DayTicks < (to + 1) * DayTicks
  BY <1>4, <1>5
<1>8. from * DayTicks < (d + 2) * DayTicks
  BY <1>4, <1>6
<1>9. d - 1 < to + 1 /\ from < d + 2
  BY <1>4, <1>7, <1>8, ProductGrows
<1> QED BY <1>2, <1>4, <1>9 DEF DatesScanned

(* What is due: the triggers of registered events that have come since.    *)
LEMMA DueAre ==
    ASSUME NEW s, IsSchedule(s), NEW time \in Int, NEW e \in Events, NEW d \in Dates
    PROVE  (\E x \in DueEvents(s, time) : x.event = e /\ x.date = d)
             <=> /\ e \in s.registered /\ d \in Rules[e].dates
                 /\ TriggerTime(Rules[e], d) > s.evaluated[e]
                 /\ TriggerTime(Rules[e], d) =< time
<1>1. s.registered \subseteq Events /\ \A a \in Events : s.evaluated[a] \in Int
  BY DEF IsSchedule
<1>2. ASSUME NEW x \in DueEvents(s, time), x.event = e, x.date = d
      PROVE  /\ e \in s.registered /\ d \in Rules[e].dates
             /\ TriggerTime(Rules[e], d) > s.evaluated[e]
             /\ TriggerTime(Rules[e], d) =< time
  <2>1. PICK a \in s.registered : x \in TriggerTimes(a, s.evaluated[a], time)
    BY <1>2 DEF DueEvents
  <2>2. a = e
    BY <1>2, <2>1 DEF TriggerTimes
  <2> QED BY <1>2, <2>1, <2>2 DEF TriggerTimes
<1>3. ASSUME e \in s.registered, d \in Rules[e].dates,
             TriggerTime(Rules[e], d) > s.evaluated[e], TriggerTime(Rules[e], d) =< time
      PROVE  \E x \in DueEvents(s, time) : x.event = e /\ x.date = d
  <2>1. d \in Int /\ TriggerTime(Rules[e], d) \in Int
    BY TriggerNearDate DEF Dates
  <2>2. time > s.evaluated[e]
    BY <1>1, <1>3, <2>1
  <2>3. d \in DatesScanned(s.evaluated[e], time)
    BY <1>1, <1>3, <2>1, TriggerIsScanned
  <2>4. [event |-> e, date |-> d, time |-> TriggerTime(Rules[e], d)]
            \in TriggerTimes(e, s.evaluated[e], time)
    BY <1>3, <2>3 DEF TriggerTimes
  <2>5. [event |-> e, date |-> d, time |-> TriggerTime(Rules[e], d)] \in DueEvents(s, time)
    BY <1>3, <2>2, <2>4 DEF DueEvents
  <2> QED BY <2>5
<1> QED BY <1>2, <1>3

(* The scans leave no gap: every registered event has been evaluated up to *)
(* the last pulse, where a new one starts.                                 *)
TriggersOK ==
    /\ schedule.frontier = pulse
    /\ \A e \in schedule.registered : schedule.evaluated[e] = pulse /\ since[e] =< pulse
    /\ EachTriggerOnce

(* It is so at the start.                                                  *)
LEMMA InitTriggers == Init => TriggersOK
<1> SUFFICES ASSUME Init PROVE TriggersOK
  OBVIOUS
<1>1. /\ schedule.frontier = 0 /\ schedule.registered = Primed /\ pulse = 0
      /\ \A e \in Events : since[e] = 0 /\ \A d \in Dates : fired[e][d] = 0
  BY DEF Init, SkipUntil
<1>2. \A e \in Primed : e \in Events /\ schedule.evaluated[e] = 0
  BY Constants DEF Init, SkipUntil
<1>3. EachTriggerOnce
  <2>1. \A e \in Events, d \in Dates : TriggerTime(Rules[e], d) \in Int
    BY TriggerNearDate DEF Dates
  <2> QED BY <1>1, <2>1 DEF EachTriggerOnce
<1> QED BY <1>1, <1>2, <1>3 DEF TriggersOK

(* A pulse fires what has come due since the last one, and nothing else.   *)
LEMMA PulseKeepsTriggers == TypeOK /\ TriggersOK /\ TakePulse => TriggersOK'
<1> SUFFICES ASSUME TypeOK, TriggersOK, TakePulse PROVE TriggersOK'
  OBVIOUS
<1>1. /\ Second \in Int /\ pulse \in Int /\ Second > pulse /\ pulse' = Second
      /\ IsSchedule(schedule) /\ schedule' = Scanned(schedule, Second)
      /\ since' = since /\ since \in [Events -> Int]
  BY Types DEF TakePulse, TypeOK
<1>2. /\ schedule'.frontier = Second /\ schedule'.registered = schedule.registered
      /\ schedule.registered \subseteq Events
      /\ \A e \in schedule.registered : schedule'.evaluated[e] = Second
  <2>1. /\ schedule'.frontier = Second /\ schedule'.registered = schedule.registered
        /\ schedule.registered \subseteq Events
    BY <1>1 DEF Scanned, IsSchedule
  <2>2. \A e \in schedule.registered : schedule.evaluated[e] = pulse
    BY DEF TriggersOK
  <2> QED BY <1>1, <2>1, <2>2 DEF Scanned, IsSchedule
<1>3. ASSUME NEW e \in Events, NEW d \in Dates
      PROVE  LET time == TriggerTime(Rules[e], d)
             IN  fired'[e][d] = IF /\ e \in schedule.registered
                                   /\ d \in Rules[e].dates
                                   /\ time > since[e] /\ time =< Second
                                THEN 1 ELSE 0
  <2>1. PICK time : time = TriggerTime(Rules[e], d)
    OBVIOUS
  <2>2. time \in Int /\ since[e] \in Int
    BY <1>1, <2>1, TriggerNearDate DEF Dates
  <2>3. fired[e][d] = IF /\ e \in schedule.registered
                         /\ d \in Rules[e].dates
                         /\ time > since[e] /\ time =< pulse
                      THEN 1 ELSE 0
    BY <2>1 DEF TriggersOK, EachTriggerOnce
  <2>4. fired'[e][d] = IF \E x \in DueEvents(schedule, Second) : x.event = e /\ x.date = d
                       THEN fired[e][d] + 1 ELSE fired[e][d]
    BY DEF TakePulse, Fire
  <2>5. (\E x \in DueEvents(schedule, Second) : x.event = e /\ x.date = d)
          <=> /\ e \in schedule.registered /\ d \in Rules[e].dates
              /\ time > schedule.evaluated[e] /\ time =< Second
    BY <1>1, <2>1, DueAre
  <2>6. e \in schedule.registered => schedule.evaluated[e] = pulse /\ since[e] =< pulse
    BY DEF TriggersOK
  <2>7. fired'[e][d] = IF /\ e \in schedule.registered
                          /\ d \in Rules[e].dates
                          /\ time > since[e] /\ time =< Second
                       THEN 1 ELSE 0
    BY <1>1, <2>2, <2>3, <2>4, <2>5, <2>6
  <2> QED BY <2>1, <2>7
<1>4. EachTriggerOnce'
  BY <1>1, <1>2, <1>3 DEF EachTriggerOnce
<1>5. \A e \in schedule.registered : since[e] =< Second
  BY <1>1, <1>2 DEF TriggersOK
<1> QED BY <1>1, <1>2, <1>4, <1>5 DEF TriggersOK

(* A new event starts from the last pulse.                                 *)
LEMMA RegisterKeepsTriggers ==
    ASSUME TypeOK, TriggersOK, NEW e \in Events, Register(e)
    PROVE  TriggersOK'
<1>1. /\ IsSchedule(schedule) /\ e \notin schedule.registered
      /\ schedule' = AddEvent(schedule, e) /\ schedule.frontier = pulse
      /\ pulse \in Int /\ pulse' = pulse /\ fired' = fired
      /\ since \in [Events -> Int] /\ since' = [since EXCEPT ![e] = pulse]
  BY DEF Register, TypeOK, TriggersOK, loop
<1>2. /\ schedule'.frontier = pulse /\ schedule'.registered = schedule.registered \cup {e}
      /\ schedule'.evaluated[e] = pulse /\ schedule.registered \subseteq Events
      /\ \A a \in Events : a # e => schedule'.evaluated[a] = schedule.evaluated[a]
  BY <1>1 DEF AddEvent, IsSchedule
<1>3. since'[e] = pulse /\ \A a \in Events : a # e => since'[a] = since[a]
  BY <1>1
<1>4. EachTriggerOnce'
  <2>1. \A d \in Dates : TriggerTime(Rules[e], d) \in Int
    BY TriggerNearDate DEF Dates
  <2>2. \A d \in Dates : fired[e][d] = 0
    BY <1>1 DEF TriggersOK, EachTriggerOnce
  <2>3. EachTriggerOnce
    BY DEF TriggersOK
  <2>4. ASSUME NEW a \in Events, NEW d \in Dates
        PROVE  LET time == TriggerTime(Rules[a], d)
               IN  fired[a][d] = IF /\ a \in schedule.registered \cup {e}
                                    /\ d \in Rules[a].dates
                                    /\ time > since'[a] /\ time =< pulse
                                 THEN 1 ELSE 0
    <3>1. CASE a = e
      BY <1>1, <1>3, <2>1, <2>2, <3>1
    <3>2. CASE a # e
      BY <1>3, <2>3, <3>2 DEF EachTriggerOnce
    <3> QED BY <3>1, <3>2
  <2> QED BY <1>1, <1>2, <2>4 DEF EachTriggerOnce
<1> QED BY <1>1, <1>2, <1>3, <1>4 DEF TriggersOK

(* Nothing else touches the events.                                        *)
LEMMA NextTriggers == TypeOK /\ TriggersOK /\ [Next]_vars => TriggersOK'
<1> SUFFICES ASSUME TypeOK, TriggersOK, [Next]_vars PROVE TriggersOK'
  OBVIOUS
<1>1. CASE TakePulse
  BY <1>1, PulseKeepsTriggers
<1>2. CASE \E e \in Events : Register(e)
  BY <1>2, RegisterKeepsTriggers
<1>3. CASE UNCHANGED <<pulse, sched>>
  BY <1>3 DEF sched, TriggersOK, EachTriggerOnce
<1>4. TakePulse \/ (\E e \in Events : Register(e)) \/ UNCHANGED <<pulse, sched>>
  BY DEF Next, Loop, SyncSubscriptions, Tick, SetBack, EndStream, Offer, Dispatch, EndDispatch,
         NoPulse, Take, LoseStream, Release, Flush, Advance, Remove, Subscribe, Install, Synced,
         Abort, vars, loop
<1> QED BY <1>1, <1>2, <1>3, <1>4

(* Every trigger of a registered event fires exactly once when its time    *)
(* comes, wherever the scans fall: EachTriggerOnce of LiveFeed.            *)
THEOREM TriggersFireOnce == Spec => []EachTriggerOnce
<1>1. Init => TypeOK /\ TriggersOK
  BY InitTypes, InitTriggers
<1>2. TypeOK /\ TriggersOK /\ [Next]_vars => (TypeOK /\ TriggersOK)'
  BY NextTypes, NextTriggers
<1>3. TriggersOK => EachTriggerOnce
  BY DEF TriggersOK
<1> QED BY <1>1, <1>2, <1>3, PTL DEF Spec

---------------------------------------------------------------------------
(* The order of the items on their way.                                    *)

(* i was offered before j.                                                 *)
Precedes(o, i, j) == \E m, n \in DOMAIN o : m < n /\ o[m] = i /\ o[n] = j

(* The items of a queue are in the order in which they were offered.       *)
Sorted(o, q) ==
    \A m, n \in DOMAIN q :
        m < n /\ q[m] # StreamLost /\ q[n] # StreamLost => Precedes(o, q[m], q[n])

Distinct(o) == \A m, n \in DOMAIN o : o[m] = o[n] => m = n

InChannels == {i \in Items : InChannel(i)}

(* What has reached the assembler.                                         *)
Arrived == asm.pending \cup DOMAIN delivered

(* The way of the items: no stage overtakes the next one, where that of    *)
(* the channels is each subscription's own.                                *)
WayOK ==
    /\ Distinct(offered)
    /\ Sorted(offered, wire) /\ \A s \in Subs : Sorted(offered, channel[s])
    /\ \A s \in Subs : \A i \in Range(channel[s]) : i = StreamLost \/ SubOf[i] = s
    /\ OnItsWay \cup DOMAIN delivered \subseteq Range(offered)
    /\ \A j \in Range(wire), i \in InChannels \cup Arrived : Precedes(offered, i, j)
    /\ \A j \in InChannels, i \in Arrived : SubOf[i] = SubOf[j] => Precedes(offered, i, j)

(* What is delivered was due, and is not delivered again.                  *)
DeliveredOK ==
    /\ asm.pending \cap DOMAIN delivered = {}
    /\ \A i \in DOMAIN delivered : EndOf[i] =< delivered[i] /\ delivered[i] =< asm.frontier

(* No item is offered before itself, or both before and after another.     *)
LEMMA PrecedesStrict ==
    ASSUME NEW o \in Seq(Items), Distinct(o), NEW i, NEW j, Precedes(o, i, j)
    PROVE  i # j /\ ~Precedes(o, j, i)
<1>1. DOMAIN o \subseteq Int
  OBVIOUS
<1>2. PICK m \in DOMAIN o, n \in DOMAIN o : m < n /\ o[m] = i /\ o[n] = j
  BY DEF Precedes
<1>3. \A x \in DOMAIN o, y \in DOMAIN o : o[x] = i /\ o[y] = j => x = m /\ y = n
  BY <1>2 DEF Distinct
<1>4. m \in Int /\ n \in Int
  BY <1>1, <1>2
<1>5. i # j
  BY <1>2, <1>3, <1>4
<1>6. ASSUME Precedes(o, j, i) PROVE FALSE
  <2>1. PICK x \in DOMAIN o, y \in DOMAIN o : x < y /\ o[x] = j /\ o[y] = i
    BY <1>6 DEF Precedes
  <2>2. y = m /\ x = n
    BY <1>3, <2>1
  <2> QED BY <1>2, <1>4, <2>1, <2>2
<1> QED BY <1>5, <1>6

(* p is what has been offered, o, and then k.                              *)
Extends(o, p, k) == o \in Seq(Items) /\ k \in Items /\ p = Append(o, k)

(* What is offered now comes after everything that has been offered.       *)
LEMMA OfferedLast ==
    ASSUME NEW o, NEW k, NEW p, Extends(o, p, k)
    PROVE  /\ \A i, j : Precedes(o, i, j) => Precedes(p, i, j)
           /\ \A i \in Range(o) : Precedes(p, i, k)
           /\ \A i, j : Precedes(p, i, j) => Precedes(o, i, j) \/ (j = k /\ i \in Range(o))
           /\ Distinct(o) /\ k \notin Range(o) => Distinct(p)
<1>1. /\ Len(o) \in Nat /\ DOMAIN o = 1..Len(o) /\ DOMAIN p = 1..(Len(o) + 1)
      /\ \A m \in DOMAIN o : p[m] = o[m]
      /\ p[Len(o) + 1] = k
  BY DEF Extends
<1>2. PICK last : last = Len(o) + 1
  OBVIOUS
<1>3. /\ last \in DOMAIN p /\ p[last] = k
      /\ \A m \in DOMAIN p : m \in DOMAIN o \/ m = last
      /\ \A m \in DOMAIN o : m \in DOMAIN p /\ p[m] = o[m] /\ m < last /\ m # last
      /\ \A m \in DOMAIN p : ~(last < m)
  BY <1>1, <1>2
<1>4. ASSUME NEW i, NEW j, Precedes(o, i, j) PROVE Precedes(p, i, j)
  BY <1>3, <1>4 DEF Precedes
<1>5. ASSUME NEW i \in Range(o) PROVE Precedes(p, i, k)
  BY <1>3 DEF Precedes, Range
<1>6. ASSUME NEW i, NEW j, Precedes(p, i, j)
      PROVE  Precedes(o, i, j) \/ (j = k /\ i \in Range(o))
  <2>1. PICK m \in DOMAIN p, n \in DOMAIN p : m < n /\ p[m] = i /\ p[n] = j
    BY <1>6 DEF Precedes
  <2>2. m # last
    BY <1>3, <2>1
  <2>3. m \in DOMAIN o /\ o[m] = i
    BY <1>3, <2>1, <2>2
  <2>4. CASE n = last
    BY <1>3, <2>1, <2>3, <2>4 DEF Range
  <2>5. CASE n # last
    BY <1>3, <2>1, <2>3, <2>5 DEF Precedes
  <2> QED BY <2>4, <2>5
<1>7. ASSUME Distinct(o), k \notin Range(o) PROVE Distinct(p)
  <2>1. \A m \in DOMAIN o : o[m] # k
    BY <1>7 DEF Range
  <2>2. ASSUME NEW m \in DOMAIN p, NEW n \in DOMAIN p, p[m] = p[n] PROVE m = n
    BY <1>3, <1>7, <2>1, <2>2 DEF Distinct
  <2> QED BY <2>2 DEF Distinct
<1> QED BY <1>4, <1>5, <1>6, <1>7

(* A queue in order stays so when its head is taken, which came first.     *)
LEMMA SortedTail ==
    ASSUME NEW o, NEW T, NEW q \in Seq(T), q # <<>>, Sorted(o, q)
    PROVE  /\ Sorted(o, Tail(q))
           /\ \A j \in Range(Tail(q)) :
                 Head(q) # StreamLost /\ j # StreamLost => Precedes(o, Head(q), j)
<1>1. PICK r : r = Tail(q)
  OBVIOUS
<1>2. /\ 1 \in DOMAIN q /\ Head(q) = q[1]
      /\ \A m \in DOMAIN r : m \in Int /\ m >= 1 /\ m + 1 \in DOMAIN q /\ r[m] = q[m + 1]
  BY <1>1
<1>3. ASSUME NEW m \in DOMAIN r, NEW n \in DOMAIN r, m < n,
             r[m] # StreamLost, r[n] # StreamLost
      PROVE  Precedes(o, r[m], r[n])
  <2>1. m + 1 < n + 1 /\ m + 1 \in DOMAIN q /\ n + 1 \in DOMAIN q
    BY <1>2, <1>3
  <2> QED BY <1>2, <1>3, <2>1 DEF Sorted
<1>4. ASSUME NEW n \in DOMAIN r, q[1] # StreamLost, r[n] # StreamLost
      PROVE  Precedes(o, q[1], r[n])
  <2>1. 1 < n + 1 /\ n + 1 \in DOMAIN q
    BY <1>2
  <2> QED BY <1>2, <1>4, <2>1 DEF Sorted
<1> QED BY <1>1, <1>2, <1>3, <1>4 DEF Sorted, Range

(* ... and when something is put at its end that came after all of it.     *)
LEMMA SortedAppend ==
    ASSUME NEW o, NEW T, NEW q \in Seq(T), NEW x \in T, Sorted(o, q),
           \A i \in Range(q) : i # StreamLost /\ x # StreamLost => Precedes(o, i, x)
    PROVE  Sorted(o, Append(q, x))
<1>1. PICK r : r = Append(q, x)
  OBVIOUS
<1>2. PICK last : last = Len(q) + 1
  OBVIOUS
<1>3. /\ r[last] = x
      /\ \A m \in DOMAIN r : m \in DOMAIN q \/ m = last
      /\ \A m \in DOMAIN q : r[m] = q[m]
      /\ \A m \in DOMAIN r : ~(last < m)
  BY <1>1, <1>2
<1>4. ASSUME NEW m \in DOMAIN r, NEW n \in DOMAIN r, m < n,
             r[m] # StreamLost, r[n] # StreamLost
      PROVE  Precedes(o, r[m], r[n])
  <2>1. m \in DOMAIN q
    BY <1>3, <1>4
  <2>2. CASE n = last
    BY <1>3, <1>4, <2>1, <2>2 DEF Range
  <2>3. CASE n # last
    BY <1>3, <1>4, <2>1, <2>3 DEF Sorted
  <2> QED BY <2>2, <2>3
<1> QED BY <1>1, <1>4 DEF Sorted

(* A queue stays in order as more is offered.                              *)
LEMMA SortedOnward ==
    ASSUME NEW o, NEW p, \A i, j : Precedes(o, i, j) => Precedes(p, i, j),
           NEW q, Sorted(o, q)
    PROVE  Sorted(p, q)
BY DEF Sorted

(* The types, for the queues.                                              *)
LEMMA QueueTypes ==
    ASSUME TypeOK
    PROVE  /\ offered \in Seq(Items) /\ wire \in Seq(Items)
           /\ \A s \in Subs : channel[s] \in Seq(Items \cup {StreamLost})
           /\ Range(wire) \subseteq Items /\ Range(offered) \subseteq Items
           /\ \A s \in Subs : Range(channel[s]) \subseteq Items \cup {StreamLost}
           /\ Arrived \subseteq Items
<1>1. /\ offered \in Seq(Items) /\ wire \in Seq(Items)
      /\ \A s \in Subs : channel[s] \in Seq(Items \cup {StreamLost})
  BY DEF TypeOK
<1>2. ASSUME NEW T, NEW q \in Seq(T) PROVE Range(q) \subseteq T
  BY DEF Range
<1>3. Arrived \subseteq Items
  BY Types DEF Arrived, TypeOK
<1> QED BY <1>1, <1>2, <1>3

(* The items in a channel are those of its subscription.                   *)
LEMMA ChannelItems ==
    ASSUME TypeOK, WayOK, NEW s \in Subs
    PROVE  /\ \A i \in Range(channel[s]) :
                 i # StreamLost => i \in InChannels /\ SubOf[i] = s
           /\ \A i \in InChannels : SubOf[i] = s => i \in Range(channel[s]) /\ i # StreamLost
BY QueueTypes, Constants DEF WayOK, InChannels, InChannel

(* A new item is the last of all.                                          *)
LEMMA OfferKeepsWay ==
    ASSUME TypeOK, WayOK, NEW i \in Items, Offer(i)
    PROVE  WayOK'
<1>1. PICK o, p, w, v : o = offered /\ p = offered' /\ w = wire /\ v = wire'
  OBVIOUS
<1>2. /\ o \in Seq(Items) /\ p = Append(o, i) /\ i \notin Range(o)
      /\ w \in Seq(Items) /\ v = Append(w, i) /\ channel' = channel /\ Arrived' = Arrived
      /\ InChannels' = InChannels
  BY <1>1, QueueTypes DEF Offer, loop, Arrived, InChannels, InChannel
<1>3. /\ \A a, b : Precedes(o, a, b) => Precedes(p, a, b)
      /\ \A a \in Range(o) : Precedes(p, a, i)
      /\ Distinct(p)
  <2>1. Distinct(o) /\ i \notin Range(o)
    BY <1>1, <1>2 DEF WayOK
  <2>2. Extends(o, p, i)
    BY <1>2 DEF Extends
  <2> QED BY <2>1, <2>2, OfferedLast
<1>4. Range(v) = Range(w) \cup {i} /\ Range(p) = Range(o) \cup {i}
  BY <1>2, AppendRange
<1>5. OnItsWay \cup DOMAIN delivered \subseteq Range(o)
  BY <1>1 DEF WayOK
<1>6. Range(w) \cup InChannels \cup Arrived \subseteq Range(o)
  BY <1>1, <1>5 DEF OnItsWay, InChannels, Arrived
<1>7. Sorted(p, v)
  <2>1. Sorted(p, w)
    BY <1>1, <1>3, SortedOnward DEF WayOK
  <2>2. \A a \in Range(w) : Precedes(p, a, i)
    BY <1>3, <1>6
  <2> QED BY <1>2, <2>1, <2>2, SortedAppend
<1>8. \A s \in Subs : Sorted(p, channel[s])
  BY <1>1, <1>3, SortedOnward DEF WayOK
<1>9. (OnItsWay \cup DOMAIN delivered)' \subseteq Range(p)
  <2>1. (OnItsWay \cup DOMAIN delivered)' = Range(v) \cup InChannels' \cup Arrived'
    BY <1>1 DEF OnItsWay, InChannels, Arrived
  <2> QED BY <1>2, <1>4, <1>6, <2>1
<1>10. \A j \in Range(v), a \in InChannels \cup Arrived : Precedes(p, a, j)
  BY <1>1, <1>3, <1>4, <1>6 DEF WayOK
<1>11. \A j \in InChannels, a \in Arrived : SubOf[a] = SubOf[j] => Precedes(p, a, j)
  BY <1>1, <1>3 DEF WayOK
<1>12. \A s \in Subs : \A a \in Range(channel[s]) : a = StreamLost \/ SubOf[a] = s
  BY DEF WayOK
<1> QED BY <1>1, <1>2, <1>3, <1>7, <1>8, <1>9, <1>10, <1>11, <1>12 DEF WayOK

(* The dispatcher takes the first item of the wire, which becomes the last *)
(* of its channel or is dropped.                                           *)
LEMMA DispatchKeepsWay ==
    ASSUME TypeOK, WayOK, Dispatch
    PROVE  WayOK' /\ OnItsWay' \subseteq OnItsWay
<1>1. PICK h, o, w, v : h = Head(wire) /\ o = offered /\ w = wire /\ v = wire'
  OBVIOUS
<1>2. /\ w \in Seq(Items) /\ w # <<>> /\ h = Head(w) /\ v = Tail(w)
      /\ offered' = o /\ Arrived' = Arrived /\ DOMAIN delivered' = DOMAIN delivered
  BY <1>1, QueueTypes DEF Dispatch, loop, Arrived
<1>3. /\ h \in Items /\ h # StreamLost /\ h \in Range(w) /\ Range(v) \subseteq Range(w)
      /\ SubOf[h] \in Subs /\ Range(w) \subseteq Items
  BY <1>1, <1>2, HeadAndTail, Constants, QueueTypes
<1>4. Sorted(o, v) /\ \A j \in Range(v) : Precedes(o, h, j)
  <2>1. Sorted(o, w)
    BY <1>1 DEF WayOK
  <2>2. \A j \in Range(v) : j # StreamLost
    BY <1>3, Constants
  <2> QED BY <1>2, <1>3, <2>1, <2>2, SortedTail
<1>5. ASSUME NEW s \in Subs
      PROVE  /\ Sorted(o, channel'[s])
             /\ \A a \in Range(channel'[s]) : a \in Range(channel[s]) \/ (a = h /\ SubOf[h] = s)
  <2>1. channel[s] \in Seq(Items \cup {StreamLost}) /\ Sorted(o, channel[s])
    BY <1>1, QueueTypes DEF WayOK
  <2>2. CASE channel'[s] = channel[s]
    BY <2>1, <2>2
  <2>3. CASE channel'[s] # channel[s]
    <3>1. SubOf[h] = s /\ channel'[s] = Append(channel[s], h)
      BY <1>1, <2>3 DEF Dispatch, TypeOK
    <3>2. \A a \in Range(channel[s]) : a # StreamLost => Precedes(o, a, h)
      BY <1>1, <1>3, ChannelItems DEF WayOK
    <3> QED BY <1>3, <2>1, <3>1, <3>2, SortedAppend, AppendRange
  <2> QED BY <2>2, <2>3
<1>6. InChannels' \subseteq InChannels \cup {h}
  BY <1>5, Constants DEF InChannels, InChannel
<1>7. \A j \in Range(v), a \in InChannels' \cup Arrived : Precedes(o, a, j)
  BY <1>1, <1>3, <1>4, <1>6 DEF WayOK
<1>8. \A j \in InChannels', a \in Arrived : SubOf[a] = SubOf[j] => Precedes(o, a, j)
  BY <1>1, <1>3, <1>6 DEF WayOK
<1>9. (OnItsWay \cup DOMAIN delivered)' \subseteq Range(o)
  <2>1. (OnItsWay \cup DOMAIN delivered)' = Range(v) \cup InChannels' \cup Arrived'
    BY <1>1 DEF OnItsWay, InChannels, Arrived
  <2>2. Range(w) \cup InChannels \cup Arrived \subseteq Range(o)
    BY <1>1 DEF WayOK, OnItsWay, InChannels, Arrived
  <2> QED BY <1>2, <1>3, <1>6, <2>1, <2>2
<1>10. \A s \in Subs : \A a \in Range(channel'[s]) : a = StreamLost \/ SubOf[a] = s
  BY <1>5 DEF WayOK
<1>11. Distinct(o)
  BY <1>1 DEF WayOK
<1>12. WayOK'
  BY <1>1, <1>2, <1>4, <1>5, <1>7, <1>8, <1>9, <1>10, <1>11 DEF WayOK
<1>13. OnItsWay' \subseteq OnItsWay
  <2>1. OnItsWay = Range(w) \cup InChannels \cup asm.pending
    BY <1>1 DEF OnItsWay, InChannels
  <2>2. OnItsWay' = Range(v) \cup InChannels' \cup asm.pending
    BY <1>1 DEF OnItsWay, InChannels, Dispatch, loop
  <2> QED BY <1>3, <1>6, <2>1, <2>2
<1> QED BY <1>12, <1>13

(* The loop takes the first item of a channel to the assembler.            *)
LEMMA TakeKeepsWay ==
    ASSUME TypeOK, WayOK, NEW s \in Subs, Take(s)
    PROVE  /\ WayOK' /\ OnItsWay' \subseteq OnItsWay
           /\ Head(channel[s]) \in InChannels
           /\ asm' = [asm EXCEPT !.pending = @ \cup {Head(channel[s])}]
<1>1. PICK h, o, q, r : h = Head(channel[s]) /\ o = offered /\ q = channel[s] /\ r = channel'[s]
  OBVIOUS
<1>2. /\ q \in Seq(Items \cup {StreamLost}) /\ q # <<>> /\ h = Head(q) /\ h # StreamLost
      /\ r = Tail(q) /\ \A t \in Subs : t # s => channel'[t] = channel[t]
      /\ offered' = o /\ wire' = wire
      /\ asm' = [asm EXCEPT !.pending = @ \cup {h}] /\ delivered' = delivered
  BY <1>1, QueueTypes DEF Take, TypeOK
<1>3. h \in Range(q) /\ Range(r) \subseteq Range(q) /\ r \in Seq(Items \cup {StreamLost})
  BY <1>2, HeadAndTail
<1>4. h \in Items /\ h \in InChannels /\ SubOf[h] = s
  BY <1>1, <1>2, <1>3, ChannelItems, QueueTypes
<1>5. Arrived' = Arrived \cup {h}
  BY <1>2, Types DEF Arrived
<1>6. Sorted(o, r) /\ \A j \in Range(r) : j # StreamLost => Precedes(o, h, j)
  <2>1. Sorted(o, q)
    BY <1>1 DEF WayOK
  <2> QED BY <1>2, <2>1, SortedTail
<1>7. \A t \in Subs : Sorted(o, channel'[t]) /\ Range(channel'[t]) \subseteq Range(channel[t])
  <2>1. \A t \in Subs : Sorted(o, channel[t])
    BY <1>1 DEF WayOK
  <2> QED BY <1>1, <1>2, <1>3, <1>6, <2>1
<1>8. InChannels' \subseteq InChannels
  BY <1>7, Constants DEF InChannels, InChannel
<1>9. \A j \in InChannels' : SubOf[j] = s => Precedes(o, h, j)
  BY <1>1, <1>6, Constants DEF InChannels, InChannel
<1>10. \A j \in Range(wire), a \in InChannels' \cup Arrived' : Precedes(o, a, j)
  BY <1>1, <1>4, <1>5, <1>8 DEF WayOK
<1>11. \A j \in InChannels', a \in Arrived' : SubOf[a] = SubOf[j] => Precedes(o, a, j)
  BY <1>1, <1>4, <1>5, <1>8, <1>9 DEF WayOK
<1>12. (OnItsWay \cup DOMAIN delivered)' \subseteq Range(o)
  <2>1. (OnItsWay \cup DOMAIN delivered)' = Range(wire) \cup InChannels' \cup Arrived'
    BY <1>2 DEF OnItsWay, InChannels, Arrived
  <2>2. Range(wire) \cup InChannels \cup Arrived \subseteq Range(o)
    BY <1>1 DEF WayOK, OnItsWay, InChannels, Arrived
  <2> QED BY <1>4, <1>5, <1>8, <2>1, <2>2
<1>13. \A t \in Subs : \A a \in Range(channel'[t]) : a = StreamLost \/ SubOf[a] = t
  BY <1>7 DEF WayOK
<1>14. Distinct(o) /\ Sorted(o, wire)
  BY <1>1 DEF WayOK
<1>15. WayOK'
  BY <1>2, <1>7, <1>10, <1>11, <1>12, <1>13, <1>14 DEF WayOK
<1>16. OnItsWay' \subseteq OnItsWay
  <2>1. OnItsWay = Range(wire) \cup InChannels \cup asm.pending
    BY DEF OnItsWay, InChannels
  <2>2. OnItsWay' = Range(wire) \cup InChannels' \cup asm.pending \cup {h}
    BY <1>2, Types DEF OnItsWay, InChannels
  <2> QED BY <1>4, <1>8, <2>1, <2>2
<1> QED BY <1>1, <1>2, <1>4, <1>15, <1>16

(* Where nothing enters a stage, the order stays.                          *)
LEMMA LessOnTheWay ==
    ASSUME TypeOK, WayOK, offered' = offered, wire' = wire, Arrived' = Arrived,
           \A s \in Subs : /\ Sorted(offered, channel'[s])
                           /\ Range(channel'[s]) \subseteq Range(channel[s]) \cup {StreamLost}
    PROVE  WayOK' /\ (asm' = asm => OnItsWay' \subseteq OnItsWay)
<1>1. InChannels' \subseteq InChannels
  BY Constants DEF InChannels, InChannel
<1>2. (OnItsWay \cup DOMAIN delivered)' = Range(wire) \cup InChannels' \cup Arrived
  BY DEF OnItsWay, InChannels, Arrived
<1>3. OnItsWay \cup DOMAIN delivered = Range(wire) \cup InChannels \cup Arrived
  BY DEF OnItsWay, InChannels, Arrived
<1>4. \A s \in Subs : \A a \in Range(channel'[s]) : a = StreamLost \/ SubOf[a] = s
  BY DEF WayOK
<1>5. (OnItsWay \cup DOMAIN delivered)' \subseteq OnItsWay \cup DOMAIN delivered
  BY <1>1, <1>2, <1>3
<1>6. WayOK'
  BY <1>1, <1>4, <1>5 DEF WayOK
<1>7. asm' = asm => OnItsWay' \subseteq OnItsWay
  BY <1>1 DEF OnItsWay, InChannels
<1> QED BY <1>6, <1>7

(* The end of the stream leaves an error behind what is in the channels.   *)
LEMMA EndDispatchKeepsWay ==
    ASSUME TypeOK, WayOK, EndDispatch
    PROVE  WayOK' /\ OnItsWay' \subseteq OnItsWay
<1>1. offered' = offered /\ wire' = wire /\ Arrived' = Arrived /\ asm' = asm
  BY DEF EndDispatch, loop, Arrived
<1>2. ASSUME NEW s \in Subs
      PROVE  /\ Sorted(offered, channel'[s])
             /\ Range(channel'[s]) \subseteq Range(channel[s]) \cup {StreamLost}
  <2>1. channel[s] \in Seq(Items \cup {StreamLost}) /\ Sorted(offered, channel[s])
    BY QueueTypes DEF WayOK
  <2>2. channel'[s] = channel[s] \/ channel'[s] = Append(channel[s], StreamLost)
    BY DEF EndDispatch
  <2>3. CASE channel'[s] = channel[s]
    BY <2>1, <2>3
  <2>4. CASE channel'[s] = Append(channel[s], StreamLost)
    BY <2>1, <2>4, SortedAppend, AppendRange
  <2> QED BY <2>2, <2>3, <2>4
<1> QED BY <1>1, <1>2, LessOnTheWay

(* What a removed subscription had in its channel is dropped.              *)
LEMMA RemoveKeepsWay ==
    ASSUME TypeOK, WayOK, NEW r \in Subs, Remove(r)
    PROVE  WayOK' /\ OnItsWay' \subseteq OnItsWay
<1>1. offered' = offered /\ wire' = wire /\ Arrived' = Arrived /\ asm' = asm
  BY DEF Remove, loop, Arrived
<1>2. ASSUME NEW s \in Subs
      PROVE  /\ Sorted(offered, channel'[s])
             /\ Range(channel'[s]) \subseteq Range(channel[s]) \cup {StreamLost}
  <2>1. Sorted(offered, channel[s])
    BY DEF WayOK
  <2>2. channel'[s] = channel[s] \/ channel'[s] = <<>>
    BY DEF Remove, TypeOK
  <2>3. Sorted(offered, <<>>) /\ Range(<<>>) = {}
    BY DEF Sorted, Range
  <2> QED BY <2>1, <2>2, <2>3
<1> QED BY <1>1, <1>2, LessOnTheWay

(* A slice takes what is due from the assembler to the strategy.           *)
LEMMA AdvanceMoves ==
    ASSUME TypeOK, NEW next, NEW idle, Advance(next, idle)
    PROVE  /\ Arrived' = Arrived /\ offered' = offered /\ wire' = wire /\ channel' = channel
           /\ Due \subseteq asm.pending
<1>1. asm'.pending = asm.pending \ Due /\ DOMAIN delivered' = DOMAIN delivered \cup Due
  BY AdvanceTypes DEF Future
<1>2. Due \subseteq asm.pending
  BY DEF Due
<1> QED BY <1>1, <1>2 DEF Advance, Arrived, feed

(* The steps of the way: a new item, a slice, or what only moves items on  *)
(* or drops them.                                                          *)
MovesOn ==
    /\ offered' = offered /\ delivered' = delivered /\ asm'.frontier = asm.frontier
    /\ OnItsWay' \subseteq OnItsWay

(* Every step is one of them, and keeps the order.                         *)
LEMMA NextWay ==
    ASSUME TypeOK, WayOK, [Next]_vars
    PROVE  /\ WayOK'
           /\ (\E i \in Items : Offer(i)) \/ Release \/ Flush \/ MovesOn
<1>1. CASE \E i \in Items : Offer(i)
  BY <1>1, OfferKeepsWay
<1>2. CASE Dispatch
  BY <1>2, DispatchKeepsWay DEF MovesOn, Dispatch, loop
<1>3. CASE EndDispatch
  BY <1>3, EndDispatchKeepsWay DEF MovesOn, EndDispatch, loop
<1>4. ASSUME NEW s \in Subs, Take(s) PROVE WayOK' /\ MovesOn
  <2>1. asm'.frontier = asm.frontier
    BY <1>4, Types DEF Take
  <2> QED BY <1>4, <2>1, TakeKeepsWay DEF MovesOn, Take
<1>5. ASSUME NEW s \in Subs, Remove(s) PROVE WayOK' /\ MovesOn
  BY <1>5, RemoveKeepsWay DEF MovesOn, Remove, loop
<1>6. ASSUME UNCHANGED <<offered, wire, channel, Arrived>> PROVE WayOK'
  <2>1. \A s \in Subs : Sorted(offered, channel'[s])
    BY <1>6 DEF WayOK
  <2> QED BY <1>6, <2>1, LessOnTheWay
<1>7. ASSUME Release \/ Flush PROVE UNCHANGED <<offered, wire, channel, Arrived>>
  BY <1>7, AdvanceMoves DEF Release, Flush
<1>8. \/ \E i \in Items : Offer(i)
      \/ Dispatch \/ EndDispatch
      \/ \E s \in Subs : Take(s)
      \/ \E s \in Subs : Remove(s)
      \/ Release \/ Flush
      \/ UNCHANGED <<offered, wire, channel, asm, delivered>>
  BY DEF Next, Loop, SyncSubscriptions, Tick, SetBack, EndStream, TakePulse, NoPulse, Register,
         LoseStream, Subscribe, Install, Synced, Abort, vars, feed, loop
<1>9. ASSUME UNCHANGED <<offered, wire, channel, asm, delivered>>
      PROVE  UNCHANGED <<offered, wire, channel, Arrived>> /\ MovesOn
  BY <1>9 DEF Arrived, MovesOn, OnItsWay, InChannel
<1> QED BY <1>1, <1>2, <1>3, <1>4, <1>5, <1>6, <1>7, <1>8, <1>9

(* What a slice delivers was due and had not been delivered.               *)
LEMMA NextDelivered ==
    ASSUME TypeOK, WayOK, DeliveredOK, [Next]_vars
    PROVE  DeliveredOK'
<1>1. ASSUME NEW s \in Subs, Take(s) PROVE DeliveredOK'
  <2>1. PICK h : h = Head(channel[s])
    OBVIOUS
  <2>2. h \in InChannels /\ asm' = [asm EXCEPT !.pending = @ \cup {h}]
    BY <1>1, <2>1, TakeKeepsWay
  <2>3. asm'.pending = asm.pending \cup {h} /\ asm'.frontier = asm.frontier
    BY <2>2, Types
  <2>4. h \notin Arrived
    <3>1. SUFFICES ASSUME h \in Arrived PROVE FALSE
      OBVIOUS
    <3>2. Precedes(offered, h, h) /\ Distinct(offered) /\ offered \in Seq(Items)
      BY <2>2, <3>1, QueueTypes DEF WayOK
    <3> QED BY <3>2, PrecedesStrict
  <2>5. delivered' = delivered
    BY <1>1 DEF Take
  <2> QED BY <2>3, <2>4, <2>5 DEF DeliveredOK, Arrived
<1>2. ASSUME NEW next, NEW idle, Advance(next, idle) PROVE DeliveredOK'
  <2>1. /\ asm'.pending = asm.pending \ Due /\ asm'.frontier = Frontier
        /\ DOMAIN delivered' = DOMAIN delivered \cup Due
        /\ \A i \in DOMAIN delivered' :
              delivered'[i] = IF i \in Due THEN Frontier ELSE delivered[i]
    BY <1>2, AdvanceTypes DEF Future
  <2>2. asm'.pending \cap DOMAIN delivered' = {}
    BY <2>1 DEF DeliveredOK
  <2>3. /\ Frontier \in Nat /\ asm.frontier \in Nat /\ asm.frontier =< Frontier
        /\ \A i \in DOMAIN delivered : delivered[i] \in Nat
    BY Types DEF TypeOK
  <2>4. ASSUME NEW i \in DOMAIN delivered'
        PROVE  EndOf[i] =< delivered'[i] /\ delivered'[i] =< Frontier
    <3>1. CASE i \in Due
      BY <2>1, <2>3, <3>1 DEF Due
    <3>2. CASE i \notin Due
      BY <2>1, <2>3, <3>2 DEF DeliveredOK
    <3> QED BY <3>1, <3>2
  <2> QED BY <2>1, <2>2, <2>4 DEF DeliveredOK
<1>3. CASE UNCHANGED <<asm, delivered>>
  BY <1>3 DEF DeliveredOK
<1>4. \/ \E s \in Subs : Take(s)
      \/ \E next, idle : Advance(next, idle)
      \/ UNCHANGED <<asm, delivered>>
  BY DEF Next, Loop, SyncSubscriptions, Tick, SetBack, EndStream, TakePulse, NoPulse, Register,
         LoseStream, Subscribe, Install, Synced, Abort, Offer, Dispatch, EndDispatch, Remove,
         Release, Flush, vars, feed, loop
<1> QED BY <1>1, <1>2, <1>3, <1>4

(* At the start nothing is on its way.                                     *)
LEMMA InitWay == Init => WayOK /\ DeliveredOK /\ InOrder
<1> SUFFICES ASSUME Init PROVE WayOK /\ DeliveredOK /\ InOrder
  OBVIOUS
<1>1. /\ DOMAIN offered = {} /\ DOMAIN wire = {} /\ \A s \in Subs : DOMAIN channel[s] = {}
      /\ asm.pending = {} /\ DOMAIN delivered = {}
  BY DEF Init
<1>2. Range(wire) = {} /\ \A s \in Subs : Range(channel[s]) = {}
  BY <1>1 DEF Range
<1>3. InChannels = {}
  BY <1>2, Constants DEF InChannels, InChannel
<1>4. OnItsWay = {} /\ Arrived = {}
  BY <1>1, <1>2, <1>3 DEF OnItsWay, InChannels, Arrived
<1>5. Sorted(offered, wire) /\ (\A s \in Subs : Sorted(offered, channel[s])) /\ Distinct(offered)
  BY <1>1 DEF Sorted, Distinct
<1>6. WayOK
  BY <1>1, <1>2, <1>3, <1>4, <1>5 DEF WayOK
<1>7. DeliveredOK /\ InOrder
  BY <1>1 DEF DeliveredOK, InOrder
<1> QED BY <1>6, <1>7

(* InOrder, of two items instead of their places.                          *)
Overtakes(i, j) ==
    /\ SubOf[i] = SubOf[j] /\ EndOf[i] =< EndOf[j] /\ j \in DOMAIN delivered
    /\ i \in OnItsWay \/ (i \in DOMAIN delivered /\ ~(delivered[i] =< delivered[j]))

LEMMA InOrderIs == InOrder <=> \A i, j : Precedes(offered, i, j) => ~Overtakes(i, j)
BY DEF InOrder, Precedes, Overtakes

(* Every step keeps the data of a subscription in its order.               *)
LEMMA NextInOrder ==
    ASSUME TypeOK, WayOK, DeliveredOK, InOrder, [Next]_vars
    PROVE  InOrder'
<1>1. \A i, j : Precedes(offered, i, j) => ~Overtakes(i, j)
  BY InOrderIs
<1>2. SUFFICES ASSUME NEW i, NEW j, Precedes(offered', i, j), Overtakes(i, j)' PROVE FALSE
  <2>1. InOrder' <=> \A i, j : Precedes(offered', i, j) => ~Overtakes(i, j)'
    BY DEF InOrder, Precedes, Overtakes
  <2> QED BY <2>1
<1>3. ASSUME NEW k \in Items, Offer(k) PROVE FALSE
  <2>1. /\ offered \in Seq(Items) /\ offered' = Append(offered, k) /\ k \notin Range(offered)
        /\ delivered' = delivered
        /\ OnItsWay' \subseteq OnItsWay \cup {k}
    <3>1. Range(wire') = Range(wire) \cup {k}
      BY <1>3, AppendRange, QueueTypes DEF Offer
    <3> QED BY <1>3, <3>1, QueueTypes DEF Offer, OnItsWay, InChannel, loop
  <2>2. DOMAIN delivered \subseteq Range(offered)
    BY DEF WayOK
  <2>3. j # k
    BY <1>2, <2>1, <2>2 DEF Overtakes
  <2>4. Precedes(offered, i, j)
    <3>1. PICK o, p : o = offered /\ p = offered'
      OBVIOUS
    <3>2. \A a, b : Precedes(p, a, b) => Precedes(o, a, b) \/ (b = k /\ a \in Range(o))
      <4>1. Extends(o, p, k)
        BY <1>3, <2>1, <3>1 DEF Extends
      <4> QED BY <4>1, OfferedLast
    <3> QED BY <1>2, <2>3, <3>1, <3>2
  <2>5. i # k
    BY <2>1, <2>4 DEF Precedes, Range
  <2> QED BY <1>1, <1>2, <2>1, <2>4, <2>5 DEF Overtakes
<1>4. CASE MovesOn
  BY <1>1, <1>2, <1>4 DEF MovesOn, Overtakes
<1>5. ASSUME NEW next, NEW idle, Advance(next, idle) PROVE FALSE
  <2>1. /\ asm'.pending = asm.pending \ Due /\ Due \subseteq asm.pending
        /\ DOMAIN delivered' = DOMAIN delivered \cup Due
        /\ \A x \in DOMAIN delivered' :
              delivered'[x] = IF x \in Due THEN Frontier ELSE delivered[x]
        /\ offered' = offered /\ wire' = wire /\ channel' = channel
    BY <1>5, AdvanceTypes, AdvanceMoves DEF Future
  <2>2. /\ OnItsWay = Range(wire) \cup InChannels \cup asm.pending
        /\ OnItsWay' = Range(wire) \cup InChannels \cup (asm.pending \ Due)
    BY <2>1 DEF OnItsWay, InChannels, InChannel
  <2>3. /\ Precedes(offered, i, j) /\ ~Overtakes(i, j)
        /\ SubOf[i] = SubOf[j] /\ EndOf[i] =< EndOf[j] /\ j \in DOMAIN delivered'
        /\ i \in OnItsWay' \/ (i \in DOMAIN delivered' /\ ~(delivered'[i] =< delivered'[j]))
    BY <1>1, <1>2, <2>1 DEF Overtakes
  <2>4. CASE j \in DOMAIN delivered
    <3>1. i \notin OnItsWay /\ (i \in DOMAIN delivered => delivered[i] =< delivered[j])
      BY <2>3, <2>4 DEF Overtakes
    <3>2. i \notin OnItsWay' /\ i \notin Due
      BY <2>1, <2>2, <3>1
    <3>3. j \notin Due
      BY <2>1, <2>4 DEF DeliveredOK
    <3> QED BY <2>1, <2>3, <2>4, <3>1, <3>2, <3>3
  <2>5. CASE j \in Due
    <3>1. /\ j \in Arrived /\ j \in Items /\ Arrived \subseteq Items
          /\ ~Precedes(offered, j, i)
      BY <2>1, <2>3, <2>5, PrecedesStrict, QueueTypes DEF Arrived, WayOK
    <3>2. i \notin Range(wire) /\ i \notin InChannels
      BY <2>3, <3>1 DEF WayOK
    <3>3. i \in Items => EndOf[i] \in Int
      BY Constants
    <3>4. i \in asm.pending => i \in Due
      <4>1. SUFFICES ASSUME i \in asm.pending PROVE EndOf[i] =< Frontier
        BY DEF Due
      <4>2. i \in Items /\ EndOf[i] \in Int /\ EndOf[j] \in Int /\ Frontier \in Int
        BY <3>1, <4>1, Types, Constants
      <4>3. EndOf[j] =< Frontier
        BY <2>5 DEF Due
      <4> QED BY <2>3, <4>2, <4>3
    <3>5. i \notin OnItsWay'
      BY <2>2, <3>2, <3>4
    <3>6. i \in DOMAIN delivered' => delivered'[i] =< Frontier
      <4>1. CASE i \in Due
        BY <2>1, <4>1, Types
      <4>2. ASSUME i \notin Due, i \in DOMAIN delivered' PROVE delivered'[i] =< Frontier
        <5>1. delivered'[i] = delivered[i] /\ i \in DOMAIN delivered
          BY <2>1, <4>2
        <5>2. delivered[i] \in Nat /\ delivered[i] =< asm.frontier
          BY <5>1 DEF DeliveredOK, TypeOK
        <5> QED BY <5>1, <5>2, Types
      <4> QED BY <4>1, <4>2
    <3>7. delivered'[j] = Frontier
      BY <2>1, <2>3, <2>5
    <3> QED BY <2>3, <3>5, <3>6, <3>7
  <2> QED BY <2>1, <2>3, <2>4, <2>5
<1> QED BY <1>3, <1>4, <1>5, NextWay DEF Release, Flush

(* What holds of the items throughout.                                     *)
FeedOK == TypeOK /\ WayOK /\ DeliveredOK /\ InOrder

LEMMA FeedHolds == Spec => []FeedOK
<1>1. Init => FeedOK
  BY InitTypes, InitWay DEF FeedOK
<1>2. FeedOK /\ [Next]_vars => FeedOK'
  <2> SUFFICES ASSUME FeedOK, [Next]_vars PROVE FeedOK'
    OBVIOUS
  <2> QED BY NextTypes, NextWay, NextDelivered, NextInOrder DEF FeedOK
<1> QED BY <1>1, <1>2, PTL DEF Spec

(* The data of a subscription is delivered in the order in which it was    *)
(* offered: InOrder of LiveFeed.                                           *)
THEOREM DataComesInOrder == Spec => []InOrder
<1>1. FeedOK => InOrder
  BY DEF FeedOK
<1> QED BY <1>1, FeedHolds, PTL

(* The feed implements LiveDelivery: DeliverySpec of LiveFeed.  An item is *)
(* gone when it is on its way no more and has not been delivered.          *)
Gone == Range(offered) \ (OnItsWay \cup DOMAIN delivered)

(* It starts as LiveDelivery does.                                         *)
LEMMA InitDelivery == Init => Delivery!Init
<1> SUFFICES ASSUME Init PROVE Delivery!Init
  OBVIOUS
<1>1. DOMAIN offered = {} /\ delivered = [i \in {} |-> 0] /\ asm.frontier = 0
  BY DEF Init
<1>2. Range(offered) = {}
  BY <1>1 DEF Range
<1> QED BY <1>1, <1>2 DEF Delivery!Init

(* Every step of the feed is one of LiveDelivery, or none.                 *)
LEMMA NextDelivery ==
    ASSUME FeedOK, FeedOK', [Next]_vars
    PROVE  [Delivery!Next]_Delivery!vars
<1>1. FeedOK /\ WayOK /\ DeliveredOK /\ TypeOK
  BY DEF FeedOK
<1>2. OnItsWay \cup DOMAIN delivered \subseteq Range(offered)
  BY <1>1 DEF WayOK
<1>3. ASSUME NEW i \in Items, Offer(i) PROVE Delivery!Offer(i)
  <2>1. /\ Range(offered') = Range(offered) \cup {i} /\ i \notin Range(offered)
        /\ Range(wire') = Range(wire) \cup {i}
    BY <1>1, <1>3, AppendRange, QueueTypes DEF Offer
  <2>2. channel' = channel /\ asm' = asm /\ delivered' = delivered
    BY <1>3 DEF Offer, loop
  <2>3. OnItsWay' = OnItsWay \cup {i}
    BY <2>1, <2>2 DEF OnItsWay, InChannel
  <2>4. Gone' = Gone
    BY <1>2, <2>1, <2>2, <2>3 DEF Gone
  <2> QED BY <2>1, <2>2, <2>4 DEF Delivery!Offer, Gone
<1>4. ASSUME MovesOn PROVE Delivery!Lose
  <2>1. /\ offered' = offered /\ delivered' = delivered /\ asm'.frontier = asm.frontier
        /\ OnItsWay' \subseteq OnItsWay
    BY <1>4 DEF MovesOn
  <2>2. Gone' = Gone \cup (Gone' \ Gone)
    BY <2>1 DEF Gone
  <2>3. Gone' \ Gone \subseteq Delivery!OnTheWay
    BY <2>1 DEF Gone, Delivery!OnTheWay
  <2> QED BY <2>1, <2>2, <2>3 DEF Delivery!Lose, Gone
<1>5. ASSUME NEW next, NEW idle, Advance(next, idle)
      PROVE  Delivery!Deliver(Due) /\ Due \in SUBSET Delivery!OnTheWay
  <2>1. /\ asm'.pending = asm.pending \ Due /\ asm'.frontier = Frontier
        /\ Due \subseteq asm.pending
        /\ DOMAIN delivered' = DOMAIN delivered \cup Due
        /\ offered' = offered /\ wire' = wire /\ channel' = channel
    BY <1>1, <1>5, AdvanceTypes, AdvanceMoves DEF Future
  <2>2. Due \subseteq Delivery!OnTheWay
    BY <1>1, <1>2, <2>1 DEF Delivery!OnTheWay, DeliveredOK, OnItsWay
  <2>3. Gone' = Gone
    BY <2>1 DEF Gone, OnItsWay, InChannel
  <2>4. Frontier \in Nat /\ Frontier >= asm.frontier
    BY <1>1, Types
  <2>5. delivered' = [i \in DOMAIN delivered \cup Due |->
                          IF i \in Due THEN Frontier ELSE delivered[i]]
    <3>1. delivered = [i \in DOMAIN delivered |-> delivered[i]]
      BY <1>1 DEF TypeOK
    <3>2. CASE Due = {}
      BY <1>5, <3>1, <3>2 DEF Advance
    <3>3. CASE Due # {}
      BY <1>5, <3>3 DEF Advance
    <3> QED BY <3>2, <3>3
  <2>6. \A i \in Due : EndOf[i] =< Frontier
    BY DEF Due
  <2> QED BY <2>1, <2>2, <2>3, <2>4, <2>5, <2>6 DEF Delivery!Deliver, Gone
<1>6. (\E i \in Items : Offer(i)) \/ Release \/ Flush \/ MovesOn
  BY <1>1, NextWay
<1> QED BY <1>3, <1>4, <1>5, <1>6 DEF Release, Flush, Delivery!Next

(* What the feed promises, it keeps: every item is delivered at most once, *)
(* never early, in slices whose times do not go back, and what was lost    *)
(* does not reappear.                                                      *)
THEOREM FeedDelivers == Spec => DeliverySpec
<1>1. Init => Delivery!Init
  BY InitDelivery
<1>2. FeedOK /\ FeedOK' /\ [Next]_vars => [Delivery!Next]_Delivery!vars
  BY NextDelivery
<1> QED BY <1>1, <1>2, FeedHolds, PTL DEF Spec, DeliverySpec, Delivery!Spec

---------------------------------------------------------------------------
(* The bars that are repeated.                                             *)

(* The bars of a subscription end a whole number of resolutions apart.     *)
BarsOnGrid ==
    \A i, j \in Items :
        SubOf[i] = SubOf[j] /\ SubOf[i] \in FillForward =>
            \E k \in Int : EndOf[i] = EndOf[j] + k * Period[SubOf[i]]

(* A bar remembered is one of the subscription's.                          *)
MemoryOK ==
    \A s \in Subs :
        asm.memory[s] # None => \E i \in Items : SubOf[i] = s /\ EndOf[i] = asm.memory[s]

(* The bars of a slice are there only between its release and the end of   *)
(* the iteration.                                                          *)
SliceOK == pc \in {"top", "poll"} => DOMAIN slice = {}

(* The last boundary of a grid is not before any other that has come.      *)
LEMMA LastBoundary ==
    ASSUME NEW from \in Int, NEW period \in Nat \ {0}, NEW time \in Int, NEW k \in Int,
           from + k * period =< time
    PROVE  from + k * period =< from + ((time - from) \div period) * period
<1>1. PICK n : n = (time - from) \div period
  OBVIOUS
<1>2. n \in Int /\ n * period \in Int /\ time - from < n * period + period
  BY <1>1, DivBounds
<1>3. k * period \in Int /\ k * period < n * period + period
  BY <1>2, ProductGrows
<1>4. (n + 1) * period = n * period + period
  BY <1>2
<1>5. k < n + 1
  BY <1>2, <1>3, <1>4, ProductGrows
<1>6. k * period =< n * period
  BY <1>2, <1>3, <1>5, ProductGrows
<1> QED BY <1>1, <1>2, <1>3, <1>6

(* What is remembered after a slice is still a bar of the subscription.    *)
LEMMA RememberedIsABar ==
    ASSUME TypeOK, MemoryOK, NEW s \in Subs, Remembered(s) # None
    PROVE  \E i \in Items : SubOf[i] = s /\ EndOf[i] = Remembered(s)
<1>1. CASE Remembered(s) = Assembler.memory[s]
  BY <1>1, AssemblerTypes DEF MemoryOK
<1>2. CASE \E i \in DueOf(s) : Remembered(s) = EndOf[i]
  BY <1>2, Types DEF DueOf, Due
<1> QED BY <1>1, <1>2, RememberedIs

(* The bars repeated in a new slice are as they should be.                 *)
LEMMA NewFillsCurrent ==
    ASSUME FeedOK, MemoryOK, BarsOnGrid, NEW next, NEW idle, Advance(next, idle), Due # {}
    PROVE  FillsCurrent'
<1>1. /\ TypeOK /\ WayOK /\ DeliveredOK
  BY DEF FeedOK
<1>2. /\ slice' = SliceBars /\ clock' = Frontier /\ asm'.fills = Assembler.fills
      /\ DOMAIN delivered' = DOMAIN delivered \cup Due
      /\ \A i \in DOMAIN delivered' :
            delivered'[i] = IF i \in Due THEN Frontier ELSE delivered[i]
  BY <1>1, AdvanceTypes DEF Advance
<1>3. ASSUME NEW s \in DOMAIN slice', slice'[s].filled
      PROVE  /\ s \in asm'.fills
             /\ slice'[s].end =< clock' /\ slice'[s].end > clock' - Period[s]
             /\ \A i \in DOMAIN delivered' :
                   delivered'[i] = clock' /\ SubOf[i] = s => EndOf[i] =< slice'[s].end
  <2>1. s \in Subs /\ DueOf(s) = {} /\ Filled(s) /\ slice'[s].end = FillEnd(s)
    BY <1>2, <1>3 DEF SliceBars
  <2>2. s \in Assembler.fills /\ s \in FillForward
    BY <1>1, <2>1, AssemblerTypes DEF Filled
  <2>3. /\ Remembered(s) \in Int /\ Remembered(s) # None /\ Remembered(s) < Frontier
        /\ Frontier \in Int /\ Period[s] \in Nat \ {0}
    BY <1>1, <2>1, RememberedIs, Types, Constants DEF Filled
  <2>4. PICK from, period, n :
            /\ from = Remembered(s) /\ period = Period[s]
            /\ n = (Frontier - from) \div period
    OBVIOUS
  <2>5. FillEnd(s) = from + n * period
    BY <2>4 DEF FillEnd
  <2>6. /\ n * period \in Int /\ n * period =< Frontier - from
        /\ Frontier - from < n * period + period
    <3>1. Frontier - from \in Int /\ period \in Nat \ {0}
      BY <2>3, <2>4
    <3> QED BY <2>4, <3>1, DivBounds
  <2>7. FillEnd(s) =< Frontier /\ FillEnd(s) > Frontier - Period[s]
    BY <2>3, <2>4, <2>5, <2>6
  <2>8. ASSUME NEW i \in DOMAIN delivered', delivered'[i] = Frontier, SubOf[i] = s
        PROVE  EndOf[i] =< FillEnd(s)
    <3>1. i \notin Due
      BY <2>1, <2>8 DEF DueOf
    <3>2. i \in DOMAIN delivered /\ delivered[i] = Frontier /\ i \in Items
      BY <1>1, <1>2, <2>8, <3>1 DEF TypeOK
    <3>3. EndOf[i] =< Frontier
      BY <1>1, <3>2 DEF DeliveredOK
    <3>4. PICK j \in Items : SubOf[j] = s /\ EndOf[j] = from
      BY <1>1, <2>1, <2>3, <2>4, RememberedIsABar
    <3>5. PICK k \in Int : EndOf[i] = from + k * period
      BY <2>2, <2>4, <2>8, <3>2, <3>4 DEF BarsOnGrid
    <3>6. from + k * period =< from + ((Frontier - from) \div period) * period
      BY <2>3, <2>4, <3>3, <3>5, LastBoundary
    <3> QED BY <2>4, <2>5, <3>5, <3>6
  <2> QED BY <1>2, <2>1, <2>2, <2>7, <2>8
<1> QED BY <1>3 DEF FillsCurrent

(* Every step keeps the bars that are repeated as they should be.          *)
FillsOK == MemoryOK /\ SliceOK /\ FillsCurrent

LEMMA NextFills ==
    ASSUME FeedOK, BarsOnGrid, FillsOK, [Next]_vars
    PROVE  FillsOK'
<1>1. TypeOK /\ MemoryOK /\ SliceOK /\ FillsCurrent
  BY DEF FeedOK, FillsOK
<1>2. ASSUME NEW next \in {"sync", "last sync"}, NEW idle \in {"top", "stopped"},
             pc \in {"top", "poll"}, Advance(next, idle)
      PROVE  FillsOK'
  <2>1. MemoryOK'
    <3>1. \A s \in Subs : asm'.memory[s] = Remembered(s)
      BY <1>1, <1>2, AdvanceTypes
    <3>2. ASSUME NEW s \in Subs, asm'.memory[s] # None
          PROVE  \E i \in Items : SubOf[i] = s /\ EndOf[i] = asm'.memory[s]
      BY <1>1, <3>1, <3>2, RememberedIsABar
    <3> QED BY <3>2 DEF MemoryOK
  <2>2. CASE Due = {}
    <3>1. DOMAIN slice' = {}
      BY <1>1, <1>2, <2>2 DEF Advance, SliceOK
    <3> QED BY <2>1, <3>1 DEF FillsOK, SliceOK, FillsCurrent
  <2>3. CASE Due # {}
    <3>1. SliceOK'
      BY <1>2, <2>3 DEF Advance, SliceOK
    <3> QED BY <1>1, <1>2, <2>1, <2>3, <3>1, NewFillsCurrent DEF FillsOK
  <2> QED BY <2>2, <2>3
<1>3. ASSUME pc \in {"top", "poll"}, slice' = slice, asm'.memory = asm.memory
      PROVE  FillsOK'
  <2>1. DOMAIN slice' = {}
    BY <1>1, <1>3 DEF SliceOK
  <2>2. MemoryOK'
    BY <1>1, <1>3 DEF MemoryOK
  <2> QED BY <2>1, <2>2 DEF FillsOK, SliceOK, FillsCurrent
<1>4. ASSUME asm' = asm, DOMAIN slice' = {}
      PROVE  FillsOK'
  BY <1>1, <1>4 DEF FillsOK, MemoryOK, SliceOK, FillsCurrent
<1>5. ASSUME UNCHANGED <<slice, asm, clock, delivered>>, pc' = pc \/ pc' = "stopped"
      PROVE  FillsOK'
  BY <1>1, <1>5 DEF FillsOK, MemoryOK, SliceOK, FillsCurrent
<1>6. ASSUME NEW s \in Subs, Take(s) PROVE FillsOK'
  BY <1>1, <1>3, <1>6, Types DEF Take
<1>7. CASE Release \/ Flush
  BY <1>2, <1>7 DEF Release, Flush
<1>8. CASE TakePulse \/ NoPulse
  BY <1>3, <1>8 DEF TakePulse, NoPulse
<1>9. CASE Synced
  BY <1>4, <1>9 DEF Synced
<1>10. \/ \E s \in Subs : Take(s)
       \/ Release \/ Flush \/ TakePulse \/ NoPulse \/ Synced
       \/ UNCHANGED <<slice, asm, clock, delivered>> /\ (pc' = pc \/ pc' = "stopped")
  BY DEF Next, Loop, SyncSubscriptions, Tick, SetBack, EndStream, Register,
         LoseStream, Subscribe, Install, Abort, Offer, Dispatch, EndDispatch, Remove,
         vars, feed, loop
<1> QED BY <1>5, <1>6, <1>7, <1>8, <1>9, <1>10

(* There is nothing to repeat at the start.                                *)
LEMMA InitFills == Init => FillsOK
BY DEF Init, FillsOK, MemoryOK, SliceOK, FillsCurrent

(* A bar repeated in a slice is of a subscription the algorithm had, ended *)
(* at the last boundary of its resolution, and is not older than a real    *)
(* one the strategy has seen at that time: FillsCurrent of LiveFeed, where *)
(* the bars of a subscription lie on the grid of its resolution.  Else,    *)
(* after a removal and a new subscription at the same time, a bar older    *)
(* than the last one delivered may be the one that is repeated.            *)
THEOREM FillsStayCurrent == BarsOnGrid => (Spec => []FillsCurrent)
<1> SUFFICES ASSUME BarsOnGrid PROVE Spec => []FillsCurrent
  OBVIOUS
<1>1. Init => FillsOK
  BY InitFills
<1>2. FeedOK /\ FillsOK /\ [Next]_vars => FillsOK'
  BY NextFills
<1>3. FillsOK => FillsCurrent
  BY DEF FillsOK
<1> QED BY <1>1, <1>2, <1>3, FeedHolds, PTL DEF Spec
=============================================================================
