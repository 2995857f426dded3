------------------------------ MODULE Schedule ------------------------------
(***************************************************************************)
(* Scheduled events: ScheduleManager.  An event has a rule that names at   *)
(* most one trigger time per date; a scan returns the triggers that have   *)
(* come since the event was last evaluated.                                *)
(*                                                                         *)
(* Time is counted in ticks, of which a date has DayTicks.                 *)
(***************************************************************************)
EXTENDS Integers, FiniteSets

CONSTANTS
    Events,    \* the scheduled events, numbered in the order of registration
    Rules,     \* their rules: [kind, ticks, dates]
    DayTicks,  \* length of a date
    MaxTime    \* bound: the last instant

Dates == -1..(MaxTime \div DayTicks + 1)

(* "At": `ticks` from the start of the date.  It may lie on the date before *)
(* or the date after, as the close of a session in another time zone does. *)
(* "Every": an interval of `ticks`.                                        *)
Rule == [kind : {"At"}, ticks : (-DayTicks)..(2 * DayTicks - 1), dates : SUBSET Dates]
        \cup [kind : {"Every"}, ticks : 1..DayTicks, dates : SUBSET Dates]

ASSUME EventsAreNumbers == Events \subseteq Nat /\ IsFiniteSet(Events)
ASSUME TimeAssumption == DayTicks \in Nat \ {0} /\ MaxTime \in Nat
ASSUME RulesAssumption == Rules \in [Events -> Rule]

DateOf(time) == time \div DayTicks

(* trigger_time                                                            *)
TriggerTime(rule, date) ==
    IF rule.kind = "At" THEN date * DayTicks + rule.ticks
    ELSE ((date * DayTicks) \div rule.ticks) * rule.ticks

(* The dates trigger_times looks at.  Fault: those between the two scans.  *)
DatesBetween(after, through) == DateOf(after)..DateOf(through)

DatesScanned(after, through) == (DateOf(after) - 1)..(DateOf(through) + 1)

(* trigger_times, with the date each trigger belongs to.                   *)
TriggerTimes(event, after, through) ==
    {[event |-> event, date |-> date, time |-> TriggerTime(Rules[event], date)] :
        date \in {d \in DatesScanned(after, through) \cap Rules[event].dates :
                     /\ TriggerTime(Rules[event], d) > after
                     /\ TriggerTime(Rules[event], d) =< through}}

(* A manager: the registered events, the time up to which each has been    *)
(* evaluated, and the frontier a new event starts from.                    *)
IsSchedule(s) ==
    s \in [registered : SUBSET Events, evaluated : [Events -> Int], frontier : Int]

AddEvent(s, event) ==
    [s EXCEPT !.registered = @ \cup {event}, !.evaluated[event] = s.frontier]

SkipUntil(s, time) ==
    [s EXCEPT !.frontier = time,
              !.evaluated = [event \in Events |-> IF event \in s.registered THEN time ELSE @[event]]]

(* due_events: what is due ...                                             *)
DueEvents(s, time) ==
    UNION {TriggerTimes(event, s.evaluated[event], time) :
              event \in {e \in s.registered : time > s.evaluated[e]}}

(* ... and the manager after it.                                           *)
Scanned(s, time) ==
    [s EXCEPT !.frontier = time,
              !.evaluated = [event \in Events |->
                  IF event \in s.registered /\ time > @[event] THEN time ELSE @[event]]]
=============================================================================
