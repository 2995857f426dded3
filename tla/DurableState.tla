---------------------------- MODULE DurableState ----------------------------
(***************************************************************************)
(* What a run is promised of its saved state: snapshots of it are saved in *)
(* the order in which they were taken, none twice and none partly.  When   *)
(* the run ends, or can no longer save and goes on for a while, those not  *)
(* saved are lost, and the next run goes on from a saved one, if saved     *)
(* states are read fresh from the one saved last.                          *)
(***************************************************************************)
EXTENDS Sequences

CONSTANTS States, Fresh

VARIABLES phase, current, queue, saved   \* saved: all that were, in order
vars == <<phase, current, queue, saved>>

Init ==
    /\ phase = "saving"
    /\ current \in States /\ saved = <<current>>
    /\ queue = <<>>

Work ==
    /\ phase # "down"
    /\ current' \in States
    /\ UNCHANGED <<phase, queue, saved>>

Snapshot ==
    /\ phase = "saving"
    /\ queue' = Append(queue, current)
    /\ UNCHANGED <<phase, current, saved>>

Save ==
    /\ phase = "saving"
    /\ queue # <<>>
    /\ saved' = Append(saved, Head(queue))
    /\ queue' = Tail(queue)
    /\ UNCHANGED <<phase, current>>

(* The first one may have been saved all the same.                         *)
Lose ==
    /\ phase = "saving" /\ phase' = "lost"
    /\ queue' = <<>>
    /\ saved' \in {saved} \cup {Append(saved, queue[n]) : n \in DOMAIN queue \cap {1}}
    /\ UNCHANGED current

End ==
    /\ phase # "down" /\ phase' = "down"
    /\ queue' = <<>>
    /\ UNCHANGED <<current, saved>>

Recover ==
    /\ phase = "down" /\ phase' = "saving"
    /\ \E n \in DOMAIN saved : current' = saved[n] /\ (Fresh => n = Len(saved))
    /\ UNCHANGED <<queue, saved>>

Next == Work \/ Snapshot \/ Save \/ Lose \/ End \/ Recover

Spec == Init /\ [][Next]_vars
=============================================================================
