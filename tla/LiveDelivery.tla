---------------------------- MODULE LiveDelivery ----------------------------
(***************************************************************************)
(* What the live feed promises about the data a provider offers: an item   *)
(* is delivered at most once, never before its own time, in slices whose   *)
(* times do not go back; it may be lost, and is then never delivered.      *)
(***************************************************************************)
EXTENDS Integers

CONSTANTS Items, EndOf

VARIABLES offered, gone, delivered, frontier
vars == <<offered, gone, delivered, frontier>>

Init ==
    /\ offered = {} /\ gone = {}
    /\ delivered = [i \in {} |-> 0]
    /\ frontier = 0

OnTheWay == offered \ (gone \cup DOMAIN delivered)

Offer(i) ==
    /\ i \notin offered
    /\ offered' = offered \cup {i}
    /\ UNCHANGED <<gone, delivered, frontier>>

Lose ==
    /\ \E items \in SUBSET OnTheWay : gone' = gone \cup items
    /\ UNCHANGED <<offered, delivered, frontier>>

(* One slice, at a time not before the last one; it may be empty.          *)
Deliver(items) ==
    /\ items \subseteq OnTheWay
    /\ frontier' \in Nat /\ frontier' >= frontier
    /\ \A i \in items : EndOf[i] =< frontier'
    /\ delivered' = [i \in DOMAIN delivered \cup items |->
                        IF i \in items THEN frontier' ELSE delivered[i]]
    /\ UNCHANGED <<offered, gone>>

Next ==
    \/ \E i \in Items : Offer(i)
    \/ Lose
    \/ \E items \in SUBSET OnTheWay : Deliver(items)

Spec == Init /\ [][Next]_vars
=============================================================================
