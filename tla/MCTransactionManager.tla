------------------------ MODULE MCTransactionManager ------------------------
(* TransactionManager on small instances: two orders, two symbols.         *)
EXTENDS TransactionManager, TLC

CONSTANTS order1, order2, spy, qqq, broker1

MCOrderIds   == {order1, order2}
MCSymbols    == {spy, qqq}
MCBrokerIds  == {broker1}
MCQuantities == {-1, 2}

(* Nothing in the store depends on which order or symbol it is.            *)
MCSymmetry == Permutations(MCOrderIds) \cup Permutations(MCSymbols)

(* A two-for-one split (LEAN factor 1/2) and its reverse.                  *)
TwoForOne == [num |-> 1, den |-> 2]
OneForTwo == [num |-> 2, den |-> 1]
MCSplits  == {TwoForOne, OneForTwo}
=============================================================================
