------------------------ MODULE MCLiveBrokerageRouter ------------------------
(* LiveBrokerageRouter on small instances.  Engine ids are numbers: their  *)
(* order is the order in which a pass visits them.                         *)
EXTENDS LiveBrokerageRouter, TLC

CONSTANTS spy, qqq, wire1, wire2, wire3

Market(symbol, quantity) == [symbol |-> symbol, quantity |-> quantity, marketOnOpen |-> FALSE]
AtOpen(symbol, quantity) == [Market(symbol, quantity) EXCEPT !.marketOnOpen = TRUE]

(* A position in spy; the first order sells it, the second buys qqq.       *)
MCHoldings == [symbol \in {spy, qqq} |-> IF symbol = spy THEN 2 ELSE 0]
MCSell     == [id \in {1} |-> {Market(spy, -2)}]
MCSellBuy  == [id \in {1, 2} |-> IF id = 1 THEN {Market(spy, -2), AtOpen(spy, -2)}
                                             ELSE {Market(qqq, 1)}]
MCTwo      == [id \in {1, 2} |-> IF id = 1 THEN {Market(spy, -2)} ELSE {Market(spy, 1)}]
MCUnpriced == {spy}
MCNone     == {}
MCNoAccountOrders == [w \in {} |-> {}]

(* An order of an earlier session, in the account and in the store.        *)
MCOldSell == [w \in {wire1} |-> [symbol |-> spy, quantity |-> -2, filled |-> 0,
                                 status |-> "Submitted", number |-> 1]]

(* A filled order of yesterday, still listed, whose number is that of a new *)
(* engine order for another symbol.                                        *)
MCNamesake == [w \in {wire3} |-> [symbol |-> qqq, quantity |-> 1, filled |-> 1,
                                  status |-> "Filled", number |-> 1]]

(* The adapter lists an order under a number of the brokerage's, or under   *)
(* the engine's id where it can.                                           *)
MCTheirNumbers == [id \in OrderIds |-> {0}]
MCEitherNumber == [id \in OrderIds |-> {0, id}]

MCWires == Permutations({wire1, wire2})
=============================================================================
