--------------------------- MODULE MCBacktestStep ---------------------------
(* BacktestStep on small instances.                                        *)
EXTENDS BacktestStep, TLC

CONSTANTS spy

Of(aKind, quantity) == [symbol |-> spy, quantity |-> quantity, kind |-> aKind]

(* A market order, a second order, and one id left for a closing order.     *)
MCMenu ==
    [id \in 1..3 |-> CASE id = 1 -> {Of("Market", 2)}
                       [] id = 2 -> {Of(aKind, -1) : aKind \in {"Limit", "Stop", "Market"}}
                       [] id = 3 -> {}]

(* An order that every slice with data fills, and one id left.             *)
MCShortMenu ==
    [id \in 1..2 |-> IF id = 1 THEN {Of(aKind, 2) : aKind \in {"Market", "MarketOnOpen"}}
                               ELSE {Of("Limit", -1)}]
=============================================================================
