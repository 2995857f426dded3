---------------------------- MODULE MCFramework ----------------------------
(* Two alpha models, one of which replays its signals, over one or two     *)
(* symbols.  Portfolio construction has a cadence of two time steps.       *)
EXTENDS Framework

CONSTANTS momentum, news

MCPeriod == [m \in {momentum, news} |-> IF m = momentum THEN 2 ELSE 1]

MCNextRebalance == [t \in 1..MaxTime |-> t + 2]

=============================================================================
