----------------------------- MODULE MCLiveFeed -----------------------------
(* LiveFeed on a small instance: bars of spy, one of them sent ahead of    *)
(* its time, and a custom row that may be too old when it arrives.         *)
EXTENDS LiveFeed, TLC

CONSTANTS spy, tide, early, late, row

MCSubOf == early :> spy @@ late :> spy @@ row :> tide
MCEndOf == early :> 2 @@ late :> 0 @@ row :> 1
MCWishes == {{tide}, {spy, tide}}
MCSwaps == {{spy}, {tide}}   \* every subscription may be replaced
MCOpenAt == {-2, 0}
MCPeriod == [s \in {spy, tide} |-> 2]

(* An event whose trigger for a date lies on the date before.              *)
MCRules == 1 :> [kind |-> "At", ticks |-> -1, dates |-> Dates]
=============================================================================
