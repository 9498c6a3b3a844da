-------------------------- MODULE MCQuoteTracking ---------------------------
(* Options entered at 100.  From there 103 is no move of 5 %, 106 is, and from  *)
(* 103 it is none; 103 is a target of the local position; 60 is a loss of more  *)
(* than 35 %.                                                                   *)
EXTENDS QuoteTracking

MCPrices == {60, 100, 103, 106}
MCEntryPrice == [p \in Positions |-> 100]
MCSellsAt == [p \in Positions |-> {103}]
MCMilestones == {-35}

=============================================================================
