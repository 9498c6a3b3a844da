----------------------------- MODULE MCRiskGuard -----------------------------
(***************************************************************************)
(* RiskGuard on four alerts, two of them on one ticker, two in one message. *)
(***************************************************************************)
EXTENDS RiskGuard

ThreeTickers == [a \in Alerts |-> IF a = 2 THEN 1 ELSE a]
TwoInOne == [a \in Alerts |-> IF a = 3 THEN 2 ELSE a]
BothSides == [a \in Alerts |-> IF a = 2 THEN "short" ELSE "buy"]
AllPass == [a \in Alerts |-> "passes"]
TestRows == {r \in DecisionRows : r.alert \in TestAlerts}

=============================================================================
