------------------------------ MODULE ExitPlan ------------------------------
(***************************************************************************)
(* The staged take-profit plan of a local paper position                   *)
(* (scripts/steve_trade_bot.py, exit_plan_for_contracts) and the order in  *)
(* which the exit manager walks it                                         *)
(* (scripts/option_validation.py, apply_human_exit_rules_once).            *)
(*                                                                         *)
(* A tranche sells some contracts when the option has gained at least      *)
(* "take" percent over the entry price.  Prices are percent moves from the *)
(* entry: take_price and take_percent are the same number here.            *)
(***************************************************************************)
EXTENDS Integers, Sequences

DefaultTakePercent == 80
RunnerTakePercents == <<120, 200>>

Tranche(take, contracts) == [take |-> take, contracts |-> contracts]

\* Half at the first target, half of the rest at the second, what is left at
\* the third; a half that rounds to nothing takes the whole rest instead.
ExitPlanForContracts(contracts, first) ==
  LET half   == contracts \div 2
      rest   == contracts - half
      second == IF rest \div 2 < 1 THEN rest ELSE rest \div 2
      third  == rest - second
  IN  IF contracts = 1
      THEN <<Tranche(first, 1)>>
      ELSE IF third > 0
           THEN <<Tranche(first, half), Tranche(RunnerTakePercents[1], second),
                  Tranche(RunnerTakePercents[2], third)>>
           ELSE <<Tranche(first, half), Tranche(RunnerTakePercents[1], second)>>

-----------------------------------------------------------------------------
(* The rules walk the tranches sorted by take percent (Python's sort is     *)
(* stable) and aim at the cumulative number of contracts.                   *)

WalkedBefore(plan, j, k) ==
  \/ plan[j].take < plan[k].take
  \/ plan[j].take = plan[k].take /\ j <= k

Share(plan, j, k) ==
  IF j \in DOMAIN plan /\ WalkedBefore(plan, j, k) THEN plan[j].contracts ELSE 0

\* cumulative_target_contracts when the walk has come to tranche k
LadderTarget(plan, k) == Share(plan, 1, k) + Share(plan, 2, k) + Share(plan, 3, k)

\* What the plan sells in all.
PlanTotal(plan) ==
  LET Sells(j) == IF j \in DOMAIN plan THEN plan[j].contracts ELSE 0
  IN  Sells(1) + Sells(2) + Sells(3)

=============================================================================
