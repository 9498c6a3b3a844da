-------------------------- MODULE PaperExits_proofs --------------------------
(***************************************************************************)
(* Theorems about ExitPlan: for every number of contracts the staged plan  *)
(* sells exactly the position, no tranche is empty, and every rung of the  *)
(* walk stays within it.  Theorems about PaperExits, for any number of     *)
(* processes: type correctness; that neither the local ledger nor the      *)
(* broker sells more than a position holds, but for positions that two     *)
(* processes handled at the same time; and that PaperExits implements      *)
(* ExitLedger.                                                             *)
(***************************************************************************)
EXTENDS PaperExits, TLAPS

-----------------------------------------------------------------------------
(* The plan                                                                *)

\* Halves of a position of at least two contracts: both halves are positive and
\* the rest is no larger than the position.
LEMMA HalfBounds ==
  ASSUME NEW n \in Nat, n > 1
  PROVE  /\ n \div 2 \in Nat
         /\ 0 < n \div 2
         /\ n \div 2 < n
         /\ 2 * (n \div 2) <= n
  BY SMT

\* What exit_plan_for_contracts returns: a sequence of one to three tranches with
\* natural targets and at least one contract each.
THEOREM PlanTranches ==
  ASSUME NEW n \in Nat \ {0}, NEW first \in Nat
  PROVE  LET plan == ExitPlanForContracts(n, first)
         IN  /\ DOMAIN plan \subseteq 1..3
             /\ \A k \in DOMAIN plan : /\ plan[k].take \in Nat
                                       /\ plan[k].contracts \in Nat \ {0}
<1> DEFINE half   == n \div 2
           rest   == n - half
           second == IF rest \div 2 < 1 THEN rest ELSE rest \div 2
           third  == rest - second
<1>1. CASE n = 1
  BY <1>1 DEF ExitPlanForContracts, Tranche
<1>2. CASE n # 1
  <2>1. half \in Nat /\ rest \in Nat /\ half > 0 /\ rest > 0
    BY <1>2, HalfBounds
  <2>2. second \in Nat /\ second > 0 /\ second <= rest
    BY <2>1
  <2>3. third \in Nat
    BY <2>1, <2>2
  <2> HIDE DEF half, rest, second, third
  <2>4. CASE third > 0
    <3>1. ExitPlanForContracts(n, first) =
            <<Tranche(first, half), Tranche(120, second), Tranche(200, third)>>
      BY <1>2, <2>4 DEF ExitPlanForContracts, RunnerTakePercents, half, rest, second, third
    <3> QED
      BY <3>1, <2>1, <2>2, <2>3, <2>4 DEF Tranche
  <2>5. CASE ~(third > 0)
    <3>1. ExitPlanForContracts(n, first) = <<Tranche(first, half), Tranche(120, second)>>
      BY <1>2, <2>5 DEF ExitPlanForContracts, RunnerTakePercents, half, rest, second, third
    <3> QED
      BY <3>1, <2>1, <2>2, <2>3 DEF Tranche
  <2> QED
    BY <2>4, <2>5
<1> QED
  BY <1>1, <1>2

\* The plan sells the whole position, neither more nor less, whatever the number
\* of contracts: the halving of exit_plan_for_contracts loses no contract.
THEOREM PlanSellsPosition ==
  ASSUME NEW n \in Nat \ {0}, NEW first \in Nat
  PROVE  PlanTotal(ExitPlanForContracts(n, first)) = n
<1> DEFINE half   == n \div 2
           rest   == n - half
           second == IF rest \div 2 < 1 THEN rest ELSE rest \div 2
           third  == rest - second
<1>1. CASE n = 1
  BY <1>1 DEF ExitPlanForContracts, Tranche, PlanTotal
<1>2. CASE n # 1
  <2>1. half \in Nat /\ rest \in Nat /\ half + rest = n
    BY <1>2, HalfBounds
  <2>2. second \in Nat /\ second <= rest
    BY <2>1
  <2>3. third \in Nat /\ second + third = rest
    BY <2>1, <2>2
  <2> HIDE DEF half, rest, second, third
  <2>4. CASE third > 0
    <3>1. ExitPlanForContracts(n, first) =
            <<Tranche(first, half), Tranche(120, second), Tranche(200, third)>>
      BY <1>2, <2>4 DEF ExitPlanForContracts, RunnerTakePercents, half, rest, second, third
    <3> QED
      BY <3>1, <2>1, <2>2, <2>3 DEF Tranche, PlanTotal
  <2>5. CASE ~(third > 0)
    <3>1. ExitPlanForContracts(n, first) = <<Tranche(first, half), Tranche(120, second)>>
      BY <1>2, <2>5 DEF ExitPlanForContracts, RunnerTakePercents, half, rest, second, third
    <3> QED
      BY <3>1, <2>1, <2>2, <2>3, <2>5 DEF Tranche, PlanTotal
  <2> QED
    BY <2>4, <2>5
<1> QED
  BY <1>1, <1>2

\* A rung of the ladder asks for a natural number of contracts, at most all of
\* them: the cumulative walk of apply_human_exit_rules_once never aims too high.
THEOREM LadderWithinPosition ==
  ASSUME NEW n \in Nat \ {0}, NEW first \in Nat,
         NEW k \in DOMAIN ExitPlanForContracts(n, first)
  PROVE  /\ LadderTarget(ExitPlanForContracts(n, first), k) \in Nat
         /\ LadderTarget(ExitPlanForContracts(n, first), k) <= n
<1> DEFINE plan == ExitPlanForContracts(n, first)
           Sells(j) == IF j \in DOMAIN plan THEN plan[j].contracts ELSE 0
<1>1. \A j \in DOMAIN plan : plan[j].contracts \in Nat
  BY PlanTranches
<1>2. Sells(1) + Sells(2) + Sells(3) = n
  BY PlanSellsPosition DEF PlanTotal
<1> HIDE DEF plan
<1>3. \A j \in 1..3 : /\ Sells(j) \in Nat
                      /\ Share(plan, j, k) \in Nat
                      /\ Share(plan, j, k) <= Sells(j)
  BY <1>1 DEF Share
<1>4. /\ Sells(1) \in Nat /\ Share(plan, 1, k) \in Nat /\ Share(plan, 1, k) <= Sells(1)
      /\ Sells(2) \in Nat /\ Share(plan, 2, k) \in Nat /\ Share(plan, 2, k) <= Sells(2)
      /\ Sells(3) \in Nat /\ Share(plan, 3, k) \in Nat /\ Share(plan, 3, k) <= Sells(3)
  BY <1>3
<1> HIDE DEF Sells
<1>5. LadderTarget(plan, k) \in Nat /\ LadderTarget(plan, k) <= n
  BY <1>2, <1>4 DEF LadderTarget
<1> QED
  BY <1>5 DEF plan

-----------------------------------------------------------------------------
(* The operators                                                           *)

LEMMA SmallerNat ==
  ASSUME NEW a \in Nat, NEW b \in Nat
  PROVE  Smaller(a, b) \in Nat /\ Smaller(a, b) <= a /\ Smaller(a, b) <= b
  BY DEF Smaller

LEMMA SmallerIsFirst ==
  ASSUME NEW a \in Nat, NEW b \in Nat, a <= b PROVE Smaller(a, b) = a
  BY DEF Smaller

LEMMA KeysType ==
  /\ NoKey \in Keys
  /\ StopLoss \in Triggers
  /\ \A take \in Nat : TakeProfit(take) \in Triggers
  /\ \A key \in Keys : SteveExit(key) \in Triggers
  BY DEF NoKey, ExitKey, Keys, NoShadow, StopLoss, TakeProfit, SteveExit, Trigger, Triggers

\* The rules only attempt exits of the position they look at, with a trigger of
\* theirs and a natural target.
LEMMA RulesForType ==
  ASSUME NEW pos \in Positions
  PROVE  RulesFor(pos) \subseteq Exits
<1> DEFINE plan == PlanOf(pos)
<1>1. Contracts[pos] \in Nat \ {0} /\ FirstTake[pos] \in Nat
  BY PositionsAssumption
<1>2. \A k \in DOMAIN plan : plan[k].take \in Nat /\ LadderTarget(plan, k) \in Nat
  BY <1>1, PlanTranches, LadderWithinPosition DEF PlanOf
<1> HIDE DEF plan
<1>3. Exit(pos, StopLoss, Contracts[pos]) \in Exits
  BY <1>1, KeysType DEF Exit, Exits
<1>4. \A k \in DOMAIN plan : Exit(pos, TakeProfit(plan[k].take), LadderTarget(plan, k)) \in Exits
  BY <1>2, KeysType DEF Exit, Exits
<1> QED
  BY <1>3, <1>4 DEF RulesFor, plan

\* The exits of a catch-up are typed as well.
LEMMA CatchUpType ==
  ASSUME NEW key \in Keys, NEW total \in Nat
  PROVE  CatchUp(key, total) \subseteq Exits
  BY KeysType, SmallerNat, PositionsAssumption DEF CatchUp, Followers, Exit, Exits

\* What Steve has closed stays a natural number per shadow when a row is added.
LEMMA SteveClosedWithType ==
  ASSUME NEW key \in Keys, steveClosed \in [Shadows -> Nat]
  PROVE  SteveClosedWith(key) \in [Shadows -> Nat]
<1>1. CASE key.shadow = NoShadow \/ key \in steveKeys
  BY <1>1 DEF SteveClosedWith
<1>2. CASE key.shadow # NoShadow /\ key \notin steveKeys
  <2>1. key.shadow \in Shadows /\ key.contracts \in Nat
    BY <1>2 DEF Keys
  <2>2. steveClosed[key.shadow] + key.contracts \in Nat
    BY <2>1
  <2>3. SteveClosedWith(key)
          = [steveClosed EXCEPT ![key.shadow] = steveClosed[key.shadow] + key.contracts]
    BY <1>2 DEF SteveClosedWith
  <2> QED
    BY <2>1, <2>2, <2>3
<1> QED
  BY <1>1, <1>2

\* The key an alert is recorded under: its amount is natural, since an open
\* shadow has contracts left.
LEMMA MatchType ==
  ASSUME NEW a \in SteveAlerts, steveClosed \in [Shadows -> Nat],
         NEW s \in MatchedShadow(a)
  PROVE  ExitKey(s, RequestedContracts(a, s), a.bucket) \in Keys
<1>1. s = NoShadow \/ s \in OpenShadows
  BY DEF MatchedShadow
<1>2. RequestedContracts(a, s) \in Nat
  <2> a.contracts \in Nat
    BY AlertsAssumption
  <2>1. CASE s = NoShadow
    BY <2>1 DEF RequestedContracts
  <2>2. CASE s # NoShadow
    <3>1. ShadowRemaining(s) \in Nat
      <4>1. s \in Shadows /\ steveClosed[s] < ShadowContracts[s]
        BY <1>1, <2>2 DEF OpenShadows
      <4>2. steveClosed[s] \in Nat /\ ShadowContracts[s] \in Nat
        BY <4>1, PositionsAssumption
      <4> QED
        BY <4>1, <4>2 DEF ShadowRemaining
    <3> QED
      BY <2>2, <3>1, SmallerNat DEF RequestedContracts
  <2> QED
    BY <2>1, <2>2
<1> QED
  BY <1>1, <1>2 DEF ExitKey, Keys, OpenShadows

\* The quantity of a sell is natural and, by the rows the process has read, no
\* more than what is left of the position.
LEMMA QuantityType ==
  ASSUME NEW p \in Procs, NEW e \in Exits, rows \in [Procs -> [Positions -> Nat]]
  PROVE  /\ Quantity(p, e) \in Nat
         /\ rows[p][e.pos] <= Contracts[e.pos] => Quantity(p, e) <= Contracts[e.pos] - rows[p][e.pos]
<1>1. e.pos \in Positions /\ e.target \in Nat
  BY DEF Exits
<1>2. Contracts[e.pos] \in Nat /\ rows[p][e.pos] \in Nat
  BY <1>1, PositionsAssumption
<1>3. Smaller(e.target, Contracts[e.pos]) \in Nat /\ Smaller(e.target, Contracts[e.pos]) <= Contracts[e.pos]
  BY <1>1, <1>2, SmallerNat
<1> QED
  BY <1>2, <1>3 DEF Quantity, Max0

LEMMA SellOrderIdType ==
  ASSUME NEW s \in [exit : Exits, qty : Nat]
  PROVE  /\ SellOrderId(s) \in [pos : Positions, qty : Nat, trigger : Triggers]
         /\ ExitId(s.exit) \in Positions \X Triggers
         /\ s.exit.pos \in Positions
  BY DEF SellOrderId, ExitId, Exits

-----------------------------------------------------------------------------
(* Type correctness                                                        *)

LEMMA InitType == Init => TypeOK
<1> SUFFICES ASSUME Init PROVE TypeOK
  OBVIOUS
<1>1. mark \in [Positions -> Marks] /\ snap \in [Positions -> Marks] /\ crashes \in 0..MaxCrashes
  BY MarksAssumption, CrashAssumption DEF Init
<1>2. sale \in [Procs -> Sales] /\ row \in [Procs -> Keys]
  BY KeysType DEF Init, Sales, NoSale, Sale
<1>3. BusyOK
  BY DEF Init, BusyOK
<1> QED
  BY <1>1, <1>2, <1>3 DEF Init, TypeOK, PCs

LEMMA NextType == TypeOK /\ [Next]_vars => TypeOK'
<1> SUFFICES ASSUME TypeOK, [Next]_vars PROVE TypeOK'
  OBVIOUS
<1> USE DEF TypeOK
<1>1. ASSUME NEW pos \in Positions, MarkMoves(pos) PROVE TypeOK'
  BY <1>1 DEF MarkMoves, exitVars, steveVars, brokerVars, procVars, faultVars, BusyOK
<1>2. ASSUME NEW pos \in Positions, Observe(pos) PROVE TypeOK'
  BY <1>2 DEF Observe, exitVars, steveVars, brokerVars, procVars, faultVars, BusyOK
<1>3. ASSUME NEW p \in Procs, ApplyRules(p) PROVE TypeOK'
  <2> DEFINE open == {pos \in Positions : closed[pos] < Contracts[pos] /\ snap[pos] > -100}
             exits == UNION {RulesFor(pos) : pos \in open}
  <2>1. exits \subseteq Exits
    BY RulesForType
  <2>2. todo' = [todo EXCEPT ![p] = exits]
    BY <1>3 DEF ApplyRules
  <2> HIDE DEF exits
  <2>3. todo' \in [Procs -> SUBSET Exits]
    BY <2>1, <2>2
  <2>4. rows' \in [Procs -> [Positions -> Nat]] /\ pc' \in [Procs -> PCs]
    BY <1>3 DEF ApplyRules, PCs
  <2>5. BusyOK'
    BY <1>3 DEF ApplyRules, BusyOK
  <2>6. {e.pos : e \in exits} \subseteq Positions
    BY <2>1 DEF Exits
  <2>7. Overlap(p, {e.pos : e \in exits})
    BY <1>3 DEF ApplyRules, exits
  <2>8. shared' \subseteq Positions
    BY <2>6, <2>7 DEF Overlap
  <2> QED
    BY <1>3, <2>3, <2>4, <2>5, <2>8 DEF ApplyRules, marketVars, exitVars, steveVars, brokerVars
<1>4. ASSUME NEW p \in Procs, NEW a \in SteveAlerts, ReceiveSteveExit(p, a) PROVE TypeOK'
  BY <1>4 DEF ReceiveSteveExit, marketVars, exitVars, steveVars, brokerVars, faultVars, PCs, BusyOK
<1>5. ASSUME NEW p \in Procs, MatchSteveExit(p) PROVE TypeOK'
  <2>1. alert[p] \in SteveAlerts
    BY <1>5 DEF MatchSteveExit, BusyOK
  <2>2. PICK s \in MatchedShadow(alert[p]) :
          LET key == ExitKey(s, RequestedContracts(alert[p], s), alert[p].bucket)
          IN  \/ /\ pc' = [pc EXCEPT ![p] = "idle"]
                 /\ alert' = [alert EXCEPT ![p] = NoAlert]
                 /\ UNCHANGED row
              \/ /\ row' = [row EXCEPT ![p] = key]
                 /\ pc' = [pc EXCEPT ![p] = "append"]
                 /\ UNCHANGED alert
    BY <1>5 DEF MatchSteveExit
  <2> DEFINE key == ExitKey(s, RequestedContracts(alert[p], s), alert[p].bucket)
  <2>3. key \in Keys
    BY <2>1, MatchType
  <2> HIDE DEF key
  <2>4. /\ row' \in [Procs -> Keys]
        /\ pc' \in [Procs -> PCs]
        /\ alert' \in [Procs -> SteveAlerts \cup {NoAlert}]
    BY <2>2, <2>3 DEF PCs, key
  <2>5. BusyOK'
    BY <1>5, <2>1, <2>2 DEF MatchSteveExit, BusyOK
  <2> QED
    BY <1>5, <2>4, <2>5 DEF MatchSteveExit, marketVars, exitVars, steveVars, brokerVars, faultVars
<1>6. ASSUME NEW p \in Procs, AppendSteveExit(p) PROVE TypeOK'
  <2> DEFINE key == row[p]
             exits == IF alert[p].priced /\ key.shadow # NoShadow
                      THEN CatchUp(key, SteveClosedWith(key)[key.shadow]) ELSE {}
  <2>1. key \in Keys /\ alert[p] \in SteveAlerts
    BY <1>6 DEF AppendSteveExit, BusyOK
  <2>2. SteveClosedWith(key) \in [Shadows -> Nat]
    BY <2>1, SteveClosedWithType
  <2>3. exits \subseteq Exits
    BY <2>1, <2>2, CatchUpType DEF Keys, NoShadow
  <2>4. todo' = [todo EXCEPT ![p] = exits]
    BY <1>6 DEF AppendSteveExit
  <2> HIDE DEF exits
  <2>5. todo' \in [Procs -> SUBSET Exits]
    BY <2>3, <2>4
  <2>6. /\ steveKeys' \subseteq Keys
        /\ steveSeen' \subseteq {a.id : a \in SteveAlerts}
        /\ steveClosed' \in [Shadows -> Nat]
    BY <1>6, <2>1, <2>2 DEF AppendSteveExit
  <2>7. /\ rows' \in [Procs -> [Positions -> Nat]]
        /\ alert' \in [Procs -> SteveAlerts \cup {NoAlert}]
        /\ row' \in [Procs -> Keys]
        /\ pc' \in [Procs -> PCs]
    BY <1>6, KeysType DEF AppendSteveExit, PCs
  <2>8. BusyOK'
    BY <1>6 DEF AppendSteveExit, BusyOK
  <2>9. shared' \subseteq Positions
    BY <1>6 DEF AppendSteveExit, Overlap, Followers
  <2> QED
    BY <1>6, <2>5, <2>6, <2>7, <2>8, <2>9 DEF AppendSteveExit, marketVars, exitVars, brokerVars
<1>7. ASSUME NEW p \in Procs, SkipExit(p) PROVE TypeOK'
  BY <1>7 DEF SkipExit, marketVars, exitVars, steveVars, brokerVars, faultVars, BusyOK
<1>8. ASSUME NEW p \in Procs, StartExit(p) PROVE TypeOK'
  <2>1. PICK e \in todo[p] : sale' = [sale EXCEPT ![p] = Sale(e, Quantity(p, e))]
    BY <1>8 DEF StartExit, NextOf
  <2>2. e \in Exits /\ Quantity(p, e) \in Nat
    BY <2>1, QuantityType
  <2>3. Sale(e, Quantity(p, e)) \in [exit : Exits, qty : Nat]
    BY <2>2 DEF Sale
  <2>4. sale' \in [Procs -> Sales] /\ pc' \in [Procs -> PCs]
    BY <1>8, <2>1, <2>3 DEF StartExit, Sales, PCs
  <2>5. BusyOK'
    BY <1>8, <2>1, <2>3 DEF StartExit, BusyOK
  <2> QED
    BY <1>8, <2>4, <2>5 DEF StartExit, marketVars, exitVars, steveVars, brokerVars, faultVars
<1>9. ASSUME NEW p \in Procs, SubmitSell(p) PROVE TypeOK'
  <2>1. sale[p] \in [exit : Exits, qty : Nat]
    BY <1>9 DEF SubmitSell, BusyOK
  <2>2. /\ SellOrderId(sale[p]) \in [pos : Positions, qty : Nat, trigger : Triggers]
        /\ sale[p].exit.pos \in Positions /\ sale[p].qty \in Nat
    BY <2>1, SellOrderIdType
  <2>3. /\ audited' \subseteq [pos : Positions, qty : Nat, trigger : Triggers]
        /\ brokerIds' \subseteq [pos : Positions, qty : Nat, trigger : Triggers]
        /\ sold' \in [Positions -> Nat]
    <3>1. CASE UNCHANGED brokerVars
      BY <3>1 DEF brokerVars
    <3>2. CASE /\ audited' = audited \cup {SellOrderId(sale[p])}
               /\ BrokerTakes(sale[p]) \/ UNCHANGED <<brokerIds, sold>>
      <4>1. audited' \subseteq [pos : Positions, qty : Nat, trigger : Triggers]
        BY <2>2, <3>2
      <4>2. CASE UNCHANGED <<brokerIds, sold>>
        BY <4>1, <4>2
      <4>3. CASE BrokerTakes(sale[p])
        <5>1. brokerIds' \subseteq [pos : Positions, qty : Nat, trigger : Triggers]
          BY <2>2, <4>3 DEF BrokerTakes
        <5>2. sold[sale[p].exit.pos] + sale[p].qty \in Nat
          BY <2>2
        <5>3. sold' \in [Positions -> Nat]
          BY <2>2, <4>3, <5>2 DEF BrokerTakes
        <5> QED
          BY <4>1, <5>1, <5>3
      <4> QED
        BY <3>2, <4>2, <4>3
    <3> QED
      BY <1>9, <3>1, <3>2 DEF SubmitSell
  <2>4. pc' \in [Procs -> PCs] /\ BusyOK'
    BY <1>9, <2>1 DEF SubmitSell, PCs, BusyOK
  <2> QED
    BY <1>9, <2>3, <2>4 DEF SubmitSell, marketVars, exitVars, steveVars, faultVars
<1>10. ASSUME NEW p \in Procs, RecordExit(p) PROVE TypeOK'
  <2>1. sale[p] \in [exit : Exits, qty : Nat]
    BY <1>10 DEF RecordExit, BusyOK
  <2>2. /\ ExitId(sale[p].exit) \in Positions \X Triggers
        /\ sale[p].exit.pos \in Positions /\ sale[p].qty \in Nat
    BY <2>1, SellOrderIdType
  <2>3. /\ closed' \in [Positions -> Nat]
        /\ exitIds' \subseteq Positions \X Triggers
        /\ rows' \in [Procs -> [Positions -> Nat]]
    <3> DEFINE pos == sale[p].exit.pos
               qty == sale[p].qty
    <3>1. pos \in Positions /\ qty \in Nat
      BY <2>2
    <3>2. /\ closed' = [closed EXCEPT ![pos] = @ + qty]
          /\ exitIds' = exitIds \cup {ExitId(sale[p].exit)}
          /\ rows' = [rows EXCEPT ![p][pos] = @ + qty]
      BY <1>10 DEF RecordExit
    <3>3. exitIds' \subseteq Positions \X Triggers
      BY <2>2, <3>2
    <3> HIDE DEF pos, qty
    <3>4. closed[pos] + qty \in Nat /\ rows[p][pos] + qty \in Nat
      BY <3>1
    <3>5. closed' \in [Positions -> Nat]
      BY <3>1, <3>2, <3>4
    <3>6. rows' \in [Procs -> [Positions -> Nat]]
      BY <3>1, <3>2, <3>4
    <3> QED
      BY <3>3, <3>5, <3>6
  <2>4. /\ todo' \in [Procs -> SUBSET Exits]
        /\ sale' \in [Procs -> Sales]
        /\ pc' \in [Procs -> PCs]
    BY <1>10 DEF RecordExit, PCs, NoSale, Sale, Sales
  <2>5. BusyOK'
    BY <1>10 DEF RecordExit, BusyOK
  <2> QED
    BY <1>10, <2>3, <2>4, <2>5 DEF RecordExit, marketVars, steveVars, brokerVars, faultVars
<1>11. ASSUME NEW p \in Procs, EndWalk(p) PROVE TypeOK'
  BY <1>11 DEF EndWalk, marketVars, exitVars, steveVars, brokerVars, faultVars, PCs, BusyOK
<1>12. ASSUME NEW p \in Procs, Crash(p) PROVE TypeOK'
  <2>1. /\ audited' \subseteq [pos : Positions, qty : Nat, trigger : Triggers]
        /\ brokerIds' \subseteq [pos : Positions, qty : Nat, trigger : Triggers]
        /\ sold' \in [Positions -> Nat]
    <3>1. CASE UNCHANGED brokerVars
      BY <3>1 DEF brokerVars
    <3>2. CASE pc[p] = "submit" /\ BrokerTakes(sale[p]) /\ UNCHANGED audited
      <4>1. sale[p] \in [exit : Exits, qty : Nat]
        BY <3>2 DEF BusyOK
      <4> QED
        BY <3>2, <4>1, SellOrderIdType DEF BrokerTakes
    <3> QED
      BY <1>12, <3>1, <3>2 DEF Crash
  <2>2. /\ pc' \in [Procs -> PCs]
        /\ rows' \in [Procs -> [Positions -> Nat]]
        /\ todo' \in [Procs -> SUBSET Exits]
        /\ sale' \in [Procs -> Sales]
        /\ alert' \in [Procs -> SteveAlerts \cup {NoAlert}]
        /\ row' \in [Procs -> Keys]
    BY <1>12, KeysType DEF Crash, Restart, PCs, NoSale, Sale, Sales
  <2>3. crashes' \in 0..MaxCrashes
    BY <1>12, CrashAssumption DEF Crash, Restart
  <2>4. BusyOK'
    BY <1>12 DEF Crash, Restart, BusyOK
  <2>5. cut' \subseteq Positions
    BY <1>12, SellOrderIdType DEF Crash, Restart, BusyOK
  <2> QED
    BY <1>12, <2>1, <2>2, <2>3, <2>4, <2>5 DEF Crash, marketVars, exitVars, steveVars
<1>13. CASE UNCHANGED vars
  BY <1>13 DEF vars, marketVars, exitVars, steveVars, brokerVars, procVars, faultVars, BusyOK
<1> QED
  BY <1>1, <1>2, <1>3, <1>4, <1>5, <1>6, <1>7, <1>8, <1>9, <1>10, <1>11, <1>12, <1>13
  DEF Next, HandleSteveExit, Walk

\* Every variable keeps its type, with any number of processes and crashes.
THEOREM TypeCorrect == Spec => []TypeOK
  BY InitType, NextType, PTL DEF Spec

-----------------------------------------------------------------------------
(* The ledger is never oversold, but for a position that two processes        *)
(* handled at the same time.  RowsCurrent is the strengthening: NoOversell    *)
(* alone does not say why the amount recorded after the broker call still     *)
(* fits.  It stays true because a process that appends a row still has the    *)
(* exit in hand, so that nobody else has one of that position unless the      *)
(* position is shared.                                                        *)

Selling(p) == pc[p] \in {"submit", "record"}

\* The exit being sold is one that the walk still has in hand.
SaleInHand == \A p \in Procs : Selling(p) => sale[p].exit \in todo[p]

\* A position that two processes have in hand is shared.
BothInHandIsShared ==
  \A p, q \in Procs : p # q =>
    \A e \in todo[p], f \in todo[q] : e.pos = f.pos => e.pos \in shared

SellInv == SaleInHand /\ BothInHandIsShared /\ RowsCurrent /\ NoOversell

LEMMA InitSell == Init => SellInv
<1> SUFFICES ASSUME Init PROVE SellInv
  OBVIOUS
<1>1. NoOversell
  BY PositionsAssumption DEF Init, NoOversell
<1> QED
  BY <1>1 DEF Init, SellInv, SaleInHand, BothInHandIsShared, RowsCurrent, Selling

\* A step that neither reads rows nor appends one, takes nothing new in hand and starts
\* no sell.
LEMMA SellStays ==
  ASSUME SellInv, UNCHANGED closed, shared \subseteq shared',
         \A p \in Procs : \A e \in todo'[p] : e \in todo[p] /\ rows'[p] = rows[p],
         \A p \in Procs : Selling(p)' =>
           Selling(p) /\ sale'[p] = sale[p] /\ sale[p].exit \in todo'[p]
  PROVE  SellInv'
<1> USE DEF SellInv
<1>1. SaleInHand'
  BY DEF SaleInHand
<1>2. BothInHandIsShared'
  BY DEF BothInHandIsShared
<1>3. RowsCurrent'
  BY DEF RowsCurrent, Selling
<1>4. NoOversell'
  BY DEF NoOversell
<1> QED
  BY <1>1, <1>2, <1>3, <1>4

\* A process reads the rows anew and sets about exits that it marks as shared where
\* another has the same position in hand.
LEMMA SellStarts ==
  ASSUME TypeOK, SellInv, UNCHANGED <<closed, sale>>, NEW p \in Procs,
         rows' = [rows EXCEPT ![p] = closed],
         NEW exits, todo' = [todo EXCEPT ![p] = exits],
         pc' = [pc EXCEPT ![p] = "walk"],
         NEW about, Overlap(p, about), \A e \in exits : e.pos \in about
  PROVE  SellInv'
<1> USE DEF SellInv
<1>1. /\ todo'[p] = exits /\ rows'[p] = closed /\ ~Selling(p)'
      /\ \A q \in Procs \ {p} : /\ todo'[q] = todo[q] /\ rows'[q] = rows[q]
                                /\ Selling(q)' <=> Selling(q)
      /\ shared \subseteq shared'
  BY DEF TypeOK, Overlap, Selling
<1>2. \A q \in Procs \ {p} : \A e \in exits, f \in todo[q] : e.pos = f.pos => e.pos \in shared'
  BY DEF Overlap, InHand
<1>3. SaleInHand'
  BY <1>1 DEF SaleInHand
<1>4. BothInHandIsShared'
  <2> SUFFICES ASSUME NEW q \in Procs, NEW r \in Procs, q # r,
                      NEW e \in todo'[q], NEW f \in todo'[r], e.pos = f.pos
               PROVE  e.pos \in shared'
    BY DEF BothInHandIsShared
  <2>1. CASE q # p /\ r # p
    BY <1>1, <2>1 DEF BothInHandIsShared
  <2>2. CASE q = p
    BY <1>1, <1>2, <2>2
  <2>3. CASE r = p
    BY <1>1, <1>2, <2>3
  <2> QED
    BY <2>1, <2>2, <2>3
<1>5. RowsCurrent'
  <2>1. \A q \in Procs : \A e \in todo'[q] : e.pos \notin shared' =>
          rows'[q][e.pos] = closed'[e.pos]
    BY <1>1 DEF RowsCurrent
  <2>2. \A q \in Procs : Selling(q)' /\ sale'[q].exit.pos \notin shared' =>
          closed'[sale'[q].exit.pos] + sale'[q].qty <= Contracts[sale'[q].exit.pos]
    BY <1>1 DEF RowsCurrent, Selling
  <2> QED
    BY <2>1, <2>2 DEF RowsCurrent, Selling
<1>6. NoOversell'
  BY <1>1 DEF NoOversell
<1> QED
  BY <1>3, <1>4, <1>5, <1>6

\* Of a position that is not shared nobody else has an exit in hand.
LEMMA NobodyElseSells ==
  ASSUME TypeOK, SellInv, NEW p \in Procs, Selling(p), sale[p].exit.pos \notin shared,
         NEW q \in Procs, q # p
  PROVE  /\ \A e \in todo[q] : e.pos # sale[p].exit.pos
         /\ Selling(q) => sale[q].exit.pos # sale[p].exit.pos
  BY DEF SellInv, SaleInHand, BothInHandIsShared

LEMMA NextSell ==
  ASSUME TypeOK, SellInv, [Next]_vars
  PROVE  SellInv'
<1> USE DEF TypeOK
<1>1. ASSUME NEW pos \in Positions, MarkMoves(pos) \/ Observe(pos) PROVE SellInv'
  <2>1. UNCHANGED <<closed, shared, todo, rows, pc, sale>>
    BY <1>1 DEF MarkMoves, Observe, exitVars, procVars, faultVars
  <2> QED
    BY <2>1, SellStays DEF SellInv, SaleInHand, Selling
<1>2. ASSUME NEW p \in Procs, ApplyRules(p) PROVE SellInv'
  <2> DEFINE open == {pos \in Positions : closed[pos] < Contracts[pos] /\ snap[pos] > -100}
             exits == UNION {RulesFor(pos) : pos \in open}
  <2>1. /\ rows' = [rows EXCEPT ![p] = closed] /\ todo' = [todo EXCEPT ![p] = exits]
        /\ pc' = [pc EXCEPT ![p] = "walk"] /\ Overlap(p, {e.pos : e \in exits})
        /\ UNCHANGED <<closed, sale>>
    BY <1>2 DEF ApplyRules, exitVars
  <2> HIDE DEF exits
  <2>2. \A e \in exits : e.pos \in {f.pos : f \in exits}
    OBVIOUS
  <2> QED
    BY <2>1, <2>2, SellStarts
<1>3. ASSUME NEW p \in Procs, NEW a \in SteveAlerts, ReceiveSteveExit(p, a) PROVE SellInv'
  <2>1. pc' = [pc EXCEPT ![p] = "match"] /\ UNCHANGED <<closed, shared, todo, rows, sale>>
    BY <1>3 DEF ReceiveSteveExit, exitVars, faultVars
  <2> QED
    BY <2>1, SellStays DEF SellInv, SaleInHand, Selling
<1>4. ASSUME NEW p \in Procs, MatchSteveExit(p) PROVE SellInv'
  <2>1. /\ pc' = [pc EXCEPT ![p] = "idle"] \/ pc' = [pc EXCEPT ![p] = "append"]
        /\ UNCHANGED <<closed, shared, todo, rows, sale>>
    BY <1>4 DEF MatchSteveExit, exitVars, faultVars
  <2> QED
    BY <2>1, SellStays DEF SellInv, SaleInHand, Selling
<1>5. ASSUME NEW p \in Procs, AppendSteveExit(p) PROVE SellInv'
  <2> DEFINE key == row[p]
             exits == IF alert[p].priced /\ key.shadow # NoShadow
                      THEN CatchUp(key, SteveClosedWith(key)[key.shadow]) ELSE {}
  <2>1. /\ rows' = [rows EXCEPT ![p] = closed] /\ todo' = [todo EXCEPT ![p] = exits]
        /\ pc' = [pc EXCEPT ![p] = "walk"] /\ Overlap(p, Followers(key.shadow))
        /\ UNCHANGED <<closed, sale>>
    BY <1>5 DEF AppendSteveExit, exitVars
  <2>2. \A e \in exits : e.pos \in Followers(key.shadow)
    BY DEF CatchUp, Exit
  <2> HIDE DEF exits
  <2> QED
    BY <2>1, <2>2, SellStarts
<1>6. ASSUME NEW p \in Procs, SkipExit(p) \/ EndWalk(p) PROVE SellInv'
  <2>1. /\ pc[p] = "walk" /\ UNCHANGED <<closed, shared, rows, sale>>
        /\ \A q \in Procs : todo'[q] \subseteq todo[q]
        /\ \A q \in Procs \ {p} : todo'[q] = todo[q]
        /\ pc' = pc \/ pc' = [pc EXCEPT ![p] = "idle"]
    BY <1>6 DEF SkipExit, EndWalk, exitVars, faultVars
  <2> QED
    BY <2>1, SellStays DEF SellInv, SaleInHand, Selling
<1>7. ASSUME NEW p \in Procs, StartExit(p) PROVE SellInv'
  <2>1. PICK e \in todo[p] : /\ Quantity(p, e) > 0
                             /\ sale' = [sale EXCEPT ![p] = Sale(e, Quantity(p, e))]
    BY <1>7 DEF StartExit, NextOf
  <2>2. /\ pc[p] = "walk" /\ pc' = [pc EXCEPT ![p] = "submit"]
        /\ UNCHANGED <<closed, rows, todo, shared>>
    BY <1>7 DEF StartExit, exitVars, faultVars
  <2>3. e \in Exits /\ e.pos \in Positions
    BY <2>1 DEF Exits
  <2>4. sale'[p].exit = e /\ sale'[p].qty = Quantity(p, e)
    BY <2>1 DEF Sale
  <2>5. \A q \in Procs \ {p} : sale'[q] = sale[q] /\ (Selling(q)' <=> Selling(q))
    BY <2>1, <2>2 DEF Selling
  <2>6. ASSUME e.pos \notin shared PROVE closed[e.pos] + Quantity(p, e) <= Contracts[e.pos]
    <3>1. /\ closed[e.pos] \in Nat /\ Contracts[e.pos] \in Nat
          /\ rows[p][e.pos] = closed[e.pos] /\ closed[e.pos] <= Contracts[e.pos]
      BY <2>1, <2>3, <2>6, PositionsAssumption DEF SellInv, RowsCurrent, NoOversell
    <3>2. Quantity(p, e) \in Nat /\ Quantity(p, e) <= Contracts[e.pos] - rows[p][e.pos]
      BY <2>3, <3>1, QuantityType
    <3> QED
      BY <3>1, <3>2
  <2>7. SaleInHand'
    BY <2>1, <2>2, <2>4, <2>5 DEF SellInv, SaleInHand
  <2>8. BothInHandIsShared'
    BY <2>2 DEF SellInv, BothInHandIsShared
  <2>9. RowsCurrent'
    <3>1. \A q \in Procs : \A f \in todo'[q] : f.pos \notin shared' =>
            rows'[q][f.pos] = closed'[f.pos]
      BY <2>2 DEF SellInv, RowsCurrent
    <3>2. \A q \in Procs : Selling(q)' /\ sale'[q].exit.pos \notin shared' =>
            closed'[sale'[q].exit.pos] + sale'[q].qty <= Contracts[sale'[q].exit.pos]
      BY <2>2, <2>4, <2>5, <2>6 DEF SellInv, RowsCurrent, Selling
    <3> QED
      BY <3>1, <3>2 DEF RowsCurrent, Selling
  <2>10. NoOversell'
    BY <2>2 DEF SellInv, NoOversell
  <2> QED
    BY <2>7, <2>8, <2>9, <2>10 DEF SellInv
<1>8. ASSUME NEW p \in Procs, SubmitSell(p) PROVE SellInv'
  <2>1. /\ pc[p] = "submit" /\ pc' = [pc EXCEPT ![p] = "record"]
        /\ UNCHANGED <<closed, rows, sale, todo, shared>>
    BY <1>8 DEF SubmitSell, exitVars, faultVars
  <2> QED
    BY <2>1, SellStays DEF SellInv, SaleInHand, Selling
<1>9. ASSUME NEW p \in Procs, RecordExit(p) PROVE SellInv'
  <2> DEFINE x == sale[p].exit
             pos == x.pos
             qty == sale[p].qty
  <2>1. /\ closed' = [closed EXCEPT ![pos] = @ + qty]
        /\ rows' = [rows EXCEPT ![p][pos] = @ + qty]
        /\ todo' = [todo EXCEPT ![p] = @ \ {x}]
        /\ sale' = [sale EXCEPT ![p] = NoSale]
        /\ pc[p] = "record" /\ pc' = [pc EXCEPT ![p] = "walk"]
        /\ UNCHANGED shared
    BY <1>9 DEF RecordExit, faultVars
  <2>2. Selling(p) /\ ~Selling(p)'
    BY <2>1 DEF Selling
  <2>3. pos \in Positions /\ qty \in Nat
    BY <2>1, SellOrderIdType DEF BusyOK
  <2>4. \A q \in Procs \ {p} : /\ todo'[q] = todo[q] /\ rows'[q] = rows[q]
                               /\ sale'[q] = sale[q] /\ (Selling(q)' <=> Selling(q))
    BY <2>1 DEF Selling
  <2>5. todo'[p] \subseteq todo[p]
    BY <2>1
  <2>6. ASSUME NEW q \in Procs \ {p}, pos \notin shared
        PROVE  /\ \A e \in todo[q] : e.pos # pos
               /\ Selling(q) => sale[q].exit.pos # pos
    BY <2>2, <2>6, NobodyElseSells
  <2>7. pos \notin shared => closed[pos] + qty <= Contracts[pos]
    BY <2>2 DEF SellInv, RowsCurrent, Selling
  <2>8. \A y \in Positions : y # pos => closed'[y] = closed[y]
    BY <2>1
  <2>9. closed'[pos] = closed[pos] + qty
    BY <2>1, <2>3
  <2>10. \A q \in Procs : \A e \in todo[q] : e.pos \in Positions
    BY DEF Exits
  <2>11. \A q \in Procs : Selling(q) => sale[q].exit.pos \in Positions
    BY <2>10 DEF SellInv, SaleInHand
  <2>12. /\ \A y \in Positions : y # pos => rows'[p][y] = rows[p][y]
         /\ rows'[p][pos] = rows[p][pos] + qty
    BY <2>1, <2>3
  <2> HIDE DEF x, pos, qty
  <2>13. SaleInHand'
    BY <2>2, <2>4 DEF SellInv, SaleInHand
  <2>14. BothInHandIsShared'
    BY <2>1, <2>4, <2>5 DEF SellInv, BothInHandIsShared
  <2>15. RowsCurrent'
    <3>1. ASSUME NEW q \in Procs, NEW e \in todo'[q], e.pos \notin shared
          PROVE  rows'[q][e.pos] = closed'[e.pos]
      <4>1. e \in todo[q] /\ e.pos \in Positions /\ rows[q][e.pos] = closed[e.pos]
        BY <2>4, <2>5, <2>10, <3>1 DEF SellInv, RowsCurrent
      <4>2. CASE q = p
        BY <2>8, <2>9, <2>12, <4>1, <4>2
      <4>3. CASE q # p
        BY <2>4, <2>6, <2>8, <3>1, <4>1, <4>3
      <4> QED
        BY <4>2, <4>3
    <3>2. ASSUME NEW q \in Procs, Selling(q)', sale'[q].exit.pos \notin shared
          PROVE  closed'[sale'[q].exit.pos] + sale'[q].qty <= Contracts[sale'[q].exit.pos]
      <4>1. q # p /\ Selling(q) /\ sale'[q] = sale[q]
        BY <2>2, <2>4, <3>2
      <4>2. /\ sale[q].exit.pos \in Positions
            /\ sale[q].exit.pos # pos
        BY <2>6, <2>11, <3>2, <4>1
      <4> QED
        BY <2>8, <3>2, <4>1, <4>2 DEF SellInv, RowsCurrent, Selling
    <3> QED
      BY <2>1, <3>1, <3>2 DEF RowsCurrent, Selling
  <2>16. NoOversell'
    BY <2>1, <2>7, <2>8, <2>9 DEF SellInv, NoOversell
  <2> QED
    BY <2>13, <2>14, <2>15, <2>16 DEF SellInv
<1>10. ASSUME NEW p \in Procs, Crash(p) PROVE SellInv'
  <2>1. /\ todo' = [todo EXCEPT ![p] = {}] /\ pc' = [pc EXCEPT ![p] = "idle"]
        /\ sale' = [sale EXCEPT ![p] = NoSale]
        /\ \A q \in Procs \ {p} : rows'[q] = rows[q]
        /\ UNCHANGED <<closed, shared>>
    BY <1>10 DEF Crash, Restart, exitVars
  <2>2. \A q \in Procs \ {p} : /\ todo'[q] = todo[q] /\ sale'[q] = sale[q]
                               /\ Selling(q)' <=> Selling(q)
    BY <2>1 DEF Selling
  <2>3. todo'[p] = {} /\ ~Selling(p)'
    BY <2>1 DEF Selling
  <2> QED
    BY <2>1, <2>2, <2>3, SellStays DEF SellInv, SaleInHand
<1>11. CASE UNCHANGED vars
  <2>1. UNCHANGED <<closed, shared, todo, rows, pc, sale>>
    BY <1>11 DEF vars, exitVars, procVars, faultVars
  <2> QED
    BY <2>1, SellStays DEF SellInv, SaleInHand, Selling
<1> QED
  BY <1>1, <1>2, <1>3, <1>4, <1>5, <1>6, <1>7, <1>8, <1>9, <1>10, <1>11
  DEF Next, HandleSteveExit, Walk

LEMMA SellInvariant == Spec => [](TypeOK /\ SellInv)
<1>1. Init => TypeOK /\ SellInv
  BY InitType, InitSell
<1>2. TypeOK /\ SellInv /\ [Next]_vars => (TypeOK /\ SellInv)'
  BY NextType, NextSell
<1> QED
  BY <1>1, <1>2, PTL DEF Spec

\* However many processes handle exits, what one has read of a position before a broker
\* call is still right when the exit is recorded, whatever crashes come between, unless
\* another had the same position in hand.
THEOREM CopyStaysCurrent == Spec => []RowsCurrent
  BY SellInvariant, PTL DEF SellInv

\* However many processes handle exits, no position is ever closed beyond what it holds
\* unless two of them had it in hand at the same time.
THEOREM NeverOversoldUnlessShared == Spec => []NoOversell
  BY SellInvariant, PTL DEF SellInv

-----------------------------------------------------------------------------
(* PaperExits implements ExitLedger.  What a walk has still to attempt are    *)
(* targets of the policy; unless the position is shared nobody else appends,  *)
(* so what a sell was sized for is what its row will make true.               *)

\* The exits of a walk aim at targets of the policy, and a catch-up at what Steve has
\* closed of a shadow that the position follows.
Followed(pos, n) == \E s \in LinkedTo[pos] : n <= steveClosed[s]
AimsAreTargets ==
  \A p \in Procs : \A e \in todo[p] : e.pos \notin shared =>
    /\ e.target \in Ledger!LegalTargets(e.pos)
    /\ e.trigger.kind = "steve_exit" => Followed(e.pos, e.target)

\* The sell under way will bring its position exactly to a target.
Reached(p) == closed[sale[p].exit.pos] + sale[p].qty
SellsToATarget ==
  \A p \in Procs : Selling(p) /\ sale[p].exit.pos \notin shared =>
    /\ Reached(p) \in Ledger!LegalTargets(sale[p].exit.pos)
    /\ sale[p].exit.trigger.kind = "steve_exit" => Followed(sale[p].exit.pos, Reached(p))

SellsSomething == \A p \in Procs : Selling(p) => sale[p].qty > 0

AimInv == AimsAreTargets /\ SellsToATarget /\ SellsSomething

\* Both modules take the plan from ExitPlan.
LEMMA SamePlan ==
  /\ \A pos : Ledger!PlanOf(pos) = PlanOf(pos)
  /\ \A plan, k : Ledger!LadderTarget(plan, k) = LadderTarget(plan, k)
  /\ \A a, b : Ledger!Smaller(a, b) = Smaller(a, b)
<1>1. \A n, first : Ledger!ExitPlanForContracts(n, first) = ExitPlanForContracts(n, first)
  BY DEF ExitPlanForContracts, Ledger!ExitPlanForContracts, Tranche, Ledger!Tranche,
         RunnerTakePercents, Ledger!RunnerTakePercents
<1>2. \A pos : Ledger!PlanOf(pos) = PlanOf(pos)
  BY <1>1 DEF PlanOf, Ledger!PlanOf
<1>3. \A plan, k : Ledger!LadderTarget(plan, k) = LadderTarget(plan, k)
  BY DEF LadderTarget, Ledger!LadderTarget, Share, Ledger!Share, WalkedBefore,
         Ledger!WalkedBefore
<1> QED
  BY <1>2, <1>3 DEF Smaller, Ledger!Smaller

\* What the policy allows a position to be brought to.
LEMMA Targets ==
  ASSUME NEW pos \in Positions
  PROVE  /\ Contracts[pos] \in Ledger!LegalTargets(pos)
         /\ \A k \in DOMAIN PlanOf(pos) :
              LadderTarget(PlanOf(pos), k) \in Ledger!LegalTargets(pos)
         /\ \A s \in LinkedTo[pos] :
              Smaller(Contracts[pos], steveClosed[s]) \in Ledger!LegalTargets(pos)
  BY SamePlan DEF Ledger!LegalTargets

\* No target lies beyond the position.
LEMMA TargetsWithinPosition ==
  ASSUME NEW pos \in Positions, steveClosed \in [Shadows -> Nat],
         NEW t \in Ledger!LegalTargets(pos)
  PROVE  t \in Nat /\ t <= Contracts[pos]
<1>1. Contracts[pos] \in Nat \ {0} /\ FirstTake[pos] \in Nat
  BY PositionsAssumption
<1>2. CASE t = Contracts[pos]
  BY <1>1, <1>2
<1>3. ASSUME NEW k \in DOMAIN PlanOf(pos), t = LadderTarget(PlanOf(pos), k)
      PROVE  t \in Nat /\ t <= Contracts[pos]
  BY <1>1, <1>3, LadderWithinPosition DEF PlanOf
<1>4. ASSUME NEW s \in LinkedTo[pos], t = Smaller(Contracts[pos], steveClosed[s])
      PROVE  t \in Nat /\ t <= Contracts[pos]
  <2>1. steveClosed[s] \in Nat
    BY PositionsAssumption
  <2> QED
    BY <1>1, <1>4, <2>1, SmallerNat
<1> QED
  BY <1>2, <1>3, <1>4, SamePlan DEF Ledger!LegalTargets

\* The rules aim at targets of the policy.
LEMMA RulesAim ==
  ASSUME NEW pos \in Positions, NEW e \in RulesFor(pos)
  PROVE  e.target \in Ledger!LegalTargets(e.pos) /\ e.trigger.kind # "steve_exit"
<1>1. \/ e = Exit(pos, StopLoss, Contracts[pos])
      \/ \E k \in DOMAIN PlanOf(pos) :
           e = Exit(pos, TakeProfit(PlanOf(pos)[k].take), LadderTarget(PlanOf(pos), k))
  BY DEF RulesFor
<1> QED
  BY <1>1, Targets DEF Exit, StopLoss, TakeProfit, Trigger

LEMMA InitAim == Init => AimInv
  BY DEF Init, AimInv, AimsAreTargets, SellsToATarget, SellsSomething, Selling

\* Targets depend on Steve's rows of the shadows that a position follows.
LEMMA TargetsStay ==
  ASSUME NEW pos, \A s \in LinkedTo[pos] : steveClosed'[s] = steveClosed[s]
  PROVE  /\ Ledger!LegalTargets(pos)' = Ledger!LegalTargets(pos)
         /\ \A n : Followed(pos, n)' = Followed(pos, n)
<1>1. {Ledger!Smaller(Contracts[pos], steveClosed'[s]) : s \in LinkedTo[pos]}
        = {Ledger!Smaller(Contracts[pos], steveClosed[s]) : s \in LinkedTo[pos]}
  OBVIOUS
<1> QED
  BY <1>1 DEF Ledger!LegalTargets, Followed

\* A step that adds neither an exit row nor one of Steve's, takes nothing new in hand and
\* starts no sell.
LEMMA AimStays ==
  ASSUME AimInv, UNCHANGED steveClosed, shared \subseteq shared',
         \A p \in Procs : todo'[p] \subseteq todo[p],
         \A p \in Procs : Selling(p)' =>
           Selling(p) /\ sale'[p] = sale[p] /\ closed' = closed
  PROVE  AimInv'
<1>1. \A pos : /\ Ledger!LegalTargets(pos)' = Ledger!LegalTargets(pos)
               /\ \A n : Followed(pos, n)' = Followed(pos, n)
  BY TargetsStay
<1>2. AimsAreTargets'
  BY <1>1 DEF AimInv, AimsAreTargets
<1>3. SellsToATarget'
  BY <1>1 DEF AimInv, SellsToATarget, Reached
<1>4. SellsSomething'
  BY DEF AimInv, SellsSomething
<1> QED
  BY <1>2, <1>3, <1>4 DEF AimInv

\* A process sets about exits that aim at targets; where that, or what Steve has closed
\* meanwhile, concerns a position that another has in hand, the position is shared.
LEMMA AimStarts ==
  ASSUME TypeOK, SellInv, AimInv, UNCHANGED <<closed, sale>>, NEW p \in Procs,
         NEW exits, todo' = [todo EXCEPT ![p] = exits],
         pc' = [pc EXCEPT ![p] = "walk"],
         NEW about, Overlap(p, about),
         \A pos \in Positions \ about : \A s \in LinkedTo[pos] : steveClosed'[s] = steveClosed[s],
         \A e \in exits : /\ e.target \in Ledger!LegalTargets(e.pos)'
                          /\ e.trigger.kind = "steve_exit" => Followed(e.pos, e.target)'
  PROVE  AimInv'
<1>1. /\ todo'[p] = exits /\ ~Selling(p)'
      /\ \A q \in Procs \ {p} : todo'[q] = todo[q] /\ (Selling(q)' <=> Selling(q))
      /\ shared \subseteq shared'
  BY DEF TypeOK, Overlap, Selling
<1>2. ASSUME NEW q \in Procs \ {p}, NEW e \in todo[q], e.pos \notin shared'
      PROVE  /\ Ledger!LegalTargets(e.pos)' = Ledger!LegalTargets(e.pos)
             /\ \A n : Followed(e.pos, n)' = Followed(e.pos, n)
  <2>1. e.pos \in Positions
    BY DEF TypeOK, Exits
  <2>2. e.pos \notin about
    BY <1>2 DEF Overlap, InHand
  <2> QED
    BY <2>1, <2>2, TargetsStay
<1>3. AimsAreTargets'
  <2> SUFFICES ASSUME NEW q \in Procs, NEW e \in todo'[q], e.pos \notin shared'
               PROVE  /\ e.target \in Ledger!LegalTargets(e.pos)'
                      /\ e.trigger.kind = "steve_exit" => Followed(e.pos, e.target)'
    BY DEF AimsAreTargets
  <2>1. CASE q = p
    BY <1>1, <2>1
  <2>2. CASE q # p
    <3>1. e \in todo[q] /\ e.pos \notin shared
      BY <1>1, <2>2
    <3> QED
      BY <1>2, <2>2, <3>1 DEF AimInv, AimsAreTargets
  <2> QED
    BY <2>1, <2>2
<1>4. SellsToATarget'
  <2> SUFFICES ASSUME NEW q \in Procs, Selling(q)', sale[q].exit.pos \notin shared'
               PROVE  /\ Reached(q) \in Ledger!LegalTargets(sale[q].exit.pos)'
                      /\ sale[q].exit.trigger.kind = "steve_exit" =>
                           Followed(sale[q].exit.pos, Reached(q))'
    BY DEF SellsToATarget, Reached
  <2>1. q # p /\ Selling(q) /\ sale[q].exit.pos \notin shared
    BY <1>1
  <2>2. sale[q].exit \in todo[q]
    BY <2>1 DEF SellInv, SaleInHand
  <2>3. Reached(q)' = Reached(q)
    BY DEF Reached
  <2> QED
    BY <1>2, <2>1, <2>2, <2>3 DEF AimInv, SellsToATarget
<1>5. SellsSomething'
  BY <1>1 DEF AimInv, SellsSomething
<1> QED
  BY <1>3, <1>4, <1>5 DEF AimInv

LEMMA NextAim ==
  ASSUME TypeOK, SellInv, AimInv, [Next]_vars
  PROVE  AimInv'
<1> USE DEF TypeOK
<1>1. ASSUME NEW pos \in Positions, MarkMoves(pos) \/ Observe(pos) PROVE AimInv'
  <2>1. UNCHANGED <<closed, shared, todo, pc, sale, steveClosed>>
    BY <1>1 DEF MarkMoves, Observe, exitVars, steveVars, procVars, faultVars
  <2> QED
    BY <2>1, AimStays DEF Selling
<1>2. ASSUME NEW p \in Procs, ApplyRules(p) PROVE AimInv'
  <2> DEFINE open == {pos \in Positions : closed[pos] < Contracts[pos] /\ snap[pos] > -100}
             exits == UNION {RulesFor(pos) : pos \in open}
             about == {e.pos : e \in exits}
  <2>1. \A e \in exits : e.target \in Ledger!LegalTargets(e.pos) /\ e.trigger.kind # "steve_exit"
    BY RulesAim
  <2>2. /\ todo' = [todo EXCEPT ![p] = exits]
        /\ pc' = [pc EXCEPT ![p] = "walk"]
        /\ Overlap(p, about)
        /\ UNCHANGED <<closed, sale, steveClosed>>
    BY <1>2 DEF ApplyRules, exitVars, steveVars
  <2> HIDE DEF exits, about
  <2>3. \A pos : Ledger!LegalTargets(pos)' = Ledger!LegalTargets(pos)
    BY <2>2, TargetsStay
  <2>4. \A pos \in Positions \ about : \A s \in LinkedTo[pos] : steveClosed'[s] = steveClosed[s]
    BY <2>2
  <2> QED
    BY <2>1, <2>2, <2>3, <2>4, AimStarts
<1>3. ASSUME NEW p \in Procs, NEW a \in SteveAlerts, ReceiveSteveExit(p, a) PROVE AimInv'
  <2>1. pc' = [pc EXCEPT ![p] = "match"] /\ UNCHANGED <<closed, shared, todo, sale, steveClosed>>
    BY <1>3 DEF ReceiveSteveExit, exitVars, steveVars, faultVars
  <2> QED
    BY <2>1, AimStays DEF Selling
<1>4. ASSUME NEW p \in Procs, MatchSteveExit(p) PROVE AimInv'
  <2>1. /\ pc' = [pc EXCEPT ![p] = "idle"] \/ pc' = [pc EXCEPT ![p] = "append"]
        /\ UNCHANGED <<closed, shared, todo, sale, steveClosed>>
    BY <1>4 DEF MatchSteveExit, exitVars, steveVars, faultVars
  <2> QED
    BY <2>1, AimStays DEF Selling
<1>5. ASSUME NEW p \in Procs, AppendSteveExit(p) PROVE AimInv'
  <2> DEFINE key == row[p]
             exits == IF alert[p].priced /\ key.shadow # NoShadow
                      THEN CatchUp(key, SteveClosedWith(key)[key.shadow]) ELSE {}
  <2>1. /\ todo' = [todo EXCEPT ![p] = exits]
        /\ pc' = [pc EXCEPT ![p] = "walk"]
        /\ steveClosed' = SteveClosedWith(key)
        /\ Overlap(p, Followers(key.shadow))
        /\ UNCHANGED <<closed, sale>>
    BY <1>5 DEF AppendSteveExit, exitVars
  <2>2. key \in Keys /\ steveClosed' \in [Shadows -> Nat]
    BY <2>1, SteveClosedWithType
  <2>3. ASSUME NEW e \in exits
        PROVE  /\ e.target \in Ledger!LegalTargets(e.pos)'
               /\ Followed(e.pos, e.target)'
    <3>1. key.shadow \in Shadows
      BY <2>2, <2>3 DEF Keys
    <3>2. PICK pos \in Positions :
            /\ key.shadow \in LinkedTo[pos]
            /\ e = Exit(pos, SteveExit(key), Smaller(Contracts[pos], steveClosed'[key.shadow]))
      BY <2>1, <2>3 DEF CatchUp, Followers
    <3>3. e.pos = pos /\ e.target = Smaller(Contracts[pos], steveClosed'[key.shadow])
      BY <3>2 DEF Exit
    <3>4. e.target \in Ledger!LegalTargets(e.pos)'
      BY <3>2, <3>3, SamePlan DEF Ledger!LegalTargets
    <3>5. e.target <= steveClosed'[key.shadow]
      <4>1. Contracts[pos] \in Nat /\ steveClosed'[key.shadow] \in Nat
        BY <2>2, <3>1, PositionsAssumption
      <4> QED
        BY <3>3, <4>1, SmallerNat
    <3> QED
      BY <3>2, <3>3, <3>4, <3>5 DEF Followed
  <2> HIDE DEF exits
  <2>4. \A s \in Shadows : s # key.shadow => steveClosed'[s] = steveClosed[s]
    BY <2>1 DEF SteveClosedWith
  <2>5. \A pos \in Positions \ Followers(key.shadow) : \A s \in LinkedTo[pos] :
          steveClosed'[s] = steveClosed[s]
    BY <2>4, PositionsAssumption DEF Followers
  <2> QED
    BY <2>1, <2>3, <2>5, AimStarts
<1>6. ASSUME NEW p \in Procs, SkipExit(p) \/ EndWalk(p) PROVE AimInv'
  <2>1. /\ \A q \in Procs : todo'[q] \subseteq todo[q]
        /\ pc' = pc \/ pc' = [pc EXCEPT ![p] = "idle"]
        /\ UNCHANGED <<closed, shared, sale, steveClosed>>
    BY <1>6 DEF SkipExit, EndWalk, exitVars, steveVars, faultVars
  <2> QED
    BY <2>1, AimStays DEF Selling
<1>7. ASSUME NEW p \in Procs, StartExit(p) PROVE AimInv'
  <2>1. PICK e \in todo[p] : /\ Quantity(p, e) > 0
                             /\ sale' = [sale EXCEPT ![p] = Sale(e, Quantity(p, e))]
    BY <1>7 DEF StartExit, NextOf
  <2>2. /\ pc[p] = "walk" /\ pc' = [pc EXCEPT ![p] = "submit"]
        /\ UNCHANGED <<closed, todo, steveClosed, shared>>
    BY <1>7 DEF StartExit, exitVars, steveVars, faultVars
  <2>3. e \in Exits /\ e.pos \in Positions
    BY <2>1 DEF Exits
  <2>4. sale'[p].exit = e /\ sale'[p].qty = Quantity(p, e)
    BY <2>1 DEF Sale
  <2>5. \A q \in Procs \ {p} : sale'[q] = sale[q] /\ (Selling(q)' <=> Selling(q))
    BY <2>1, <2>2 DEF Selling
  <2>6. \A pos : /\ Ledger!LegalTargets(pos)' = Ledger!LegalTargets(pos)
                 /\ \A n : Followed(pos, n)' = Followed(pos, n)
    BY <2>2, TargetsStay
  <2>7. ASSUME e.pos \notin shared
        PROVE  /\ Reached(p)' = e.target
               /\ e.target \in Ledger!LegalTargets(e.pos)
               /\ e.trigger.kind = "steve_exit" => Followed(e.pos, e.target)
    <3>1. /\ e.target \in Ledger!LegalTargets(e.pos)
          /\ e.trigger.kind = "steve_exit" => Followed(e.pos, e.target)
      BY <2>1, <2>7 DEF AimInv, AimsAreTargets
    <3>2. e.target \in Nat /\ e.target <= Contracts[e.pos]
      BY <2>3, <3>1, TargetsWithinPosition
    <3>3. closed[e.pos] \in Nat /\ Contracts[e.pos] \in Nat
      BY <2>3, PositionsAssumption
    <3>4. rows[p][e.pos] = closed[e.pos]
      BY <2>1, <2>7 DEF SellInv, RowsCurrent
    <3>5. Smaller(e.target, Contracts[e.pos]) = e.target
      BY <3>2, <3>3, SmallerIsFirst
    <3>6. Quantity(p, e) = Max0(e.target - closed[e.pos])
      BY <3>4, <3>5 DEF Quantity
    <3>7. closed[e.pos] + Quantity(p, e) = e.target
      BY <2>1, <3>2, <3>3, <3>6 DEF Max0
    <3> QED
      BY <2>2, <2>4, <3>1, <3>7 DEF Reached
  <2>8. AimsAreTargets'
    BY <2>2, <2>6 DEF AimInv, AimsAreTargets
  <2>9. SellsToATarget'
    <3> SUFFICES ASSUME NEW q \in Procs, Selling(q)', sale'[q].exit.pos \notin shared
                 PROVE  /\ Reached(q)' \in Ledger!LegalTargets(sale[q].exit.pos)'
                        /\ sale'[q].exit.trigger.kind = "steve_exit" =>
                             Followed(sale[q].exit.pos, Reached(q))'
      BY <2>2 DEF SellsToATarget
    <3>1. CASE q = p
      BY <2>4, <2>6, <2>7, <3>1
    <3>2. CASE q # p
      <4>1. Reached(q)' = Reached(q)
        BY <2>2, <2>5, <3>2 DEF Reached
      <4> QED
        BY <2>5, <2>6, <3>2, <4>1 DEF AimInv, SellsToATarget
    <3> QED
      BY <3>1, <3>2
  <2>10. SellsSomething'
    BY <2>1, <2>4, <2>5 DEF AimInv, SellsSomething
  <2> QED
    BY <2>8, <2>9, <2>10 DEF AimInv
<1>8. ASSUME NEW p \in Procs, SubmitSell(p) PROVE AimInv'
  <2>1. /\ pc[p] = "submit" /\ pc' = [pc EXCEPT ![p] = "record"]
        /\ UNCHANGED <<closed, sale, todo, shared, steveClosed>>
    BY <1>8 DEF SubmitSell, exitVars, steveVars, faultVars
  <2> QED
    BY <2>1, AimStays DEF Selling
<1>9. ASSUME NEW p \in Procs, RecordExit(p) PROVE AimInv'
  <2> DEFINE pos == sale[p].exit.pos
             qty == sale[p].qty
  <2>1. /\ closed' = [closed EXCEPT ![pos] = @ + qty]
        /\ sale' = [sale EXCEPT ![p] = NoSale]
        /\ pc[p] = "record" /\ pc' = [pc EXCEPT ![p] = "walk"]
        /\ \A q \in Procs : todo'[q] \subseteq todo[q]
        /\ UNCHANGED <<shared, steveClosed>>
    BY <1>9 DEF RecordExit, steveVars, faultVars
  <2>2. Selling(p) /\ ~Selling(p)'
    BY <2>1 DEF Selling
  <2>3. \A q \in Procs \ {p} : sale'[q] = sale[q] /\ (Selling(q)' <=> Selling(q))
    BY <2>1 DEF Selling
  <2>4. \A x : /\ Ledger!LegalTargets(x)' = Ledger!LegalTargets(x)
               /\ \A n : Followed(x, n)' = Followed(x, n)
    BY <2>1, TargetsStay
  <2>5. AimsAreTargets'
    BY <2>1, <2>4 DEF AimInv, AimsAreTargets
  <2>6. SellsToATarget'
    <3> SUFFICES ASSUME NEW q \in Procs, Selling(q)', sale'[q].exit.pos \notin shared
                 PROVE  /\ Reached(q)' \in Ledger!LegalTargets(sale[q].exit.pos)'
                        /\ sale'[q].exit.trigger.kind = "steve_exit" =>
                             Followed(sale[q].exit.pos, Reached(q))'
      BY <2>1 DEF SellsToATarget
    <3>1. q # p /\ Selling(q) /\ sale'[q] = sale[q]
      BY <2>2, <2>3
    <3>2. sale[q].exit.pos # pos
      <4>1. ASSUME pos \notin shared PROVE sale[q].exit.pos # pos
        BY <2>2, <3>1, <4>1, NobodyElseSells
      <4> QED
        BY <3>1, <4>1
    <3>3. sale[q].exit.pos \in Positions
      BY <3>1 DEF SellInv, SaleInHand, Exits
    <3> HIDE DEF pos, qty
    <3>4. Reached(q)' = Reached(q)
      BY <2>1, <3>1, <3>2, <3>3 DEF Reached
    <3> QED
      BY <2>4, <3>1, <3>4 DEF AimInv, SellsToATarget
  <2>7. SellsSomething'
    BY <2>2, <2>3 DEF AimInv, SellsSomething
  <2> QED
    BY <2>5, <2>6, <2>7 DEF AimInv
<1>10. ASSUME NEW p \in Procs, Crash(p) PROVE AimInv'
  <2>1. /\ todo' = [todo EXCEPT ![p] = {}] /\ pc' = [pc EXCEPT ![p] = "idle"]
        /\ sale' = [sale EXCEPT ![p] = NoSale]
        /\ UNCHANGED <<closed, shared, steveClosed>>
    BY <1>10 DEF Crash, Restart, exitVars, steveVars
  <2>2. \A q \in Procs : todo'[q] \subseteq todo[q]
    BY <2>1
  <2>3. \A q \in Procs : Selling(q)' => Selling(q) /\ sale'[q] = sale[q]
    BY <2>1 DEF Selling
  <2> QED
    BY <2>1, <2>2, <2>3, AimStays
<1>11. CASE UNCHANGED vars
  <2>1. UNCHANGED <<closed, shared, todo, pc, sale, steveClosed>>
    BY <1>11 DEF vars, exitVars, steveVars, procVars, faultVars
  <2> QED
    BY <2>1, AimStays DEF Selling
<1> QED
  BY <1>1, <1>2, <1>3, <1>4, <1>5, <1>6, <1>7, <1>8, <1>9, <1>10, <1>11
  DEF Next, HandleSteveExit, Walk

LEMMA AimInvariant == Spec => [](TypeOK /\ SellInv /\ AimInv)
<1>1. Init => TypeOK /\ SellInv /\ AimInv
  BY InitType, InitSell, InitAim
<1>2. TypeOK /\ SellInv /\ AimInv /\ [Next]_vars => (TypeOK /\ SellInv /\ AimInv)'
  BY NextType, NextSell, NextAim
<1> QED
  BY <1>1, <1>2, PTL DEF Spec

\* The step that appends an exit row is the only one that changes "closed", and the
\* step that appends Steve's is the only one that changes "steveClosed"; a position
\* once shared stays so.
LEMMA OtherStepsKeepLedger ==
  ASSUME [Next]_vars
  PROVE  \/ UNCHANGED <<closed, steveClosed>> /\ shared \subseteq shared'
         \/ \E p \in Procs : RecordExit(p) \/ AppendSteveExit(p)
<1> DEFINE Kept == UNCHANGED <<closed, steveClosed>> /\ shared \subseteq shared'
<1>1. ASSUME NEW p \in Procs, SkipExit(p) \/ StartExit(p) \/ SubmitSell(p) \/ EndWalk(p)
      PROVE  Kept
  BY <1>1 DEF SkipExit, StartExit, SubmitSell, EndWalk, exitVars, steveVars, faultVars
<1>2. ASSUME NEW p \in Procs, ApplyRules(p) \/ MatchSteveExit(p) \/ Crash(p)
      PROVE  Kept
  BY <1>2 DEF ApplyRules, MatchSteveExit, Crash, Overlap, exitVars, steveVars, faultVars
<1>3. ASSUME NEW p \in Procs, NEW a \in SteveAlerts, ReceiveSteveExit(p, a)
      PROVE  Kept
  BY <1>3 DEF ReceiveSteveExit, exitVars, steveVars, faultVars
<1>4. ASSUME NEW pos \in Positions, MarkMoves(pos) \/ Observe(pos)
      PROVE  Kept
  BY <1>4 DEF MarkMoves, Observe, exitVars, steveVars, faultVars
<1>5. CASE UNCHANGED vars
  BY <1>5 DEF vars, exitVars, steveVars, faultVars
<1> QED
  BY <1>1, <1>2, <1>3, <1>4, <1>5 DEF Next, HandleSteveExit, Walk

\* However many processes handle exits, every exit row brings its position exactly to a
\* target that the policy names, although the target was computed before a broker call
\* and the row is written after it, unless two processes had the position in hand at the
\* same time: PaperExits refines ExitLedger.
THEOREM ExitsImplementLedger == Spec => LedgerSpec
<1>1. Init => Ledger!Init
  BY DEF Init, Ledger!Init
<1>2. TypeOK /\ SellInv /\ AimInv /\ [Next]_vars => [Ledger!Next]_(Ledger!ledgerVars)
  <2> SUFFICES ASSUME TypeOK, SellInv, AimInv, [Next]_vars
               PROVE  [Ledger!Next]_(Ledger!ledgerVars)
    OBVIOUS
  <2>1. ASSUME NEW p \in Procs, RecordExit(p) PROVE Ledger!Next
    <3> DEFINE pos == sale[p].exit.pos
               qty == sale[p].qty
    <3>1. pc[p] = "record" /\ closed' = [closed EXCEPT ![pos] = @ + qty]
          /\ UNCHANGED <<steveClosed, shared>>
      BY <2>1 DEF RecordExit, steveVars, faultVars
    <3>2. pos \in Positions /\ qty \in Nat /\ closed[pos] \in Nat
      BY <3>1, SellOrderIdType DEF TypeOK, BusyOK
    <3>3. qty > 0 /\ (pos \in shared \/ closed[pos] + qty \in Ledger!LegalTargets(pos))
      BY <3>1 DEF AimInv, SellsToATarget, SellsSomething, Selling, Reached
    <3> HIDE DEF pos, qty
    <3>4. closed'[pos] = closed[pos] + qty
      BY <3>1, <3>2 DEF TypeOK
    <3>5. closed' = [closed EXCEPT ![pos] = closed'[pos]]
      BY <3>1, <3>4
    <3>6. closed'[pos] > closed[pos]
      BY <3>2, <3>3, <3>4
    <3>7. Ledger!CloseUpTo(pos)
      BY <3>1, <3>3, <3>4, <3>5, <3>6 DEF Ledger!CloseUpTo
    <3> QED
      BY <3>2, <3>7 DEF Ledger!Next
  <2>2. ASSUME NEW p \in Procs, AppendSteveExit(p) PROVE Ledger!Next
    <3> DEFINE key == row[p]
    <3>1. steveClosed' = SteveClosedWith(key) /\ UNCHANGED closed
      BY <2>2 DEF AppendSteveExit, exitVars
    <3>2. key \in Keys /\ steveClosed \in [Shadows -> Nat]
      BY DEF TypeOK
    <3>3. Ledger!MayOverlap
      <4>1. TypeOK'
        BY NextType
      <4> QED
        BY <2>2, <4>1 DEF AppendSteveExit, Overlap, TypeOK, Ledger!MayOverlap
    <3>4. CASE steveClosed' = steveClosed
      BY <3>1, <3>3, <3>4 DEF Ledger!Overlap, Ledger!Next
    <3>5. CASE steveClosed' # steveClosed
      <4>1. steveClosed' = [steveClosed EXCEPT ![key.shadow] = @ + key.contracts]
            /\ key.shadow \in Shadows /\ key.contracts \in Nat
        BY <3>1, <3>2, <3>5 DEF SteveClosedWith, Keys
      <4>2. steveClosed'[key.shadow] = steveClosed[key.shadow] + key.contracts
        BY <3>2, <4>1
      <4>3. key.contracts # 0
        <5>1. SUFFICES ASSUME key.contracts = 0 PROVE FALSE
          OBVIOUS
        <5>2. steveClosed[key.shadow] + key.contracts = steveClosed[key.shadow]
          BY <3>2, <4>1, <5>1
        <5>3. steveClosed' = steveClosed
          BY <3>2, <4>1, <5>2
        <5> QED
          BY <3>5, <5>3
      <4>4. steveClosed'[key.shadow] > steveClosed[key.shadow]
        BY <3>2, <4>1, <4>2, <4>3
      <4>5. Ledger!SteveCloses(key.shadow)
        BY <3>1, <3>3, <4>1, <4>2, <4>4 DEF Ledger!SteveCloses
      <4> QED
        BY <4>1, <4>5 DEF Ledger!Next
    <3> QED
      BY <3>4, <3>5
  <2>3. ASSUME UNCHANGED <<closed, steveClosed>>, shared \subseteq shared' PROVE Ledger!Next
    <3>1. TypeOK'
      BY NextType
    <3> QED
      BY <2>3, <3>1 DEF TypeOK, Ledger!MayOverlap, Ledger!Overlap, Ledger!Next
  <2> QED
    BY <2>1, <2>2, <2>3, OtherStepsKeepLedger
<1> QED
  BY <1>1, <1>2, AimInvariant, PTL DEF Spec, LedgerSpec, Ledger!Spec

\* A catch-up never takes the local rows beyond what Steve has closed by then, though the
\* stop and the ladder sell of the same position and other processes of other positions,
\* unless two processes had this one in hand at the same time.
THEOREM CatchUpNeverOvertakes == Spec => SteveNeverOvertakes
<1>1. TypeOK /\ SellInv /\ AimInv /\ [Next]_vars
        => [\A p \in Procs :
              LET pos == sale[p].exit.pos
              IN  (/\ pc[p] = "record" /\ pc'[p] = "walk"
                   /\ sale[p].exit.trigger.kind = "steve_exit" /\ pos \notin shared)
                  => \E s \in LinkedTo[pos] : closed'[pos] <= steveClosed[s]]_vars
  <2> SUFFICES ASSUME TypeOK, SellInv, AimInv, [Next]_vars, NEW p \in Procs,
                      pc[p] = "record", pc'[p] = "walk",
                      sale[p].exit.trigger.kind = "steve_exit",
                      sale[p].exit.pos \notin shared
               PROVE  \E s \in LinkedTo[sale[p].exit.pos] :
                        closed'[sale[p].exit.pos] <= steveClosed[s]
    OBVIOUS
  <2>1. sale[p].exit.pos \in Positions
    BY SellOrderIdType DEF TypeOK, BusyOK
  <2>2. RecordExit(p)
    <3>1. \A q \in Procs :
            ApplyRules(q) \/ HandleSteveExit(q) \/ Walk(q) \/ Crash(q) => q = p
      BY DEF TypeOK, HandleSteveExit, Walk, ApplyRules, ReceiveSteveExit, MatchSteveExit,
         AppendSteveExit, SkipExit, StartExit, SubmitSell, RecordExit, EndWalk, Crash, Restart
    <3>2. ~ApplyRules(p) /\ ~HandleSteveExit(p) /\ ~Crash(p)
      BY DEF TypeOK, HandleSteveExit, ApplyRules, ReceiveSteveExit, MatchSteveExit,
         AppendSteveExit, Crash, Restart
    <3>3. ~SkipExit(p) /\ ~StartExit(p) /\ ~SubmitSell(p) /\ ~EndWalk(p)
      BY DEF SkipExit, StartExit, SubmitSell, EndWalk
    <3>4. pc' # pc
      OBVIOUS
    <3>5. \A pos \in Positions : ~MarkMoves(pos) /\ ~Observe(pos)
      BY <3>4 DEF MarkMoves, Observe, procVars
    <3> QED
      BY <3>1, <3>2, <3>3, <3>4, <3>5 DEF Next, Walk, vars, procVars
  <2>3. closed'[sale[p].exit.pos] = Reached(p)
    BY <2>1, <2>2 DEF RecordExit, TypeOK, Reached
  <2> QED
    BY <2>3 DEF AimInv, SellsToATarget, Followed, Selling
<1> QED
  BY <1>1, AimInvariant, PTL DEF Spec, SteveNeverOvertakes

-----------------------------------------------------------------------------
(* The broker, too: an order that it took is followed by the row of its       *)
(* exit, unless the process dies in between.                                  *)

\* The broker holds no more of a position than the rows say, but for the sell under way.
Exempt == shared \cup cut
Submitted(p, pos) == pc[p] = "record" /\ sale[p].exit.pos = pos
BrokerWithinRows ==
  \A pos \in Positions \ Exempt :
    /\ (\A p \in Procs : ~Submitted(p, pos)) => sold[pos] <= closed[pos]
    /\ \A p \in Procs : Submitted(p, pos) => sold[pos] <= closed[pos] + sale[p].qty

LEMMA BrokerStays ==
  ASSUME BrokerWithinRows, UNCHANGED <<sold, closed>>, Exempt \subseteq Exempt',
         \A p \in Procs, pos \in Positions \ Exempt' :
           /\ Submitted(p, pos)' <=> Submitted(p, pos)
           /\ Submitted(p, pos) => sale'[p] = sale[p]
  PROVE  BrokerWithinRows'
  BY DEF BrokerWithinRows

LEMMA NextBroker ==
  ASSUME TypeOK, SellInv, BrokerWithinRows, [Next]_vars
  PROVE  BrokerWithinRows'
<1> USE DEF TypeOK
<1>1. ASSUME NEW pos \in Positions, MarkMoves(pos) \/ Observe(pos) PROVE BrokerWithinRows'
  <2>1. UNCHANGED <<sold, closed, shared, cut, pc, sale>>
    BY <1>1 DEF MarkMoves, Observe, exitVars, brokerVars, procVars, faultVars
  <2> QED
    BY <2>1, BrokerStays DEF Submitted, Exempt
<1>2. ASSUME NEW p \in Procs, ApplyRules(p) \/ AppendSteveExit(p) PROVE BrokerWithinRows'
  <2>1. /\ pc[p] # "record" /\ pc' = [pc EXCEPT ![p] = "walk"]
        /\ shared \subseteq shared'
        /\ UNCHANGED <<sold, closed, cut, sale>>
    BY <1>2 DEF ApplyRules, AppendSteveExit, Overlap, exitVars, brokerVars
  <2> QED
    BY <2>1, BrokerStays DEF Submitted, Exempt
<1>3. ASSUME NEW p \in Procs, NEW a \in SteveAlerts, ReceiveSteveExit(p, a)
      PROVE  BrokerWithinRows'
  <2>1. /\ pc[p] # "record" /\ pc' = [pc EXCEPT ![p] = "match"]
        /\ UNCHANGED <<sold, closed, shared, cut, sale>>
    BY <1>3 DEF ReceiveSteveExit, exitVars, brokerVars, faultVars
  <2> QED
    BY <2>1, BrokerStays DEF Submitted, Exempt
<1>4. ASSUME NEW p \in Procs, MatchSteveExit(p) PROVE BrokerWithinRows'
  <2>1. /\ pc[p] = "match" /\ UNCHANGED <<sold, closed, shared, cut, sale>>
        /\ pc' = [pc EXCEPT ![p] = "idle"] \/ pc' = [pc EXCEPT ![p] = "append"]
    BY <1>4 DEF MatchSteveExit, exitVars, brokerVars, faultVars
  <2> QED
    BY <2>1, BrokerStays DEF Submitted, Exempt
<1>5. ASSUME NEW p \in Procs, SkipExit(p) \/ EndWalk(p) PROVE BrokerWithinRows'
  <2>1. /\ pc[p] = "walk" /\ UNCHANGED <<sold, closed, shared, cut, sale>>
        /\ pc' = pc \/ pc' = [pc EXCEPT ![p] = "idle"]
    BY <1>5 DEF SkipExit, EndWalk, exitVars, brokerVars, faultVars
  <2> QED
    BY <2>1, BrokerStays DEF Submitted, Exempt
<1>6. ASSUME NEW p \in Procs, StartExit(p) PROVE BrokerWithinRows'
  <2>1. /\ pc[p] = "walk" /\ pc' = [pc EXCEPT ![p] = "submit"]
        /\ \A q \in Procs \ {p} : sale'[q] = sale[q]
        /\ UNCHANGED <<sold, closed, shared, cut>>
    BY <1>6 DEF StartExit, exitVars, brokerVars, faultVars
  <2> QED
    BY <2>1, BrokerStays DEF Submitted, Exempt
<1>7. ASSUME NEW p \in Procs, SubmitSell(p) PROVE BrokerWithinRows'
  <2>1. PICK pos \in Positions, qty \in Nat : pos = sale[p].exit.pos /\ qty = sale[p].qty
    BY <1>7, SellOrderIdType DEF SubmitSell, BusyOK
  <2>2. /\ pc[p] = "submit" /\ pc' = [pc EXCEPT ![p] = "record"]
        /\ UNCHANGED <<closed, sale, shared, cut>>
        /\ sold' = sold \/ sold' = [sold EXCEPT ![pos] = @ + qty]
    BY <1>7, <2>1 DEF SubmitSell, BrokerTakes, brokerVars, exitVars, faultVars
  <2>3. \A q \in Procs, x \in Positions :
          q # p \/ x # pos => (Submitted(q, x)' <=> Submitted(q, x))
    BY <2>1, <2>2 DEF Submitted
  <2>4. ~Submitted(p, pos) /\ Submitted(p, pos)'
    BY <2>1, <2>2 DEF Submitted
  <2>5. \A x \in Positions : x # pos => sold'[x] = sold[x]
    BY <2>2
  <2>6. ASSUME pos \notin Exempt
        PROVE  /\ \A q \in Procs : Submitted(q, pos)' => q = p
               /\ sold'[pos] <= closed[pos] + qty
    <3>1. \A q \in Procs : ~Submitted(q, pos)
      BY <2>2, <2>4, <2>1, <2>6, NobodyElseSells DEF Submitted, Selling, Exempt
    <3>2. sold[pos] <= closed[pos]
      BY <2>6, <3>1 DEF BrokerWithinRows
    <3>3. sold'[pos] = sold[pos] \/ sold'[pos] = sold[pos] + qty
      BY <2>2
    <3>4. sold[pos] \in Nat /\ closed[pos] \in Nat
      OBVIOUS
    <3> QED
      BY <2>3, <3>1, <3>2, <3>3, <3>4
  <2>7. ASSUME NEW x \in Positions \ Exempt, x # pos
        PROVE  /\ (\A q \in Procs : ~Submitted(q, x)') => sold'[x] <= closed'[x]
               /\ \A q \in Procs : Submitted(q, x)' => sold'[x] <= closed'[x] + sale'[q].qty
    BY <2>2, <2>3, <2>5, <2>7 DEF BrokerWithinRows
  <2>8. ASSUME pos \notin Exempt
        PROVE  /\ (\A q \in Procs : ~Submitted(q, pos)') => sold'[pos] <= closed'[pos]
               /\ \A q \in Procs : Submitted(q, pos)' => sold'[pos] <= closed'[pos] + sale'[q].qty
    BY <2>1, <2>2, <2>4, <2>6, <2>8
  <2>9. Exempt' = Exempt
    BY <2>2 DEF Exempt
  <2> QED
    BY <2>7, <2>8, <2>9 DEF BrokerWithinRows
<1>8. ASSUME NEW p \in Procs, RecordExit(p) PROVE BrokerWithinRows'
  <2>1. PICK pos \in Positions, qty \in Nat : pos = sale[p].exit.pos /\ qty = sale[p].qty
    BY <1>8, SellOrderIdType DEF RecordExit, BusyOK
  <2>2. /\ pc[p] = "record" /\ pc' = [pc EXCEPT ![p] = "walk"]
        /\ sale' = [sale EXCEPT ![p] = NoSale]
        /\ closed' = [closed EXCEPT ![pos] = @ + qty]
        /\ UNCHANGED <<sold, shared, cut>>
    BY <1>8, <2>1 DEF RecordExit, brokerVars, faultVars
  <2>3. /\ \A x \in Positions : ~Submitted(p, x)'
        /\ \A q \in Procs \ {p} : /\ sale'[q] = sale[q]
                                  /\ \A x \in Positions : Submitted(q, x)' <=> Submitted(q, x)
        /\ \A x \in Positions : Submitted(p, x) => x = pos
        /\ Submitted(p, pos)
    BY <2>1, <2>2 DEF Submitted
  <2>4. /\ closed'[pos] = closed[pos] + qty
        /\ \A x \in Positions : x # pos => closed'[x] = closed[x]
    BY <2>2
  <2>5. ASSUME pos \notin Exempt
        PROVE  /\ sold'[pos] <= closed'[pos]
               /\ \A q \in Procs : ~Submitted(q, pos)'
    <3>1. \A q \in Procs \ {p} : ~Submitted(q, pos)
      BY <2>2, <2>1, <2>5, NobodyElseSells DEF Submitted, Selling, Exempt
    <3> QED
      BY <2>1, <2>2, <2>3, <2>4, <2>5, <3>1 DEF BrokerWithinRows
  <2>6. ASSUME NEW x \in Positions \ Exempt, x # pos
        PROVE  /\ (\A q \in Procs : ~Submitted(q, x)') => sold'[x] <= closed'[x]
               /\ \A q \in Procs : Submitted(q, x)' => sold'[x] <= closed'[x] + sale'[q].qty
    BY <2>2, <2>3, <2>4, <2>6 DEF BrokerWithinRows
  <2>7. Exempt' = Exempt
    BY <2>2 DEF Exempt
  <2> QED
    BY <2>5, <2>6, <2>7 DEF BrokerWithinRows
<1>9. ASSUME NEW p \in Procs, Crash(p) PROVE BrokerWithinRows'
  <2> DEFINE pos == sale[p].exit.pos
  <2>1. /\ pc' = [pc EXCEPT ![p] = "idle"] /\ sale' = [sale EXCEPT ![p] = NoSale]
        /\ cut' = IF pc[p] \in {"submit", "record"} THEN cut \cup {pos} ELSE cut
        /\ UNCHANGED <<closed, shared>>
        /\ sold' = sold \/ (pc[p] = "submit" /\ sold' = [sold EXCEPT ![pos] = @ + sale[p].qty])
    BY <1>9 DEF Crash, Restart, BrokerTakes, brokerVars, exitVars
  <2>2. \A q \in Procs \ {p} : /\ sale'[q] = sale[q]
                               /\ \A x \in Positions : Submitted(q, x)' <=> Submitted(q, x)
    BY <2>1 DEF Submitted
  <2>3. \A x \in Positions : ~Submitted(p, x)'
    BY <2>1 DEF Submitted
  <2>4. ASSUME NEW x \in Positions \ Exempt'
        PROVE  /\ x \notin Exempt /\ ~Submitted(p, x)
               /\ sold'[x] = sold[x]
    <3>1. x \notin Exempt /\ ~Submitted(p, x)
      BY <2>1, <2>4 DEF Exempt, Submitted
    <3>2. pc[p] = "submit" => x # pos
      BY <2>1, <2>4 DEF Exempt
    <3> HIDE DEF pos
    <3>3. sold'[x] = sold[x]
      BY <2>1, <3>2
    <3> QED
      BY <3>1, <3>3
  <2> QED
    BY <2>1, <2>2, <2>3, <2>4 DEF BrokerWithinRows
<1>10. CASE UNCHANGED vars
  <2>1. UNCHANGED <<sold, closed, shared, cut, pc, sale>>
    BY <1>10 DEF vars, exitVars, brokerVars, procVars, faultVars
  <2> QED
    BY <2>1, BrokerStays DEF Submitted, Exempt
<1> QED
  BY <1>1, <1>2, <1>3, <1>4, <1>5, <1>6, <1>7, <1>8, <1>9, <1>10
  DEF Next, HandleSteveExit, Walk

\* However many processes handle exits, the broker never holds sell orders for more than
\* the position, though answers are lost and refused orders not repeated, unless a process
\* died amid a sell of it or two had it in hand at the same time.
THEOREM BrokerNotOversoldUnlessCut == Spec => []BrokerNotOversold
<1>1. Init => BrokerWithinRows
  BY DEF Init, BrokerWithinRows, Submitted
<1>2. TypeOK /\ SellInv /\ BrokerWithinRows => BrokerNotOversold
  <2> SUFFICES ASSUME TypeOK, SellInv, BrokerWithinRows,
                      NEW pos \in Positions \ (shared \cup cut)
               PROVE  sold[pos] <= Contracts[pos]
    BY DEF BrokerNotOversold
  <2>1. /\ sold[pos] \in Nat /\ closed[pos] \in Nat /\ Contracts[pos] \in Nat
        /\ closed[pos] <= Contracts[pos]
    BY PositionsAssumption DEF TypeOK, SellInv, NoOversell
  <2>2. CASE \A p \in Procs : ~Submitted(p, pos)
    BY <2>1, <2>2 DEF BrokerWithinRows, Exempt
  <2>3. ASSUME NEW p \in Procs, Submitted(p, pos) PROVE sold[pos] <= Contracts[pos]
    <3>1. /\ sold[pos] <= closed[pos] + sale[p].qty
          /\ closed[pos] + sale[p].qty <= Contracts[pos]
      BY <2>3 DEF BrokerWithinRows, SellInv, RowsCurrent, Exempt, Submitted
    <3>2. sale[p].qty \in Nat
      BY <2>3, SellOrderIdType DEF TypeOK, BusyOK, Submitted
    <3> QED
      BY <2>1, <3>1, <3>2
  <2> QED
    BY <2>2, <2>3
<1>3. TypeOK /\ SellInv /\ BrokerWithinRows /\ [Next]_vars => BrokerWithinRows'
  BY NextBroker
<1> QED
  BY <1>1, <1>2, <1>3, SellInvariant, PTL DEF Spec

=============================================================================
