----------------------------- MODULE PaperExits -----------------------------
(***************************************************************************)
(* The exit side of scripts/option_validation.py: the stop and             *)
(* take-profit rules the live pipeline runs every tracking cycle           *)
(* (apply_human_exit_rules_once), the handling of Steve's exit alerts      *)
(* (handle_option_exit, apply_steve_exit_to_human_positions) and the one   *)
(* function both go through (append_human_exit), which submits a paper     *)
(* sell order before it appends the local exit row.                        *)
(*                                                                         *)
(* Processes share nothing but the JSONL ledgers.  Each reads the exit     *)
(* rows once at the start of its walk and works on that copy; only the ids *)
(* of recorded exits are re-read from the file before each sell.           *)
(***************************************************************************)
EXTENDS ExitPlan, FiniteSets

CONSTANTS
  Procs,           \* processes that handle exits
  RulesProcs,      \* those that also run the tracking cycle (the live pipeline)
  Positions,       \* local paper positions, in ledger order
  Shadows,         \* Steve's positions, numbered in the order he opened them
  Contracts,       \* contracts of each local position
  FirstTake,       \* percent of its first take-profit target
  StopPercent,     \* percent of its hard stop
  ShadowContracts, \* contracts of each shadow position
  LinkedTo,        \* shadows with the position's source key or contract symbol
  TrackedBy,       \* shadows with its source key AND contract: their quotes count
  Marks,           \* percent moves of the option price that may be observed
  SteveAlerts,     \* Steve's exit alerts
  MaxCrashes       \* bound: process crashes in a behaviour

ASSUME ProcsAssumption == RulesProcs \subseteq Procs

ASSUME PositionsAssumption ==
  /\ Positions \subseteq Nat
  /\ Shadows \subseteq Nat \ {0}
  /\ Contracts \in [Positions -> Nat \ {0}]
  /\ FirstTake \in [Positions -> Nat \ {0}]
  /\ StopPercent \in [Positions -> Nat]
  /\ ShadowContracts \in [Shadows -> Nat \ {0}]
  /\ LinkedTo \in [Positions -> SUBSET Shadows]
  /\ TrackedBy \in [Positions -> SUBSET Shadows]

ASSUME MarksAssumption == Marks \subseteq Int /\ 0 \in Marks

\* An alert names a ticker (the shadows in "wide") and perhaps expiry, type and
\* strike ("narrow" of those); contracts = 0 when it names no amount; "bucket"
\* is its price and minute; "priced" tells where the exit price comes from.
ASSUME AlertsAssumption ==
  \A a \in SteveAlerts :
    /\ a.wide \subseteq Shadows /\ a.narrow \subseteq a.wide
    /\ a.contracts \in Nat
    /\ a.priced \in BOOLEAN      \* an exit price, or "stopped out" (the stop price)

ASSUME CrashAssumption == MaxCrashes \in Nat

VARIABLES
  mark,         \* market: percent move of each position's option price
  snap,         \* the latest snapshot the rules can find for each position
  closed,       \* human_paper_exits.jsonl: contracts closed, per position
  exitIds,      \* human_paper_exits.jsonl: the exit ids, <<position, trigger>>
  steveKeys,    \* steve_exits.jsonl: canonical exit keys
  steveSeen,    \* steve_exits.jsonl: alerts, by canonical raw exit key
  steveClosed,  \* steve_exits.jsonl: contracts Steve has closed, per shadow
  audited,      \* orders_paper.jsonl: client order ids with an audit row
  brokerIds,    \* client order ids of the sell orders the broker holds
  sold,         \* contracts in those orders, per position
  pc,           \* where each process is
  rows,         \* its copy of the exit rows: contracts closed, per position
  todo,         \* exits its walk still has to attempt
  sale,         \* the sell it is carrying out
  alert,        \* the alert it is handling
  row,          \* the steve exit row it is about to append
  crashes,
  shared,       \* history: positions two processes handled at the same time
  cut           \* history: positions of which a process died amid a sell

marketVars == <<mark, snap>>
exitVars   == <<closed, exitIds>>
steveVars  == <<steveKeys, steveSeen, steveClosed>>
brokerVars == <<audited, brokerIds, sold>>
procVars   == <<pc, rows, todo, sale, alert, row>>
faultVars  == <<crashes, shared, cut>>
vars == <<marketVars, exitVars, steveVars, brokerVars, procVars, faultVars>>

Smaller(a, b) == IF a < b THEN a ELSE b
Max0(n) == IF n > 0 THEN n ELSE 0

-----------------------------------------------------------------------------
(* Records                                                                 *)

NoShadow == 0
NoAlert  == [id |-> 0]

ExitKey(shadow, contracts, bucket) ==
  [shadow |-> shadow, contracts |-> contracts, bucket |-> bucket]
NoKey == ExitKey(NoShadow, 0, 0)

\* trigger_key: "stop_loss", "take_profit:<take_percent>", "steve_exit:<exit_id>"
Trigger(kind, take, key) == [kind |-> kind, take |-> take, key |-> key]
StopLoss         == Trigger("stop_loss", 0, NoKey)
TakeProfit(take) == Trigger("take_profit", take, NoKey)
SteveExit(key)   == Trigger("steve_exit", 0, key)

Exit(pos, trigger, target) == [pos |-> pos, trigger |-> trigger, target |-> target]
NoExit == Exit(0, StopLoss, 0)

Sale(exit, qty) == [exit |-> exit, qty |-> qty]
NoSale == Sale(NoExit, 0)

SellOrderId(s) == [pos |-> s.exit.pos, qty |-> s.qty, trigger |-> s.exit.trigger]
ExitId(e) == <<e.pos, e.trigger>>

PlanOf(pos) == ExitPlanForContracts(Contracts[pos], FirstTake[pos])

-----------------------------------------------------------------------------
(* Reading the ledgers                                                     *)

\* open_shadow_positions
OpenShadows == {s \in Shadows : steveClosed[s] < ShadowContracts[s]}
ShadowRemaining(s) == ShadowContracts[s] - steveClosed[s]

\* The local positions that an exit of Steve's from this shadow concerns.
Followers(s) == {pos \in Positions : s \in LinkedTo[pos]}

\* match_shadow_position_for_exit: the filters narrow the open candidates unless
\* they would leave none; the one opened last is taken.
MatchedShadow(a) ==
  LET wide   == a.wide \cap OpenShadows
      narrow == a.narrow \cap OpenShadows
      candidates == IF narrow # {} THEN narrow ELSE wide
  IN  IF candidates = {} THEN {NoShadow}
      ELSE {s \in candidates : \A t \in candidates : t <= s}

RequestedContracts(a, s) ==
  IF s = NoShadow THEN a.contracts
  ELSE IF a.contracts = 0 THEN ShadowRemaining(s)
  ELSE Smaller(a.contracts, ShadowRemaining(s))

\* (slips: a stop that must be passed, not met; a ladder that is not cumulative)
RulesForStrictStop(pos) ==
  LET plan == PlanOf(pos)
      reached == {k \in DOMAIN plan : snap[pos] >= plan[k].take}
  IN  IF snap[pos] < -StopPercent[pos]
      THEN {Exit(pos, StopLoss, Contracts[pos])}
      ELSE {Exit(pos, TakeProfit(plan[k].take), LadderTarget(plan, k)) : k \in reached}
RulesForOwnTranche(pos) ==
  LET plan == PlanOf(pos)
      reached == {k \in DOMAIN plan : snap[pos] >= plan[k].take}
  IN  IF snap[pos] <= -StopPercent[pos]
      THEN {Exit(pos, StopLoss, Contracts[pos])}
      ELSE {Exit(pos, TakeProfit(plan[k].take), plan[k].contracts) : k \in reached}

\* The exits the rules attempt for one position at its latest snapshot: all of
\* it at the stop, else every tranche whose take price has been reached.
RulesFor(pos) ==
  LET plan == PlanOf(pos)
      reached == {k \in DOMAIN plan : snap[pos] >= plan[k].take}
  IN  IF snap[pos] <= -StopPercent[pos]
      THEN {Exit(pos, StopLoss, Contracts[pos])}
      ELSE {Exit(pos, TakeProfit(plan[k].take), LadderTarget(plan, k)) : k \in reached}

\* Exits are attempted position by position and, within a position, up the ladder.
NextOf(S) ==
  {e \in S : \A f \in S : e.pos < f.pos \/ (e.pos = f.pos /\ e.target <= f.target)}

\* The quantity append_human_exit sells for an exit, by the process's copy of the
\* rows.  (slip: what is already closed is not subtracted)
QuantityIgnoringClosed(p, e) == Max0(Smaller(e.target, Contracts[e.pos]))
Quantity(p, e) == Max0(Smaller(e.target, Contracts[e.pos]) - rows[p][e.pos])

Recorded(e) == ExitId(e) \in exitIds

\* A process sets about positions of which another still has exits to attempt:
\* nothing in the code keeps the two apart.
InHand(q, pos) == \E e \in todo[q] : e.pos = pos
Overlap(p, about) ==
  shared' = shared \cup {pos \in about : \E q \in Procs \ {p} : InHand(q, pos)}

-----------------------------------------------------------------------------
(* The market, and the tracking of open shadow positions                   *)

MarkMoves(pos) ==
  /\ \E m \in Marks \ {mark[pos]} : mark' = [mark EXCEPT ![pos] = m]
  /\ UNCHANGED <<snap, exitVars, steveVars, brokerVars, procVars, faultVars>>

\* A tracking cycle stores a fresh quote, but only for open SHADOW positions.
Observe(pos) ==
  /\ \E p \in RulesProcs : pc[p] = "idle"
  /\ TrackedBy[pos] \cap OpenShadows # {}
  /\ snap[pos] # mark[pos]
  /\ snap' = [snap EXCEPT ![pos] = mark[pos]]
  /\ UNCHANGED <<mark, exitVars, steveVars, brokerVars, procVars, faultVars>>

-----------------------------------------------------------------------------
(* apply_human_exit_rules_once                                             *)

ApplyRules(p) ==
  /\ p \in RulesProcs
  /\ pc[p] = "idle"
  /\ LET open == {pos \in Positions : closed[pos] < Contracts[pos] /\ snap[pos] > -100}
         exits == UNION {RulesFor(pos) : pos \in open}
     IN  /\ exits # {}
         /\ todo' = [todo EXCEPT ![p] = exits]
         /\ Overlap(p, {e.pos : e \in exits})
  /\ rows' = [rows EXCEPT ![p] = closed]
  /\ pc' = [pc EXCEPT ![p] = "walk"]
  /\ UNCHANGED <<marketVars, exitVars, steveVars, brokerVars, sale, alert, row, crashes, cut>>

-----------------------------------------------------------------------------
(* handle_option_exit                                                      *)

\* The alert is not yet in the ledger under its raw key.
ReceiveSteveExit(p, a) ==
  /\ pc[p] = "idle"
  /\ a.id \notin steveSeen
  /\ alert' = [alert EXCEPT ![p] = a]
  /\ pc' = [pc EXCEPT ![p] = "match"]
  /\ UNCHANGED <<marketVars, exitVars, steveVars, brokerVars, rows, todo, sale, row, faultVars>>

\* Match it to a shadow and settle the number of contracts; an exit already
\* recorded under the same canonical key ends the handling.
MatchSteveExit(p) ==
  /\ pc[p] = "match"
  /\ \E s \in MatchedShadow(alert[p]) :
       LET key == ExitKey(s, RequestedContracts(alert[p], s), alert[p].bucket)
       IN  \/ /\ key \in steveKeys
              /\ pc' = [pc EXCEPT ![p] = "idle"]
              /\ alert' = [alert EXCEPT ![p] = NoAlert]
              /\ UNCHANGED row
           \/ /\ key \notin steveKeys
              /\ row' = [row EXCEPT ![p] = key]
              /\ pc' = [pc EXCEPT ![p] = "append"]
              /\ UNCHANGED alert
  /\ UNCHANGED <<marketVars, exitVars, steveVars, brokerVars, rows, todo, sale, faultVars>>

\* Rows that share a canonical key count once (unique_steve_exit_rows).
SteveClosedWith(key) ==
  IF key.shadow = NoShadow \/ key \in steveKeys THEN steveClosed
  ELSE [steveClosed EXCEPT ![key.shadow] = @ + key.contracts]

\* What the linked positions have to catch up to once Steve has closed "total".
\* (slips: only this alert's contracts; the whole position)
CatchUpByAlert(key, total) ==
  {Exit(pos, SteveExit(key), Smaller(Contracts[pos], key.contracts)) :
     pos \in Followers(key.shadow)}
CatchUpWholly(key, total) ==
  {Exit(pos, SteveExit(key), Contracts[pos]) : pos \in Followers(key.shadow)}
CatchUp(key, total) ==
  {Exit(pos, SteveExit(key), Smaller(Contracts[pos], total)) :
     pos \in Followers(key.shadow)}

\* Append the steve exit row, then read back the cumulative amount Steve has
\* closed and the exit rows, and set out to bring the linked positions level.
AppendSteveExit(p) ==
  LET key == row[p]
      exits == IF alert[p].priced /\ key.shadow # NoShadow
               THEN CatchUp(key, SteveClosedWith(key)[key.shadow]) ELSE {}
  IN  /\ pc[p] = "append"
      /\ steveKeys' = steveKeys \cup {key}
      /\ steveSeen' = steveSeen \cup {alert[p].id}
      /\ steveClosed' = SteveClosedWith(key)
      /\ rows' = [rows EXCEPT ![p] = closed]
      /\ todo' = [todo EXCEPT ![p] = exits]
      /\ alert' = [alert EXCEPT ![p] = NoAlert]
      /\ row' = [row EXCEPT ![p] = NoKey]
      /\ pc' = [pc EXCEPT ![p] = "walk"]
      /\ Overlap(p, Followers(key.shadow))
      /\ UNCHANGED <<marketVars, exitVars, brokerVars, sale, crashes, cut>>

-----------------------------------------------------------------------------
(* append_human_exit, for the next exit of the walk                        *)

\* Already recorded, or nothing left to close for it.
SkipExit(p) ==
  /\ pc[p] = "walk"
  /\ \E e \in NextOf(todo[p]) :
       /\ Recorded(e) \/ Quantity(p, e) = 0
       /\ todo' = [todo EXCEPT ![p] = @ \ {e}]
  /\ UNCHANGED <<marketVars, exitVars, steveVars, brokerVars, pc, rows, sale, alert, row, faultVars>>

StartExit(p) ==
  /\ pc[p] = "walk"
  /\ \E e \in NextOf(todo[p]) :
       /\ ~Recorded(e) /\ Quantity(p, e) > 0
       /\ sale' = [sale EXCEPT ![p] = Sale(e, Quantity(p, e))]
  /\ pc' = [pc EXCEPT ![p] = "submit"]
  /\ UNCHANGED <<marketVars, exitVars, steveVars, brokerVars, rows, todo, alert, row, faultVars>>

\* The broker takes an order whose client order id it does not hold yet.
BrokerTakes(s) ==
  /\ SellOrderId(s) \notin brokerIds
  /\ brokerIds' = brokerIds \cup {SellOrderId(s)}
  /\ sold' = [sold EXCEPT ![s.exit.pos] = @ + s.qty]

\* submit_option_paper_sell_order, under the order lock.  The audit row is
\* written whether the order went through, its answer was lost, or it was
\* blocked (market closed, submission disabled, refused); an order whose id
\* has a row is skipped; when no payload could be built the row has no id.
SubmitSell(p) ==
  LET s == sale[p]
  IN  /\ pc[p] = "submit"
      /\ \/ /\ SellOrderId(s) \in audited
            /\ UNCHANGED brokerVars
         \/ /\ SellOrderId(s) \notin audited
            /\ audited' = audited \cup {SellOrderId(s)}
            /\ BrokerTakes(s) \/ UNCHANGED <<brokerIds, sold>>
         \/ UNCHANGED brokerVars
      /\ pc' = [pc EXCEPT ![p] = "record"]
      /\ UNCHANGED <<marketVars, exitVars, steveVars, rows, todo, sale, alert, row, faultVars>>

\* The exit row is appended whatever became of the order, and added to the walk's
\* own copy of the rows.  (slip: the copy is not extended)
RecordExitOnFileOnly(p) ==
  LET s == sale[p]
  IN  /\ pc[p] = "record"
      /\ closed' = [closed EXCEPT ![s.exit.pos] = @ + s.qty]
      /\ exitIds' = exitIds \cup {ExitId(s.exit)}
      /\ todo' = [todo EXCEPT ![p] = @ \ {s.exit}]
      /\ sale' = [sale EXCEPT ![p] = NoSale]
      /\ pc' = [pc EXCEPT ![p] = "walk"]
      /\ UNCHANGED <<marketVars, steveVars, brokerVars, rows, alert, row, faultVars>>

RecordExit(p) ==
  LET s == sale[p]
  IN  /\ pc[p] = "record"
      /\ closed' = [closed EXCEPT ![s.exit.pos] = @ + s.qty]
      /\ exitIds' = exitIds \cup {ExitId(s.exit)}
      /\ rows' = [rows EXCEPT ![p][s.exit.pos] = @ + s.qty]
      /\ todo' = [todo EXCEPT ![p] = @ \ {s.exit}]
      /\ sale' = [sale EXCEPT ![p] = NoSale]
      /\ pc' = [pc EXCEPT ![p] = "walk"]
      /\ UNCHANGED <<marketVars, steveVars, brokerVars, alert, row, faultVars>>

EndWalk(p) ==
  /\ pc[p] = "walk"
  /\ todo[p] = {}
  /\ pc' = [pc EXCEPT ![p] = "idle"]
  /\ UNCHANGED <<marketVars, exitVars, steveVars, brokerVars, rows, todo, sale, alert, row, faultVars>>

-----------------------------------------------------------------------------
(* A process dies at any point of its work and is started again.  A crash  *)
(* between the broker's answer and the audit row leaves an order that no   *)
(* ledger knows.                                                           *)

Restart(p) ==
  /\ pc' = [pc EXCEPT ![p] = "idle"]
  /\ rows' = [rows EXCEPT ![p] = [pos \in Positions |-> 0]]
  /\ todo' = [todo EXCEPT ![p] = {}]
  /\ sale' = [sale EXCEPT ![p] = NoSale]
  /\ alert' = [alert EXCEPT ![p] = NoAlert]
  /\ row' = [row EXCEPT ![p] = NoKey]
  /\ crashes' = crashes + 1
  /\ cut' = IF pc[p] \in {"submit", "record"} THEN cut \cup {sale[p].exit.pos} ELSE cut

Crash(p) ==
  /\ crashes < MaxCrashes
  /\ pc[p] # "idle"
  /\ \/ UNCHANGED brokerVars
     \/ /\ pc[p] = "submit"
        /\ SellOrderId(sale[p]) \notin audited
        /\ BrokerTakes(sale[p])
        /\ UNCHANGED audited
  /\ Restart(p)
  /\ UNCHANGED <<marketVars, exitVars, steveVars, shared>>

-----------------------------------------------------------------------------
(* The specification                                                       *)

Init ==
  /\ mark = [pos \in Positions |-> 0]
  /\ snap = [pos \in Positions |-> 0]
  /\ closed = [pos \in Positions |-> 0]
  /\ exitIds = {}
  /\ steveKeys = {}
  /\ steveSeen = {}
  /\ steveClosed = [s \in Shadows |-> 0]
  /\ audited = {}
  /\ brokerIds = {}
  /\ sold = [pos \in Positions |-> 0]
  /\ pc = [p \in Procs |-> "idle"]
  /\ rows = [p \in Procs |-> [pos \in Positions |-> 0]]
  /\ todo = [p \in Procs |-> {}]
  /\ sale = [p \in Procs |-> NoSale]
  /\ alert = [p \in Procs |-> NoAlert]
  /\ row = [p \in Procs |-> NoKey]
  /\ crashes = 0
  /\ shared = {}
  /\ cut = {}

Walk(p) == SkipExit(p) \/ StartExit(p) \/ SubmitSell(p) \/ RecordExit(p) \/ EndWalk(p)

HandleSteveExit(p) ==
  \/ \E a \in SteveAlerts : ReceiveSteveExit(p, a)
  \/ MatchSteveExit(p)
  \/ AppendSteveExit(p)

Next ==
  \/ \E pos \in Positions : MarkMoves(pos) \/ Observe(pos)
  \/ \E p \in Procs : ApplyRules(p) \/ HandleSteveExit(p) \/ Walk(p) \/ Crash(p)

Spec == Init /\ [][Next]_vars

\* The live pipeline loops for ever (launchd restarts it), so what it has begun
\* it finishes, a tracking cycle comes round every 15 seconds and reads fresh
\* quotes; nothing makes the market or Steve move.
Fairness ==
  /\ \A p \in Procs : WF_vars(Walk(p) \/ MatchSteveExit(p) \/ AppendSteveExit(p))
  /\ \A p \in RulesProcs : SF_vars(ApplyRules(p))
  /\ \A pos \in Positions : SF_vars(Observe(pos))

FairSpec == Spec /\ Fairness

-----------------------------------------------------------------------------
(* Type invariant                                                          *)

PCs == {"idle", "match", "append", "walk", "submit", "record"}
Keys == [shadow : Shadows \cup {NoShadow}, contracts : Nat,
         bucket : {a.bucket : a \in SteveAlerts} \cup {0}]
Triggers == [kind : {"stop_loss", "take_profit", "steve_exit"}, take : Nat, key : Keys]
Exits == [pos : Positions, trigger : Triggers, target : Nat]
Sales == [exit : Exits \cup {NoExit}, qty : Nat]

\* A process that handles an alert has one, and one that sells has an exit of
\* its walk and a quantity.
BusyOK ==
  \A p \in Procs :
    /\ pc[p] \in {"match", "append"} => alert[p] \in SteveAlerts
    /\ pc[p] \in {"submit", "record"} => sale[p] \in [exit : Exits, qty : Nat]

\* Every variable has its type: amounts are naturals, a walk's exits are exits of
\* known positions, a busy process knows what it is busy with.
TypeOK ==
  /\ mark \in [Positions -> Marks]
  /\ snap \in [Positions -> Marks]
  /\ closed \in [Positions -> Nat]
  /\ exitIds \subseteq Positions \X Triggers
  /\ steveKeys \subseteq Keys
  /\ steveSeen \subseteq {a.id : a \in SteveAlerts}
  /\ steveClosed \in [Shadows -> Nat]
  /\ audited \subseteq [pos : Positions, qty : Nat, trigger : Triggers]
  /\ brokerIds \subseteq [pos : Positions, qty : Nat, trigger : Triggers]
  /\ sold \in [Positions -> Nat]
  /\ pc \in [Procs -> PCs]
  /\ rows \in [Procs -> [Positions -> Nat]]
  /\ todo \in [Procs -> SUBSET Exits]
  /\ sale \in [Procs -> Sales]
  /\ alert \in [Procs -> SteveAlerts \cup {NoAlert}]
  /\ row \in [Procs -> Keys]
  /\ crashes \in 0..MaxCrashes
  /\ shared \subseteq Positions
  /\ cut \subseteq Positions
  /\ BusyOK

-----------------------------------------------------------------------------
(* Safety                                                                  *)

\* The exit ledger never closes more contracts than the position holds, whatever the
\* rules, Steve's exits and restarts do, as long as no two processes handle exits of
\* it at the same time: append_human_exit bounds each sell by a copy of the rows that
\* only the process's own appends keep current.
NoOversell == \A pos \in Positions \ shared : closed[pos] <= Contracts[pos]

\* What a process has read of a position it still has exits of is what the file holds,
\* and the sell it is carrying out fits in what is left, unless another process handles
\* that position too: the rows read before a broker call are still right when the exit
\* is recorded after it, though others append rows of other positions meanwhile.
RowsCurrent ==
  \A p \in Procs :
    /\ \A e \in todo[p] : e.pos \notin shared => rows[p][e.pos] = closed[e.pos]
    /\ pc[p] \in {"submit", "record"} /\ sale[p].exit.pos \notin shared =>
         closed[sale[p].exit.pos] + sale[p].qty <= Contracts[sale[p].exit.pos]

\* The sell orders the broker holds never exceed the position, even when answers are
\* lost and blocked orders are not repeated, unless a process died amid a sell of it or
\* two processes handled it at the same time.
BrokerNotOversold ==
  \A pos \in Positions \ (shared \cup cut) : sold[pos] <= Contracts[pos]

\* Every exit row lands exactly on a target of the policy: the whole position, a
\* rung of its ladder, or Steve's own cumulative amount (never beyond, and never
\* on a sum of two triggers), but for a position that two processes handled at once.
Ledger == INSTANCE ExitLedger
LedgerSpec == Ledger!Spec

\* A catch-up exit never takes the local ledger past what Steve has closed, unless
\* another process handled the position at the same time.
SteveNeverOvertakes ==
  [][\A p \in Procs :
       LET pos == sale[p].exit.pos
       IN  (/\ pc[p] = "record" /\ pc'[p] = "walk"
            /\ sale[p].exit.trigger.kind = "steve_exit" /\ pos \notin shared)
           => \E s \in LinkedTo[pos] : closed'[pos] <= steveClosed[s]]_vars

-----------------------------------------------------------------------------
(* Liveness                                                                *)

\* A price that stays at or under the stop gets the whole position closed.
StopCloses ==
  \A pos \in Positions :
    <>[](mark[pos] <= -StopPercent[pos]) => <>(closed[pos] = Contracts[pos])

\* A price that stays at or over a take-profit target gets everything the ladder
\* sells by that target closed.
LadderSells ==
  \A pos \in Positions : \A k \in DOMAIN PlanOf(pos) :
    <>[](mark[pos] >= PlanOf(pos)[k].take)
      => <>(closed[pos] >= LadderTarget(PlanOf(pos), k))

\* Once Steve has closed contracts of a shadow, the linked positions follow (no: a crash
\* after his exit row loses the catch-up).
SteveIsFollowed ==
  \A pos \in Positions : \A s \in LinkedTo[pos] : \A n \in 1..Contracts[pos] :
    (steveClosed[s] >= n) ~> (closed[pos] >= n)

\* They do follow, through skipped rungs, stops and blocked orders, when no process
\* dies between Steve's exit row and the last of the catch-up sells.
SteveIsFollowedUnlessCrashed ==
  \A pos \in Positions : \A s \in LinkedTo[pos] : \A n \in 1..Contracts[pos] :
    (steveClosed[s] >= n) ~> (closed[pos] >= n \/ crashes > 0)

=============================================================================
