----------------------------- MODULE RiskGuard ------------------------------
(***************************************************************************)
(* The paper risk gate (scripts/risk_guard.py) as the pipeline calls it    *)
(* (scripts/run_pipeline_once.py): each alert of a raw notification gets a *)
(* row of trade_decisions.jsonl, allowed only if the day's limits hold on  *)
(* the decisions the process read when its batch began, on those of the    *)
(* raws it has finished since, and on those of the raw at hand.  An allowed*)
(* one gets a row in the order audit: a dry-run order, or a blocked one    *)
(* (alpaca_paper_adapter.py).  Any other exception ends the raw: it is     *)
(* marked as an error, and the process forgets what it has decided for it. *)
(* The rows are those of module LedgerFile, which may be torn, or          *)
(* compacted, while decisions are made.                                    *)
(*                                                                         *)
(* One trading day.                                                        *)
(***************************************************************************)
EXTENDS LedgerFile, FiniteSets

CONSTANTS
  Deciders,     \* processes that process raw notifications
  DryRuns,      \* those of them that were not started with --no-alpaca-dry-run
  Alerts,       \* numbered in the order of raw_notifications.jsonl
  RawOf,        \* the raw notification an alert was parsed from
  TickerOf, SideOf,
  ScreenOf,     \* "passes", or the reason of the checks that read no decisions
  TestAlerts,   \* alerts that tests have put into the runtime ledgers
  MaxTradesPerDay,  \* of config/risk.yaml, whose max_same_ticker_open_trades is 1
  Unorderable,  \* alerts for which the adapter raises AdapterError
  MaxFaults     \* bound: processes killed, and raws that end in an exception

Raws == {RawOf[a] : a \in Alerts}

Passed == "passed_all_risk_checks"

Reasons == {Passed, "max_trades_per_day", "duplicate_trade_window", "max_same_ticker_open_trades"}
             \cup {ScreenOf[a] : a \in Alerts}

DecisionRows == [alert : Alerts, by : Deciders, reason : Reasons]

ASSUME GuardAssumption ==
  /\ Alerts \subseteq Nat /\ IsFiniteSet(Alerts) /\ IsFiniteSet(Deciders)
  /\ Rows = DecisionRows
  /\ Synthetic = {r \in DecisionRows : r.alert \in TestAlerts}
  /\ DOMAIN TickerOf = Alerts /\ DOMAIN SideOf = Alerts /\ DOMAIN ScreenOf = Alerts
  /\ DOMAIN RawOf = Alerts
  /\ \A a \in Alerts : ScreenOf[a] # Passed
  /\ MaxTradesPerDay \in Nat /\ MaxFaults \in Nat

VARIABLES
  batch,      \* alerts a process has still to look at
  prior,      \* the allowed decisions it knows of, those of the raw at hand left out
  decided,    \* its decisions on the raw at hand
  pending,    \* the last of them, if it is to have a row in the audit, until it has
  processed,  \* raws with a row in processed_notifications.jsonl
  errors,     \* whose rows there say "error:..."
  orders,     \* decisions with a dry-run order in the audit ...
  refused,    \* ... and with a blocked one
  faults

\* What the properties remember: decisions cut off from their order by a kill, and
\* allowed ones of raws that ended in an exception.
VARIABLES cut, forgotten

guardVars == <<batch, prior, decided, pending, processed, errors, orders, refused,
               faults, cut, forgotten>>
vars == <<fileVars, guardVars>>

-----------------------------------------------------------------------------

AllowedIn(rows) == {r \in rows : r.reason = Passed}
AlertsOf(rows) == {r.alert : r \in rows}
OfTicker(rows, a) == {r \in rows : TickerOf[r.alert] = TickerOf[a]}

\* (slip: only the same side blocks a ticker)
SlipReasonBySide(a, today) ==
  IF Cardinality(today) >= MaxTradesPerDay THEN "max_trades_per_day"
  ELSE IF \E r \in OfTicker(today, a) : SideOf[r.alert] = SideOf[a]
         THEN "duplicate_trade_window"
  ELSE Passed

\* decision_for_alert: the first check that fails gives the reason.  (One allowed
\* decision on the ticker blocks another all day; within an hour, and on the same
\* side, by the name of the duplicate window.)
Reason(a, today) ==
  IF ScreenOf[a] # "passes" THEN ScreenOf[a]
  ELSE IF Cardinality(today) >= MaxTradesPerDay THEN "max_trades_per_day"
  ELSE IF \E r \in OfTicker(today, a) : SideOf[r.alert] = SideOf[a]
         THEN "duplicate_trade_window"
  ELSE IF OfTicker(today, a) # {} THEN "max_same_ticker_open_trades"
  ELSE Passed

\* The process reads what has been processed and decided; on a line that does not
\* parse it raises, and starts again later.
StartBatch(p) ==
  /\ batch[p] = {} /\ decided[p] = {}
  /\ Readable
  /\ batch' = [batch EXCEPT ![p] = {a \in Alerts : RawOf[a] \notin processed}]
  /\ prior' = [prior EXCEPT ![p] = AllowedIn(ledger)]
  /\ UNCHANGED <<fileVars, decided, pending, processed, errors, orders, refused>>
  /\ UNCHANGED <<faults, cut, forgotten>>

First(p) == {a \in batch[p] : \A b \in batch[p] : a <= b}

\* The raw at hand: that of the decisions made, or of the next alert.
AtHand(p) ==
  {RawOf[a] : a \in IF decided[p] # {} THEN AlertsOf(decided[p]) ELSE First(p)}

Decide(p) ==
  /\ pending[p] = {}
  /\ \E a \in First(p) :
       LET row == [alert |-> a, by |-> p, reason |-> Reason(a, prior[p] \cup AllowedIn(decided[p]))]
       IN  /\ RawOf[a] \in AtHand(p)
           /\ AppendRow(row)
           /\ decided' = [decided EXCEPT ![p] = @ \cup {row}]
           /\ pending' = [pending EXCEPT ![p] = {r \in AllowedIn({row}) : p \in DryRuns}]
           /\ batch' = [batch EXCEPT ![p] = @ \ {a}]
  /\ UNCHANGED <<prior, processed, errors, orders, refused, faults, cut, forgotten>>

\* (slip: AdapterError leaves no row)
SlipAudit(p) ==
  /\ pending[p] # {}
  /\ orders' = orders \cup {r \in pending[p] : r.alert \notin Unorderable}
  /\ pending' = [pending EXCEPT ![p] = {}]
  /\ UNCHANGED <<fileVars, batch, prior, decided, processed, errors, refused, faults, cut, forgotten>>

\* alpaca_dry_run_audit of an allowed decision: the order, or a blocked row where the
\* configuration or the payload raises AdapterError.
Audit(p) ==
  /\ pending[p] # {}
  /\ orders' = orders \cup {r \in pending[p] : r.alert \notin Unorderable}
  /\ refused' = refused \cup {r \in pending[p] : r.alert \in Unorderable}
  /\ pending' = [pending EXCEPT ![p] = {}]
  /\ UNCHANGED <<fileVars, batch, prior, decided, processed, errors, faults, cut, forgotten>>

\* The last alert of the raw is done with: only now the decisions count as prior ones.
EndRaw(p) ==
  /\ decided[p] # {} /\ pending[p] = {}
  /\ \A a \in batch[p] : RawOf[a] \notin AtHand(p)
  /\ prior' = [prior EXCEPT ![p] = @ \cup AllowedIn(decided[p])]
  /\ processed' = processed \cup AtHand(p)
  /\ decided' = [decided EXCEPT ![p] = {}]
  /\ UNCHANGED <<fileVars, batch, pending, errors, orders, refused, faults, cut, forgotten>>

\* An exception at any point of the raw: the summary of a decision, the configuration
\* of the adapter or a file cannot be written or read.
Fail(p) ==
  /\ batch[p] # {} \/ decided[p] # {}
  /\ faults < MaxFaults
  /\ faults' = faults + 1
  /\ processed' = processed \cup AtHand(p)
  /\ errors' = errors \cup {p} \X AtHand(p)
  /\ forgotten' = forgotten \cup AllowedIn(decided[p])
  /\ batch' = [batch EXCEPT ![p] = {a \in @ : RawOf[a] \notin AtHand(p)}]
  /\ decided' = [decided EXCEPT ![p] = {}]
  /\ pending' = [pending EXCEPT ![p] = {}]
  /\ UNCHANGED <<fileVars, prior, orders, refused, cut>>

\* Killed between two steps, or in the middle of appending a decision.
Crash(p) ==
  /\ batch[p] # {} \/ decided[p] # {}
  /\ faults < MaxFaults
  /\ faults' = faults + 1
  /\ \/ UNCHANGED fileVars
     \/ pending[p] = {} /\ TearRow
  /\ cut' = cut \cup pending[p]
  /\ batch' = [batch EXCEPT ![p] = {}]
  /\ prior' = [prior EXCEPT ![p] = {}]
  /\ decided' = [decided EXCEPT ![p] = {}]
  /\ pending' = [pending EXCEPT ![p] = {}]
  /\ UNCHANGED <<processed, errors, orders, refused, forgotten>>

Compact == Sweep /\ UNCHANGED guardVars

Init ==
  /\ FileInit
  /\ batch = [p \in Deciders |-> {}]
  /\ prior = [p \in Deciders |-> {}]
  /\ decided = [p \in Deciders |-> {}]
  /\ pending = [p \in Deciders |-> {}]
  /\ processed = {} /\ errors = {} /\ orders = {} /\ refused = {}
  /\ cut = {} /\ forgotten = {}
  /\ faults = 0

Work(p) == StartBatch(p) \/ Decide(p) \/ Audit(p) \/ EndRaw(p) \/ Fail(p)

Next ==
  \/ \E p \in Deciders : Work(p) \/ Crash(p)
  \/ Compact

Spec == Init /\ [][Next]_vars

-----------------------------------------------------------------------------

\* The variables have the values declared above.
TypeOK ==
  /\ FileTypeOK
  /\ batch \in [Deciders -> SUBSET Alerts]
  /\ prior \in [Deciders -> SUBSET DecisionRows]
  /\ decided \in [Deciders -> SUBSET DecisionRows]
  /\ pending \in [Deciders -> SUBSET DecisionRows]
  /\ processed \subseteq Raws /\ errors \subseteq Deciders \X Raws
  /\ \A rows \in {orders, refused, cut, forgotten} : rows \subseteq DecisionRows
  /\ faults \in 0..MaxFaults

Granted == AllowedIn(written)

\* Allowed decisions that need not count: the ledger has lost the row, or the process
\* has forgotten it, with the raw that ended in an exception.
Uncounted == (Granted \ ledger) \cup forgotten

\* The day's limit holds for each process on its own, whatever it is restarted, and
\* is exceeded further only by decisions whose rows the ledger has lost or whose raw
\* ended in an exception, one for each: a process counts those the other had written
\* by the time its batch began, and its own.
DayLimitPerProcess ==
  Cardinality(Granted) <= MaxTradesPerDay * Cardinality(Deciders) + Cardinality(Uncounted)

\* So does the limit on one ticker, which is what keeps an alert from being allowed a
\* second time after a crash.
TickerLimitPerProcess ==
  \A a \in Alerts :
    Cardinality(OfTicker(Granted, a))
      <= Cardinality(Deciders) + Cardinality(OfTicker(Uncounted, a))

\* Both limits of config/risk.yaml hold for each process on its own.
LimitsPerProcess == DayLimitPerProcess /\ TickerLimitPerProcess

\* What a process with dry runs has allowed has its row in the order audit, an order or
\* a blocked one, unless the raw is marked as an error or the process was killed
\* between the two: then the decision on file blocks the alert for good.
AllowedIsOrdered ==
  \A r \in Granted : r.by \in DryRuns =>
    \/ r \in orders \cup refused \cup cut \cup pending[r.by]
    \/ <<r.by, RawOf[r.alert]>> \in errors

=============================================================================
