---------------------------- MODULE BrokerOrders ----------------------------
(***************************************************************************)
(* Paper order submission and its follow-up: submit_option_paper_order and *)
(* submit_option_paper_sell_order of scripts/alpaca_options.py, which run  *)
(* under a file lock, the append of the local exit row that follows a sell *)
(* (scripts/option_validation.py), and the broker order monitor            *)
(* (scripts/broker_order_monitor.py) that resubmits exits whose row names  *)
(* no order and reports terminal broker statuses.                          *)
(*                                                                         *)
(* An order is its client order id.  Buys come from the alert handlers and *)
(* the approval bot, which may try the same id more than once; a sell's id *)
(* stands for one local exit.  A "blocked" row that carries no id (the     *)
(* configuration could not be read, or no payload could be built) is never *)
(* looked up by id, so it is not kept.                                     *)
(***************************************************************************)
EXTENDS Naturals, Sequences, FiniteSets

CONSTANTS
  Procs,         \* processes that submit orders
  MonitorProcs,  \* those that run the broker check (the live pipeline)
  Buys,          \* client order ids of entries
  Sells,         \* client order ids of local exits
  Terminal,      \* the broker's terminal statuses
  Free,          \* nobody holds the lock
  MaxCrashes     \* bound: process crashes in a behaviour

Orders == Buys \cup Sells

ASSUME OrdersAssumption == Buys \cap Sells = {}
ASSUME MonitorAssumption == MonitorProcs \subseteq Procs /\ Free \notin Procs
ASSUME TerminalAssumption == Terminal \cap {"none", "working"} = {}
ASSUME CrashAssumption == MaxCrashes \in Nat

VARIABLES
  broker,    \* the broker: "none", "working" or a terminal status, per order
  rows,      \* orders_paper.jsonl: statuses of the rows with this id, oldest first
  exitRow,   \* human_paper_exits.jsonl: "none", or the row names its order or not
  old,       \* orders recorded more than max_age_hours ago
  reports,   \* broker_order_status_reports.jsonl: statuses reported, per order
  told,      \* Telegram broker reports sent, per order
  lock,      \* holder of the order lock
  pc,        \* where each process is
  job,       \* the order it is busy with: order, and who asked for it
  answer,    \* the status the submission returned, or is about to record
  known,     \* order_client_ids: ids with an audit row when the sync began
  todo,      \* exits or orders the monitor still has to look at
  reported,  \* reported_keys: <<order, status>> pairs it has seen
  crashes

auditVars   == <<rows, lock>>
monitorVars == <<known, todo, reported>>
reportVars  == <<reports, told>>
vars == <<broker, auditVars, exitRow, old, reportVars, pc, job, answer, monitorVars, crashes>>

NoJob == [order |-> Free, for |-> "nobody"]
Job(o, for) == [order |-> o, for |-> for]

Busy(p) == job[p].order
Goto(p, label) == pc' = [pc EXCEPT ![p] = label]

-----------------------------------------------------------------------------
(* Submission under the order lock                                         *)

\* A buy is submitted by whoever handles its alert or approval; a sell by
\* append_human_exit, for an exit that has no row yet.
Wanted == Buys \cup {o \in Sells : exitRow[o] = "none"}

Submit(p, o) ==
  /\ pc[p] = "idle"
  /\ o \in Wanted
  /\ job' = [job EXCEPT ![p] = Job(o, IF o \in Buys THEN "buy" ELSE "exit")]
  /\ Goto(p, "lock")
  /\ UNCHANGED <<broker, auditVars, exitRow, old, reportVars, answer, monitorVars, crashes>>

\* (slip: the lock is not exclusive)
AcquireAnyway(p) ==
  /\ pc[p] = "lock"
  /\ lock' = p
  /\ Goto(p, "check")
  /\ UNCHANGED <<broker, rows, exitRow, old, reportVars, job, answer, monitorVars, crashes>>
Acquire(p) ==
  /\ pc[p] = "lock"
  /\ lock = Free
  /\ lock' = p
  /\ Goto(p, "check")
  /\ UNCHANGED <<broker, rows, exitRow, old, reportVars, job, answer, monitorVars, crashes>>

\* The call returns to whoever made it, and the lock is let go.
Return(p, status) ==
  /\ answer' = [answer EXCEPT ![p] = status]
  /\ lock' = Free
  /\ Goto(p, "return")

\* Environment and payload cannot be built: a row without an id.
FailToBuild(p) ==
  /\ pc[p] = "check"
  /\ Return(p, "no id")
  /\ UNCHANGED <<broker, rows, exitRow, old, reportVars, job, monitorVars, crashes>>

\* existing_order_audit finds the id: nothing is sent and nothing is written.
SkipDuplicate(p) ==
  /\ pc[p] = "check"
  /\ rows[Busy(p)] # <<>>
  /\ Return(p, "skipped")
  /\ UNCHANGED <<broker, rows, exitRow, old, reportVars, job, monitorVars, crashes>>

\* No row has the id: the market is closed or submission disabled (blocked), or
\* the order goes out.
DecideToSend(p) ==
  /\ pc[p] = "check"
  /\ rows[Busy(p)] = <<>>
  /\ \/ /\ answer' = [answer EXCEPT ![p] = "blocked"]
        /\ Goto(p, "append")
     \/ /\ Goto(p, "post")
        /\ UNCHANGED answer
  /\ UNCHANGED <<broker, auditVars, exitRow, old, reportVars, job, monitorVars, crashes>>

\* The broker refuses a client order id it already has.
BrokerTakes(o) ==
  /\ broker[o] = "none"
  /\ broker' = [broker EXCEPT ![o] = "working"]

\* POST /v2/orders: taken and answered, refused, or the answer is lost on the
\* way (whether or not the broker took the order).
\* (slip: a lost answer is taken for success)
PostTrusting(p) ==
  /\ pc[p] = "post"
  /\ BrokerTakes(Busy(p)) \/ UNCHANGED broker
  /\ answer' = [answer EXCEPT ![p] = "submitted"]
  /\ Goto(p, "append")
  /\ UNCHANGED <<auditVars, exitRow, old, reportVars, job, monitorVars, crashes>>
Post(p) ==
  /\ pc[p] = "post"
  /\ \/ BrokerTakes(Busy(p)) /\ answer' = [answer EXCEPT ![p] = "submitted"]
     \/ BrokerTakes(Busy(p)) /\ answer' = [answer EXCEPT ![p] = "blocked"]
     \/ UNCHANGED broker /\ answer' = [answer EXCEPT ![p] = "blocked"]
  /\ Goto(p, "append")
  /\ UNCHANGED <<auditVars, exitRow, old, reportVars, job, monitorVars, crashes>>

AppendAudit(p) ==
  /\ pc[p] = "append"
  /\ rows' = [rows EXCEPT ![Busy(p)] = Append(@, answer[p])]
  /\ Return(p, answer[p])
  /\ UNCHANGED <<broker, exitRow, old, reportVars, job, monitorVars, crashes>>

-----------------------------------------------------------------------------
(* What the caller does with the answer                                    *)

Finish(p) ==
  /\ job' = [job EXCEPT ![p] = NoJob]
  /\ answer' = [answer EXCEPT ![p] = "none"]

ReturnToBuyer(p) ==
  /\ pc[p] = "return" /\ job[p].for = "buy"
  /\ Finish(p)
  /\ Goto(p, "idle")
  /\ UNCHANGED <<broker, auditVars, exitRow, old, reportVars, monitorVars, crashes>>

\* append_human_exit writes the exit row, with the client order id of the audit.
ReturnToExit(p) ==
  /\ pc[p] = "return" /\ job[p].for = "exit"
  /\ exitRow' = [exitRow EXCEPT ![Busy(p)] =
                   IF answer[p] = "no id" THEN "no order" ELSE "names order"]
  /\ Finish(p)
  /\ Goto(p, "idle")
  /\ UNCHANGED <<broker, auditVars, old, reportVars, monitorVars, crashes>>

ReturnToSync(p) ==
  /\ pc[p] = "return" /\ job[p].for = "sync"
  /\ known' = [known EXCEPT ![p] = IF answer[p] = "no id" THEN @ ELSE @ \cup {Busy(p)}]
  /\ todo' = [todo EXCEPT ![p] = @ \ {Busy(p)}]
  /\ Finish(p)
  /\ Goto(p, "sync")
  /\ UNCHANGED <<broker, auditVars, exitRow, old, reportVars, reported, crashes>>

-----------------------------------------------------------------------------
(* submit_missing_broker_exit_orders_once                                  *)

\* Exits not older than eight hours whose row names no order.
\* (slip: the exits that do name an order are picked)
StartSyncOfNamed(p) ==
  /\ p \in MonitorProcs
  /\ pc[p] = "idle"
  /\ known' = [known EXCEPT ![p] = {o \in Orders : rows[o] # <<>>}]
  /\ todo' = [todo EXCEPT ![p] = {o \in Sells : exitRow[o] = "names order" /\ o \notin old}]
  /\ Goto(p, "sync")
  /\ UNCHANGED <<broker, auditVars, exitRow, old, reportVars, job, answer, reported, crashes>>
StartSync(p) ==
  /\ p \in MonitorProcs
  /\ pc[p] = "idle"
  /\ known' = [known EXCEPT ![p] = {o \in Orders : rows[o] # <<>>}]
  /\ todo' = [todo EXCEPT ![p] = {o \in Sells : exitRow[o] = "no order" /\ o \notin old}]
  /\ Goto(p, "sync")
  /\ UNCHANGED <<broker, auditVars, exitRow, old, reportVars, job, answer, reported, crashes>>

SyncExit(p) ==
  /\ pc[p] = "sync"
  /\ \E o \in todo[p] :
       \/ /\ o \in known[p]
          /\ todo' = [todo EXCEPT ![p] = @ \ {o}]
          /\ UNCHANGED <<pc, job>>
       \/ /\ o \notin known[p]
          /\ job' = [job EXCEPT ![p] = Job(o, "sync")]
          /\ Goto(p, "lock")
          /\ UNCHANGED todo
  /\ UNCHANGED <<broker, auditVars, exitRow, old, reportVars, answer, known, reported, crashes>>

-----------------------------------------------------------------------------
(* check_broker_order_statuses_once                                        *)

\* submitted_order_audits  (slip: only the sells)
SubmittedSells == {o \in Sells \ old : \E i \in DOMAIN rows[o] : rows[o][i] = "submitted"}
SubmittedOrders == {o \in Orders \ old : \E i \in DOMAIN rows[o] : rows[o][i] = "submitted"}

\* The check gives up when there is nothing to check or the environment cannot
\* be loaded.
StartCheck(p) ==
  /\ pc[p] = "sync"
  /\ todo[p] = {}
  /\ \/ /\ todo' = [todo EXCEPT ![p] = SubmittedOrders]
        /\ reported' = [reported EXCEPT ![p] =
             {key \in Orders \X Terminal :
                \E i \in DOMAIN reports[key[1]] : reports[key[1]][i] = key[2]}]
        /\ Goto(p, "fetch")
     \/ /\ Goto(p, "idle")
        /\ UNCHANGED <<todo, reported>>
  /\ UNCHANGED <<broker, auditVars, exitRow, old, reportVars, job, answer, known, crashes>>

\* The status cannot be fetched, is not terminal, or has been reported.
FetchNothing(p, o) ==
  /\ pc[p] = "fetch"
  /\ o \in todo[p]
  /\ todo' = [todo EXCEPT ![p] = @ \ {o}]
  /\ UNCHANGED <<broker, auditVars, exitRow, old, reportVars, pc, job, answer, known,
                 reported, crashes>>

\* (slip: the keys reported before are not consulted)
FetchRepeating(p, o) ==
  /\ pc[p] = "fetch"
  /\ o \in todo[p]
  /\ broker[o] \in Terminal
  /\ reports' = [reports EXCEPT ![o] = Append(@, broker[o])]
  /\ reported' = [reported EXCEPT ![p] = @ \cup {<<o, broker[o]>>}]
  /\ todo' = [todo EXCEPT ![p] = @ \ {o}]
  /\ job' = [job EXCEPT ![p] = Job(o, "report")]
  /\ Goto(p, "tell")
  /\ UNCHANGED <<broker, auditVars, exitRow, old, told, answer, known, crashes>>
\* A terminal status not yet reported: the report row first, the message after.
FetchTerminal(p, o) ==
  /\ pc[p] = "fetch"
  /\ o \in todo[p]
  /\ broker[o] \in Terminal
  /\ <<o, broker[o]>> \notin reported[p]
  /\ reports' = [reports EXCEPT ![o] = Append(@, broker[o])]
  /\ reported' = [reported EXCEPT ![p] = @ \cup {<<o, broker[o]>>}]
  /\ todo' = [todo EXCEPT ![p] = @ \ {o}]
  /\ job' = [job EXCEPT ![p] = Job(o, "report")]
  /\ Goto(p, "tell")
  /\ UNCHANGED <<broker, auditVars, exitRow, old, told, answer, known, crashes>>

\* send_broker_order_report; a failure is swallowed.
Tell(p) ==
  /\ pc[p] = "tell"
  /\ \/ told' = [told EXCEPT ![Busy(p)] = @ + 1]
     \/ UNCHANGED told
  /\ job' = [job EXCEPT ![p] = NoJob]
  /\ Goto(p, "fetch")
  /\ UNCHANGED <<broker, auditVars, exitRow, old, reports, answer, monitorVars, crashes>>

EndCheck(p) ==
  /\ pc[p] = "fetch"
  /\ todo[p] = {}
  /\ Goto(p, "idle")
  /\ UNCHANGED <<broker, auditVars, exitRow, old, reportVars, job, answer, monitorVars, crashes>>

-----------------------------------------------------------------------------
(* The broker, the clock, and crashes                                      *)

\* A working order is filled, cancelled, rejected or expires.
BrokerEnds(o) ==
  /\ broker[o] = "working"
  /\ \E s \in Terminal : broker' = [broker EXCEPT ![o] = s]
  /\ UNCHANGED <<auditVars, exitRow, old, reportVars, pc, job, answer, monitorVars, crashes>>

\* Eight hours pass over a recorded order or exit.
GrowsOld(o) ==
  /\ o \notin old
  /\ rows[o] # <<>> \/ (o \in Sells /\ exitRow[o] # "none")
  /\ old' = old \cup {o}
  /\ UNCHANGED <<broker, auditVars, exitRow, reportVars, pc, job, answer, monitorVars, crashes>>

\* A process dies anywhere and is started again; the operating system lets go of
\* its lock.  An order the broker takes at that moment leaves no row.
Crash(p) ==
  /\ crashes < MaxCrashes
  /\ pc[p] # "idle"
  /\ UNCHANGED broker \/ (pc[p] = "post" /\ BrokerTakes(Busy(p)))
  /\ lock' = IF lock = p THEN Free ELSE lock
  /\ Goto(p, "idle")
  /\ Finish(p)
  /\ known' = [known EXCEPT ![p] = {}]
  /\ todo' = [todo EXCEPT ![p] = {}]
  /\ reported' = [reported EXCEPT ![p] = {}]
  /\ crashes' = crashes + 1
  /\ UNCHANGED <<rows, exitRow, old, reportVars>>

-----------------------------------------------------------------------------
(* The specification                                                       *)

Init ==
  /\ broker = [o \in Orders |-> "none"]
  /\ rows = [o \in Orders |-> <<>>]
  /\ exitRow = [o \in Sells |-> "none"]
  /\ old = {}
  /\ reports = [o \in Orders |-> <<>>]
  /\ told = [o \in Orders |-> 0]
  /\ lock = Free
  /\ pc = [p \in Procs |-> "idle"]
  /\ job = [p \in Procs |-> NoJob]
  /\ answer = [p \in Procs |-> "none"]
  /\ known = [p \in Procs |-> {}]
  /\ todo = [p \in Procs |-> {}]
  /\ reported = [p \in Procs |-> {}]
  /\ crashes = 0

InLock(p) == FailToBuild(p) \/ SkipDuplicate(p) \/ DecideToSend(p) \/ Post(p) \/ AppendAudit(p)

Returned(p) == ReturnToBuyer(p) \/ ReturnToExit(p) \/ ReturnToSync(p)

Fetch(p) == \E o \in Orders : FetchNothing(p, o) \/ FetchTerminal(p, o)

Monitor(p) == SyncExit(p) \/ StartCheck(p) \/ Fetch(p) \/ Tell(p) \/ EndCheck(p)

Next ==
  \/ \E p \in Procs :
       \/ \E o \in Orders : Submit(p, o)
       \/ Acquire(p) \/ InLock(p) \/ Returned(p)
       \/ StartSync(p) \/ Monitor(p)
       \/ Crash(p)
  \/ \E o \in Orders : BrokerEnds(o) \/ GrowsOld(o)

Spec == Init /\ [][Next]_vars

\* A process finishes what it has begun and gets the lock in the end; the live
\* pipeline checks the broker every 30 seconds; the environment loads, payloads
\* build and statuses are fetched once tried often enough.  Nothing makes the
\* broker accept, fill or answer an order.
Fairness ==
  /\ \A p \in Procs :
       /\ WF_vars(InLock(p) \/ Returned(p) \/ Monitor(p))
       /\ SF_vars(Acquire(p))
       /\ \A o \in Orders : SF_vars(Busy(p) = o /\ (SkipDuplicate(p) \/ DecideToSend(p)))
  /\ \A p \in MonitorProcs :
       /\ SF_vars(StartSync(p))
       /\ SF_vars(StartCheck(p) /\ pc'[p] = "fetch")
       /\ \A o \in Orders : SF_vars(FetchTerminal(p, o))

FairSpec == Spec /\ Fairness

-----------------------------------------------------------------------------
(* Properties                                                              *)

PCs == {"idle", "lock", "check", "post", "append", "return", "sync", "fetch", "tell"}
Statuses == {"none", "working"} \cup Terminal
Verdicts == {"submitted", "blocked"}

\* Every variable has its type, and a process that is busy with an order has one.
TypeOK ==
  /\ broker \in [Orders -> Statuses]
  /\ rows \in [Orders -> Seq(Verdicts)]
  /\ exitRow \in [Sells -> {"none", "names order", "no order"}]
  /\ old \subseteq Orders
  /\ reports \in [Orders -> Seq(Terminal)]
  /\ told \in [Orders -> Nat]
  /\ lock \in Procs \cup {Free}
  /\ pc \in [Procs -> PCs]
  /\ job \in [Procs -> [order : Orders \cup {Free},
                        for : {"nobody", "buy", "exit", "sync", "report"}]]
  /\ answer \in [Procs -> Verdicts \cup {"none", "skipped", "no id"}]
  /\ known \in [Procs -> SUBSET Orders]
  /\ todo \in [Procs -> SUBSET Orders]
  /\ reported \in [Procs -> SUBSET (Orders \X Terminal)]
  /\ crashes \in 0..MaxCrashes
  /\ \A p \in Procs : pc[p] \notin {"idle", "sync", "fetch"} => Busy(p) \in Orders

\* A client order id has at most one audit row, whatever processes race for it,
\* crash over it or come back to it: the lookup and the append are one step for
\* everybody else because both are made under the lock.
OneRowPerOrder == \A o \in Orders : Len(rows[o]) <= 1

\* Submission, with its lock, crashes and lost answers, gives each id one final
\* verdict; no order reaches the broker after its verdict is in the file.
Verdict == INSTANCE OrderVerdict
VerdictSpec == Verdict!Spec

\* A terminal status is reported once and truthfully while one process watches
\* the broker, also across restarts; the owner is told at most once.
ReportedOnce ==
  \A o \in Orders :
    /\ reports[o] \in {<<>>, <<broker[o]>>}
    /\ told[o] <= Len(reports[o])

\* An exit row that names its order is only written when the id has a row.
NamedOrderIsAudited == \A o \in Sells : exitRow[o] = "names order" => rows[o] # <<>>

\* The order audit is what every other file relies on: one row per id, and a row for
\* each id that is named.
AuditIsConsistent == OneRowPerOrder /\ NamedOrderIsAudited

\* A submitted order that the broker has ended gets reported, unless it grows too
\* old for the monitor first.
EndIsReported ==
  \A o \in Orders :
    (rows[o] = <<"submitted">> /\ broker[o] \in Terminal) ~> (reports[o] # <<>> \/ o \in old)

\* An exit whose row names no order is brought to a verdict by the monitor, unless
\* it grows too old first.
ExitIsSent ==
  \A o \in Sells : (exitRow[o] = "no order") ~> (rows[o] # <<>> \/ o \in old)

=============================================================================
