---------------------------- MODULE HealthMonitor ----------------------------
(***************************************************************************)
(* The pipeline health monitor (scripts/pipeline_health_monitor.py): every *)
(* ten minutes it reads the ledgers of module AlertTrail file by file while*)
(* the pipeline goes on writing them, names each capture that has stood    *)
(* still for more than 90 seconds by an issue key, tells the approval chats*)
(* which keys are new and which have gone since the keys it saved last, and*)
(* saves the keys.  An operator may run it by hand, with --no-telegram or  *)
(* without; such a run shares the state file with the scheduled one.       *)
(*                                                                         *)
(* Runs do not overlap: a run takes seconds and the next is minutes away.  *)
(***************************************************************************)
EXTENDS AlertTrail

CONSTANTS
  ChannelOf,   \* the Discord channel of a capture that is a browser message
  FaultModes,  \* how the services may fail
  MaxTroubles  \* bound: services that fail, runs that are killed or silent, and
               \* messages Telegram refuses

FileStates == {"fresh", "stale", "missing"}

Services == [agent : {"running", "stopped"}, heartbeat : FileStates,
             browser : FileStates, channels : {"ok", "degraded"}]

Healthy == [agent |-> "running", heartbeat |-> "fresh", browser |-> "fresh", channels |-> "ok"]

ASSUME MonitorAssumption ==
  /\ DOMAIN ChannelOf = Captures
  /\ FaultModes \subseteq Services
  /\ MaxTroubles \in Nat

VARIABLES
  services,  \* what launchctl, the heartbeat and the browser health file say
  at,        \* the next step of the run under way, or "idle"
  silent,    \* whether it was started with --no-telegram
  read,      \* captures with a row in the file the run has loaded last
  found,     \* issue keys of the run under way
  saved,     \* active_issue_keys in pipeline_health_state.json
  told,      \* failures the operator knows of: reported, and not reported recovered
  astray,    \* keys whose last change was swallowed by a silent run or a refused
             \* message, or told by a run that was killed before it saved
  lasting,   \* keys true ever since the run under way began that it has not found
  before,    \* keys that were true when the check under way loaded its first file
  troubles   \* how many of MaxTroubles there have been

monitorVars == <<at, silent, read, found, saved, told, astray>>
vars == <<trailVars, monitorVars, services, lasting, before, troubles>>

-----------------------------------------------------------------------------
(* Issues.  A key is the code of an issue and the first of dedupe_key,     *)
(* source_dedupe_key, channel_id and message_key its evidence has.         *)

ServiceCodes ==
  {"launch_agent_not_running", "heartbeat_missing", "heartbeat_stale",
   "browser_health_missing", "browser_health_stale", "browser_capture_degraded"}

CaptureCodes ==
  {"notification_db_row_not_raw", "raw_not_processed", "option_exit_not_recorded",
   "non_hedge_missing_auto_buy", "approval_card_send_failed", "auto_buy_missing_order_audit"}

Keys ==
  ServiceCodes \X {"-"} \cup CaptureCodes \X Captures
    \cup {"browser_message_not_raw"} \X {ChannelOf[c] : c \in Captures}

When(condition, code) == {<<code, "-">> : x \in {y \in {TRUE} : condition}}

LiveWatcherKeys ==
  When(services.agent = "stopped", "launch_agent_not_running")
    \cup When(services.heartbeat = "missing", "heartbeat_missing")
    \cup When(services.heartbeat = "stale", "heartbeat_stale")

BrowserHealthKeys ==
  When(services.browser = "missing", "browser_health_missing")
    \cup When(services.browser = "stale", "browser_health_stale")
    \cup When(services.browser # "missing" /\ services.channels = "degraded",
              "browser_capture_degraded")

BrowserKey(c) == <<"browser_message_not_raw", ChannelOf[c]>>

\* (slip: one key for buys and exits)
SlipRoutingKey(c) == <<"buy_not_recorded", c>>
RoutingKey(c) ==
  <<IF c \in exits THEN "option_exit_not_recorded" ELSE "non_hedge_missing_auto_buy", c>>

\* (slip: every stamp counts as past the allowance)
SlipLate(c, stamp) == gone[c] < stamp /\ stamp <= Stamps(c)
\* A stamp of c is past the allowance and still in the auditors' window.
Late(c, stamp) == gone[c] < stamp /\ stamp <= overdue[c]

DbRows == {c \in Captures : stage[c] = "notified" /\ gone[c] = 0}
MessageRows == {c \in Captures : stage[c] = "shown"}
ProcessedRows == {c \in Captures : stage[c] \in {"rejected", "processed"}}
RoutedRows == {c \in Captures : artifacts[c] # "nothing"}
OrderRows == {c \in Captures : artifacts[c] = "auto"}

\* What each check reports, given the captures the file it loads first has rows of.
NotificationKeys(rows) ==
  {<<"notification_db_row_not_raw", c>> : c \in {c \in rows \ RawRows : Late(c, 1)}}

BrowserMessageKeys(raws) ==
  {BrowserKey(c) : c \in {c \in MessageRows \ raws : Late(c, 1)}}

RawProcessingKeys(done) ==
  {<<"raw_not_processed", c>> : c \in {c \in RawRows \ done : Late(c, 2)}}

RoutingKeys(routed) ==
  {RoutingKey(c) : c \in {c \in ParsedRows \ routed : Late(c, 3)}}

DeliveryKeys ==
  {<<"approval_card_send_failed", c>> :
     c \in {c \in Captures : artifacts[c] = "card, not delivered" /\ gone[c] < 3}}

AuditKeys(ordered) ==
  {<<"auto_buy_missing_order_audit", c>> :
     c \in {c \in Captures \ ordered : artifacts[c] \in Files.Reports /\ gone[c] < 3}}

\* The keys a run would report that read every file at this instant.
Current ==
  LiveWatcherKeys \cup BrowserHealthKeys \cup NotificationKeys(DbRows)
    \cup BrowserMessageKeys(RawRows) \cup RawProcessingKeys(ProcessedRows)
    \cup RoutingKeys(RoutedRows) \cup DeliveryKeys \cup AuditKeys(OrderRows)

-----------------------------------------------------------------------------

Trouble ==
  /\ troubles < MaxTroubles
  /\ troubles' = troubles + 1

(* A run: the checks, one file after another, and the report.              *)

Step(from, to) ==
  /\ at = from
  /\ at' = to
  /\ UNCHANGED <<trailVars, services, silent, saved, told, astray, troubles>>

Load(from, to, rows) ==
  /\ Step(from, to)
  /\ read' = rows
  /\ UNCHANGED found

Check(from, to, keys) ==
  /\ Step(from, to)
  /\ found' = found \cup keys
  /\ read' = {}

ProbeNotifications == Load("notifications", "their raws", DbRows)
CheckNotifications == Check("their raws", "browser", NotificationKeys(read))
LoadRawKeys == Load("browser", "messages", RawRows)
CheckBrowser == Check("messages", "raw", BrowserHealthKeys \cup BrowserMessageKeys(read))
\* (slip: what has only been parsed counts as processed)
SlipLoadProcessed == Load("raw", "raws", ProcessedRows \cup ParsedRows)
LoadProcessed == Load("raw", "raws", ProcessedRows)
CheckRawProcessing == Check("raws", "routing", RawProcessingKeys(read))
LoadArtifacts == Load("routing", "parsed", RoutedRows)
\* (slip: what is known already is not reported again)
SlipCheckRouting == Check("parsed", "reports", RoutingKeys(read) \ saved)
CheckRouting == Check("parsed", "reports", RoutingKeys(read))
LoadOrders == Load("reports", "audit", OrderRows)
CheckReports == Check("audit", "send", DeliveryKeys \cup AuditKeys(read))

Checking ==
  \/ ProbeNotifications \/ CheckNotifications \/ LoadRawKeys \/ CheckBrowser
  \/ LoadProcessed \/ CheckRawProcessing \/ LoadArtifacts
  \/ CheckRouting \/ LoadOrders \/ CheckReports

\* The scheduled run, or one by hand; the services of the live watcher come first.
Begin ==
  /\ at = "idle"
  /\ at' = "notifications"
  /\ found' = LiveWatcherKeys
  /\ \/ silent' = FALSE /\ UNCHANGED troubles
     \/ silent' = TRUE /\ Trouble
  /\ UNCHANGED <<trailVars, services, read, saved, told, astray>>

New == found \ saved
Recovered == saved \ found

\* The message names what is new and counts what has recovered; nothing is sent
\* again when Telegram refuses it.
SendAlert ==
  /\ at = "send"
  /\ at' = "save"
  /\ \/ /\ ~silent
        /\ told' = (told \cup New) \ Recovered
        /\ astray' = astray \ (New \cup Recovered)
        /\ UNCHANGED troubles
     \/ /\ silent
        /\ astray' = astray \cup New \cup Recovered
        /\ UNCHANGED <<told, troubles>>
     \/ /\ ~silent /\ New \cup Recovered # {}
        /\ Trouble
        /\ astray' = astray \cup New \cup Recovered
        /\ UNCHANGED told
  /\ UNCHANGED <<trailVars, services, silent, read, found, saved>>

\* (slip: recovered keys stay)
SlipSaveState ==
  /\ at = "save"
  /\ at' = "idle"
  /\ saved' = saved \cup found
  /\ found' = {} /\ silent' = FALSE
  /\ UNCHANGED <<trailVars, services, read, told, astray, troubles>>
SaveState ==
  /\ at = "save"
  /\ at' = "idle"
  /\ saved' = found
  /\ found' = {} /\ silent' = FALSE
  /\ UNCHANGED <<trailVars, services, read, told, astray, troubles>>

\* launchd starts the monitor again.
Crash ==
  /\ at # "idle"
  /\ Trouble
  /\ at' = "idle" /\ found' = {} /\ read' = {} /\ silent' = FALSE
  /\ astray' = IF at = "save" THEN astray \cup New \cup Recovered ELSE astray
  /\ UNCHANGED <<trailVars, services, saved, told>>

-----------------------------------------------------------------------------
(* What goes on meanwhile.                                                 *)

\* A service stops, its file goes stale or is missing, or it reports read errors.
Fault ==
  /\ Trouble
  /\ services' \in FaultModes \ {services}
  /\ UNCHANGED <<trailVars, monitorVars>>

Repair ==
  /\ services # Healthy
  /\ services' = Healthy
  /\ UNCHANGED <<trailVars, monitorVars, troubles>>

\* The two files of a check are read within an instant: no stamp gets late between.
Reading == at \in {"their raws", "messages", "raws", "parsed", "audit"}

Pipeline ==
  /\ \E c \in Captures : Progress(c) \/ (~Reading /\ TimePasses(c))
  /\ UNCHANGED <<monitorVars, services, troubles>>

Watched ==
  /\ lasting' = IF at' = "idle" THEN {}
                ELSE (IF at = "idle" THEN Current' ELSE lasting \cap Current') \ found'
  /\ before' = IF ~Reading' THEN {} ELSE IF Reading THEN before ELSE Current'

Init ==
  /\ TrailInit
  /\ services = Healthy
  /\ at = "idle" /\ silent = FALSE
  /\ read = {} /\ found = {} /\ saved = {}
  /\ told = {} /\ astray = {}
  /\ lasting = {} /\ before = {}
  /\ troubles = 0

Run == Begin \/ Checking \/ SendAlert \/ SaveState

Next == (Run \/ Crash \/ Fault \/ Repair \/ Pipeline) /\ Watched

\* launchd keeps the monitor running, and it starts a run every ten minutes.
Spec == Init /\ [][Next]_vars /\ WF_at(Run)

-----------------------------------------------------------------------------

Steps == {"idle", "notifications", "their raws", "browser", "messages",
          "raw", "raws", "routing", "parsed", "reports", "audit", "send", "save"}

\* The variables have the values declared above.
TypeOK ==
  /\ TrailTypeOK
  /\ services \in Services
  /\ at \in Steps /\ silent \in BOOLEAN /\ read \subseteq Captures
  /\ \A keys \in {found, saved, told, astray, lasting, before} : keys \subseteq Keys
  /\ troubles \in 0..MaxTroubles

\* What the operator has been told to be failing is what the monitor has on record as
\* known, but for the keys whose last change went astray: the record is what stops a
\* failure, and its recovery, from being told again.
KnownIsTold == at # "save" => (saved \ told) \cup (told \ saved) \subseteq astray

\* What a run has found when it reports covers every failure that stood throughout
\* it, though it reads the files one after another while captures move on.
StallIsFound == at = "send" => lasting = {}

\* A check names no capture that was not late when it loaded its first file: a row
\* written between its two readings is too young to be reported.  (The checks of
\* delivery and of auto buys against order rows ask for no age.)
FoundWasLate ==
  [][\A k \in found' \ found :
       \/ k \in before
       \/ k[1] \in ServiceCodes \cup {"approval_card_send_failed", "auto_buy_missing_order_audit"}]_vars

\* Once captures and services stand as they are, the operator comes to know just the
\* failures there are, but for the keys that went astray: a failure that stays is told,
\* and the recovery of one that is gone.
ToldTrueInTheEnd ==
  <>[][UNCHANGED <<trailVars, services>>]_vars => <>[](told \ astray = Current \ astray)

\* A buy whose processing is over is reported as one that left no artifacts only if
\* routing has left none, under the key of its other capture either (no: the artifacts are
\* looked for under the key of each capture).
MissingBuyIsMissing ==
  [][\A c \in Captures :
       /\ <<"non_hedge_missing_auto_buy", c>> \in found' \ found
       /\ stage[c] = "processed"
       =>
       \A d \in Twins(c) \ {c} : artifacts[d] = "nothing"]_vars

=============================================================================
