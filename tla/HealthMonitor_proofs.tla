------------------------ MODULE HealthMonitor_proofs ------------------------
(***************************************************************************)
(* Theorems about HealthMonitor, for any captures, channels, faults and    *)
(* troubles: its types, that what is on record as known has been told,     *)
(* that a run finds every stall that stands throughout it, and that it     *)
(* finds only what was late.                                               *)
(***************************************************************************)
EXTENDS HealthMonitor, TLAPS

-----------------------------------------------------------------------------
(* The trail of a capture                                                  *)

\* No stamp is overdue before there is one, and nothing is left by routing before it.
TrailInv ==
  /\ TrailTypeOK
  /\ \A c \in Captures :
       /\ overdue[c] <= Stamps(c)
       /\ stage[c] \notin {"routed", "processed"} => artifacts[c] = "nothing"

\* What a step of the pipeline does to a capture, as the auditors see it: rows only
\* come, a stamp does not get late by it, and a row that comes is too young to be late.
Younger(c) ==
  /\ c \in RawRows => c \in RawRows'
  /\ c \in ProcessedRows => c \in ProcessedRows'
  /\ c \in RoutedRows => c \in RoutedRows'
  /\ c \in OrderRows => c \in OrderRows'
  /\ \A n \in 1..3 : Late(c, n)' => Late(c, n)
  /\ c \in MessageRows' /\ Late(c, 1)' => c \in MessageRows
  /\ c \in RawRows' /\ Late(c, 2)' => c \in RawRows
  /\ c \in ParsedRows' /\ Late(c, 3)' => c \in ParsedRows /\ (c \in exits' <=> c \in exits)

\* The files only grow, also while time passes.
Grown(c) ==
  /\ c \in RawRows => c \in RawRows'
  /\ c \in ProcessedRows => c \in ProcessedRows'
  /\ c \in RoutedRows => c \in RoutedRows'
  /\ c \in OrderRows => c \in OrderRows'

LEMMA StampsBounds == \A c \in Captures : Stamps(c) \in 0..3
  BY DEF Stamps

LEMMA InitTrail == TrailInit => TrailInv
  BY DEF TrailInit, TrailInv, TrailTypeOK, Stamps, StageNames, Artifacts

\* A step on capture c leaves the others alone.
LEMMA OthersStay ==
  ASSUME NEW c \in Captures, TrailInv, Progress(c), NEW d \in Captures, d # c
  PROVE  /\ stage'[d] = stage[d] /\ artifacts'[d] = artifacts[d]
         /\ overdue'[d] = overdue[d] /\ gone'[d] = gone[d]
         /\ d \in exits' <=> d \in exits
<1> USE DEF TrailInv, TrailTypeOK, MoveTo, Spend
<1>1. CASE Post(c)
  BY <1>1 DEF Post
<1>2. CASE AppendRaw(c)
  BY <1>2 DEF AppendRaw
<1>3. CASE Reject(c)
  BY <1>3 DEF Reject
<1>4. CASE Parse(c)
  BY <1>4 DEF Parse
<1>5. CASE Route(c)
  BY <1>5 DEF Route
<1>6. CASE MarkProcessed(c)
  BY <1>6 DEF MarkProcessed
<1> QED
  BY <1>1, <1>2, <1>3, <1>4, <1>5, <1>6 DEF Progress

\* What it does to c itself.
Moved(c) ==
  /\ stage'[c] \in StageNames /\ artifacts'[c] \in Artifacts
  /\ overdue'[c] \in 0..3 /\ gone'[c] \in 0..3
  /\ overdue'[c] <= Stamps(c)'
  /\ stage'[c] \notin {"routed", "processed"} => artifacts'[c] = "nothing"
  /\ Younger(c)

LEMMA SpendBounds ==
  ASSUME NEW c \in Captures, TrailInv, NEW n \in {1, 2}, Spend(c, n)
  PROVE  /\ overdue'[c] \in 0..3 /\ gone'[c] \in 0..3
         /\ overdue'[c] = overdue[c] \/ (overdue[c] < n /\ overdue'[c] = n)
         /\ gone'[c] >= n /\ gone'[c] >= gone[c]
  BY DEF TrailInv, TrailTypeOK, Spend

LEMMA SpentIsNotLate ==
  ASSUME NEW c \in Captures, TrailInv, NEW n \in {1, 2}, Spend(c, n), NEW m \in 1..3, Late(c, m)'
  PROVE  Late(c, m) /\ m > n
  BY SpendBounds DEF Late, TrailInv, TrailTypeOK

LEMMA StageTells ==
  ASSUME NEW c \in Captures
  PROVE  /\ c \in RawRows <=> stage[c] \notin {"absent", "notified", "shown"}
         /\ c \in ParsedRows <=> stage[c] \in {"parsed", "routed", "processed"}
         /\ c \in MessageRows <=> stage[c] = "shown"
         /\ c \in ProcessedRows <=> stage[c] \in {"rejected", "processed"}
         /\ c \in RoutedRows <=> artifacts[c] # "nothing"
         /\ c \in OrderRows <=> artifacts[c] = "auto"
         /\ stage[c] = "absent" => Stamps(c) = 0
         /\ stage[c] \in {"notified", "shown"} => Stamps(c) = 1
         /\ stage[c] \in {"raw", "rejected"} => Stamps(c) = 2
         /\ stage[c] \in {"parsed", "routed", "processed"} => Stamps(c) = 3
  BY DEF RawRows, ParsedRows, MessageRows, ProcessedRows, RoutedRows, OrderRows, Stamps

LEMMA StageWillTell ==
  ASSUME NEW c \in Captures
  PROVE  /\ c \in RawRows' <=> stage'[c] \notin {"absent", "notified", "shown"}
         /\ c \in ParsedRows' <=> stage'[c] \in {"parsed", "routed", "processed"}
         /\ c \in MessageRows' <=> stage'[c] = "shown"
         /\ c \in ProcessedRows' <=> stage'[c] \in {"rejected", "processed"}
         /\ c \in RoutedRows' <=> artifacts'[c] # "nothing"
         /\ c \in OrderRows' <=> artifacts'[c] = "auto"
         /\ stage'[c] = "absent" => Stamps(c)' = 0
         /\ stage'[c] \in {"notified", "shown"} => Stamps(c)' = 1
         /\ stage'[c] \in {"raw", "rejected"} => Stamps(c)' = 2
         /\ stage'[c] \in {"parsed", "routed", "processed"} => Stamps(c)' = 3
  BY DEF RawRows, ParsedRows, MessageRows, ProcessedRows, RoutedRows, OrderRows, Stamps

LEMMA StepMoves ==
  ASSUME NEW c \in Captures, TrailInv, Progress(c)
  PROVE  Moved(c)
<1>0. /\ stage \in [Captures -> StageNames] /\ artifacts \in [Captures -> Artifacts]
      /\ overdue[c] \in 0..3 /\ gone[c] \in 0..3 /\ overdue[c] <= Stamps(c)
      /\ stage[c] \in StageNames /\ artifacts[c] \in Artifacts
      /\ stage[c] \notin {"routed", "processed"} => artifacts[c] = "nothing"
  BY DEF TrailInv, TrailTypeOK
<1>1. CASE Post(c)
  <2>1. stage[c] = "absent" /\ stage'[c] \in {"notified", "shown"}
        /\ UNCHANGED <<exits, artifacts, overdue, gone>>
    BY <1>0, <1>1 DEF Post, MoveTo
  <2>2. overdue[c] = 0
    BY <1>0, <2>1, StageTells
  <2>3. \A m \in 1..3 : ~Late(c, m)'
    BY <2>1, <2>2 DEF Late
  <2> QED
    BY <1>0, <2>1, <2>2, <2>3, StageTells, StageWillTell DEF Moved, Younger, StageNames
<1>2. CASE AppendRaw(c)
  <2>1. /\ stage[c] \in {"notified", "shown"} /\ stage'[c] = "raw"
        /\ Spend(c, 1) /\ UNCHANGED <<exits, artifacts>>
    BY <1>0, <1>2 DEF AppendRaw, MoveTo
  <2>2. overdue[c] <= 1
    BY <1>0, <2>1, StageTells
  <2>3. \A m \in 1..3 : Late(c, m)' => Late(c, m)
    BY <2>1, SpentIsNotLate
  <2>4. /\ overdue'[c] \in 0..3 /\ gone'[c] \in 0..3 /\ overdue'[c] <= 1
    BY <1>0, <2>1, <2>2, SpendBounds
  <2>5. ~Late(c, 2)'
    BY <2>4 DEF Late
  <2> QED
    BY <1>0, <2>1, <2>3, <2>4, <2>5, StageTells, StageWillTell DEF Moved, Younger, StageNames
<1>3. CASE Reject(c)
  <2>1. /\ stage[c] = "raw" /\ stage'[c] = "rejected"
        /\ Spend(c, 2) /\ UNCHANGED <<exits, artifacts>>
    BY <1>0, <1>3 DEF Reject, MoveTo
  <2>2. \A m \in 1..3 : Late(c, m)' => Late(c, m)
    BY <2>1, SpentIsNotLate
  <2>3. overdue[c] <= 2
    BY <1>0, <2>1, StageTells
  <2>4. overdue'[c] \in 0..3 /\ gone'[c] \in 0..3 /\ overdue'[c] <= 2
    BY <1>0, <2>1, <2>3, SpendBounds
  <2> QED
    BY <1>0, <2>1, <2>2, <2>4, StageTells, StageWillTell DEF Moved, Younger, StageNames
<1>4. CASE Parse(c)
  <2>1. /\ stage[c] = "raw" /\ stage'[c] = "parsed" /\ UNCHANGED <<artifacts, overdue, gone>>
    BY <1>0, <1>4 DEF Parse, MoveTo
  <2>2. overdue[c] <= 2
    BY <1>0, <2>1, StageTells
  <2>3. ~Late(c, 3)' /\ \A m \in 1..3 : Late(c, m)' => Late(c, m)
    BY <1>0, <2>1, <2>2 DEF Late
  <2> QED
    BY <1>0, <2>1, <2>2, <2>3, StageTells, StageWillTell DEF Moved, Younger, StageNames
<1>5. CASE Route(c)
  <2>1. /\ stage[c] = "parsed" /\ stage'[c] = "routed" /\ UNCHANGED <<exits, overdue, gone>>
    BY <1>0, <1>5 DEF Route, MoveTo
  <2>2. artifacts[c] = "nothing" /\ artifacts'[c] \in Artifacts
    <3>1. artifacts[c] = "nothing"
      BY <1>0, <2>1
    <3>2. CASE UNCHANGED artifacts
      BY <1>0, <3>1, <3>2
    <3>3. CASE \E file \in {"Exits", "Cards", "Reports"} : \E kind \in Files[file] :
                 artifacts' = [artifacts EXCEPT ![c] = kind]
      <4>1. Files["Exits"] \cup Files["Cards"] \cup Files["Reports"] \subseteq Artifacts
        BY DEF Files, Artifacts
      <4>2. PICK kind \in Artifacts : artifacts' = [artifacts EXCEPT ![c] = kind]
        BY <3>3, <4>1
      <4> QED
        BY <1>0, <3>1, <4>2
    <3> QED
      BY <1>5, <3>1, <3>2, <3>3 DEF Route
  <2>3. \A m \in 1..3 : Late(c, m)' => Late(c, m)
    BY <2>1 DEF Late
  <2> QED
    BY <1>0, <2>1, <2>2, <2>3, StageTells, StageWillTell DEF Moved, Younger, StageNames
<1>6. CASE MarkProcessed(c)
  <2>1. /\ stage[c] = "routed" /\ stage'[c] = "processed"
        /\ Spend(c, 2) /\ UNCHANGED <<exits, artifacts>>
    BY <1>0, <1>6 DEF MarkProcessed, MoveTo
  <2>2. \A m \in 1..3 : Late(c, m)' => Late(c, m)
    BY <2>1, SpentIsNotLate
  <2>3. overdue'[c] \in 0..3 /\ gone'[c] \in 0..3 /\ overdue'[c] <= 3
    BY <1>0, <2>1, SpendBounds
  <2> QED
    BY <1>0, <2>1, <2>2, <2>3, StageTells, StageWillTell DEF Moved, Younger, StageNames
<1> QED
  BY <1>1, <1>2, <1>3, <1>4, <1>5, <1>6 DEF Progress

LEMMA FunctionsStay ==
  ASSUME NEW c \in Captures, TrailInv, Progress(c)
  PROVE  /\ exits' \subseteq Captures
         /\ \E s : stage' = [stage EXCEPT ![c] = s]
         /\ \E s : artifacts' = [artifacts EXCEPT ![c] = s]
         /\ \E s : overdue' = [overdue EXCEPT ![c] = s]
         /\ \E s : gone' = [gone EXCEPT ![c] = s]
<1> USE DEF TrailInv, TrailTypeOK, MoveTo, Spend
<1>1. /\ artifacts = [artifacts EXCEPT ![c] = artifacts[c]]
      /\ overdue = [overdue EXCEPT ![c] = overdue[c]]
      /\ gone = [gone EXCEPT ![c] = gone[c]]
  OBVIOUS
<1>2. exits' \subseteq Captures
  BY DEF Progress, Post, AppendRaw, Reject, Parse, Route, MarkProcessed
<1>3. \E s : stage' = [stage EXCEPT ![c] = s]
  BY DEF Progress, Post, AppendRaw, Reject, Parse, Route, MarkProcessed
<1>4. \E s : artifacts' = [artifacts EXCEPT ![c] = s]
  BY <1>1 DEF Progress, Post, AppendRaw, Reject, Parse, Route, MarkProcessed
<1>5. /\ \E s : overdue' = [overdue EXCEPT ![c] = s]
      /\ \E s : gone' = [gone EXCEPT ![c] = s]
  BY <1>1 DEF Progress, Post, AppendRaw, Reject, Parse, Route, MarkProcessed
<1> QED
  BY <1>2, <1>3, <1>4, <1>5

LEMMA StepTrail ==
  ASSUME NEW c \in Captures, TrailInv, Progress(c)
  PROVE  TrailInv' /\ \A d \in Captures : Younger(d)
<1>1. Moved(c)
  BY StepMoves
<1>2. TrailTypeOK'
  <2>1. exits' \subseteq Captures
    BY FunctionsStay
  <2>2. stage' \in [Captures -> StageNames] /\ artifacts' \in [Captures -> Artifacts]
    BY <1>1, FunctionsStay DEF Moved, TrailInv, TrailTypeOK
  <2>3. overdue' \in [Captures -> 0..3] /\ gone' \in [Captures -> 0..3]
    BY <1>1, FunctionsStay DEF Moved, TrailInv, TrailTypeOK
  <2> QED
    BY <2>1, <2>2, <2>3 DEF TrailTypeOK
<1>3. ASSUME NEW d \in Captures, d # c
      PROVE  Younger(d) /\ Stamps(d)' = Stamps(d) /\ overdue'[d] = overdue[d]
             /\ stage'[d] = stage[d] /\ artifacts'[d] = artifacts[d]
  BY <1>3, OthersStay
     DEF Younger, Late, Stamps, RawRows, ProcessedRows, RoutedRows, OrderRows, MessageRows,
         ParsedRows
<1> QED
  BY <1>1, <1>2, <1>3 DEF Moved, TrailInv

LEMMA TimeTrail ==
  ASSUME NEW c \in Captures, TrailInv, TimePasses(c)
  PROVE  TrailInv' /\ UNCHANGED <<exits, stage, artifacts>>
<1>1. UNCHANGED <<exits, stage, artifacts>>
  BY DEF TimePasses, Age, LeaveWindow
<1>2. Stamps(c) \in 0..3
  BY StampsBounds
<1>3. overdue' \in [Captures -> 0..3] /\ gone' \in [Captures -> 0..3]
  BY <1>2 DEF TimePasses, Age, LeaveWindow, TrailInv, TrailTypeOK
<1>4. \A d \in Captures : Stamps(d)' = Stamps(d)
  BY <1>1 DEF Stamps
<1>5. ASSUME NEW d \in Captures PROVE overdue'[d] <= Stamps(d)
  BY <1>5, <1>2 DEF TimePasses, Age, LeaveWindow, TrailInv, TrailTypeOK
<1> QED
  BY <1>1, <1>3, <1>4, <1>5 DEF TrailInv, TrailTypeOK

-----------------------------------------------------------------------------
(* The invariant.                                                          *)

\* Between two runs, and up to the message of a run, the record and the operator differ
\* only by what went astray; once the message is out it is the keys of the run that do.
NoneUntold ==
  /\ at # "save" => (saved \ told) \cup (told \ saved) \subseteq astray
  /\ at = "save" => (found \ told) \cup (told \ found) \subseteq astray

WatcherCodes == {"launch_agent_not_running", "heartbeat_missing", "heartbeat_stale"}
NotificationCodes == {"notification_db_row_not_raw"}
BrowserCodes ==
  {"browser_health_missing", "browser_health_stale", "browser_capture_degraded",
   "browser_message_not_raw"}
RawCodes == {"raw_not_processed"}
RoutingCodes == {"option_exit_not_recorded", "non_hedge_missing_auto_buy"}
ReportCodes == {"approval_card_send_failed", "auto_buy_missing_order_audit"}

\* The steps up to each check.
ToNotifications == {"notifications", "their raws"}
ToBrowser == ToNotifications \cup {"browser", "messages"}
ToRaw == ToBrowser \cup {"raw", "raws"}
ToRouting == ToRaw \cup {"routing", "parsed"}
ToReports == ToRouting \cup {"reports", "audit"}

\* A failure that lasts and is not found is one of a check that is still to come.
LeftToFind ==
  \A k \in lasting :
    /\ k \in Current
    /\ k[1] \notin WatcherCodes
    /\ k[1] \in NotificationCodes => at \in ToNotifications
    /\ k[1] \in BrowserCodes => at \in ToBrowser
    /\ k[1] \in RawCodes => at \in ToRaw
    /\ k[1] \in RoutingCodes => at \in ToRouting
    /\ k[1] \in ReportCodes => at \in ToReports

\* What a check has read of its first file is still there when it reads the second.
ReadStands ==
  /\ at = "their raws" =>
       \A c \in Captures : <<"notification_db_row_not_raw", c>> \in lasting => c \in read
  /\ at = "messages" => read \subseteq RawRows
  /\ at = "raws" => read \subseteq ProcessedRows
  /\ at = "parsed" => read \subseteq RoutedRows
  /\ at = "audit" => read \subseteq OrderRows

\* What the second file can add to a check was late when it read the first.
LateBefore ==
  /\ at = "their raws" =>
       \A c \in read \ RawRows : Late(c, 1) => <<"notification_db_row_not_raw", c>> \in before
  /\ at = "messages" => \A c \in MessageRows \ read : Late(c, 1) => BrowserKey(c) \in before
  /\ at = "raws" =>
       \A c \in RawRows \ read : Late(c, 2) => <<"raw_not_processed", c>> \in before
  /\ at = "parsed" => \A c \in ParsedRows \ read : Late(c, 3) => RoutingKey(c) \in before

-----------------------------------------------------------------------------
(* The keys                                                                *)

LEMMA WhenKey ==
  ASSUME NEW condition \in BOOLEAN, NEW code
  PROVE  When(condition, code) = IF condition THEN {<<code, "-">>} ELSE {}
  BY DEF When

LEMMA WatcherKeysAre ==
  ASSUME NEW k \in LiveWatcherKeys
  PROVE  k \in Keys /\ k[1] \in WatcherCodes
<1>1. PICK code \in WatcherCodes : k = <<code, "-">>
  BY DEF LiveWatcherKeys, When, WatcherCodes
<1> QED
  BY <1>1 DEF Keys, WatcherCodes, ServiceCodes

LEMMA BrowserHealthKeysAre ==
  ASSUME NEW k \in BrowserHealthKeys
  PROVE  k \in Keys /\ k[1] \in BrowserCodes \cap ServiceCodes
<1>1. PICK code \in BrowserCodes \cap ServiceCodes : k = <<code, "-">>
  BY DEF BrowserHealthKeys, When, BrowserCodes, ServiceCodes
<1> QED
  BY <1>1 DEF Keys

LEMMA CaptureKey ==
  ASSUME NEW code \in CaptureCodes, NEW c \in Captures
  PROVE  <<code, c>> \in Keys /\ <<code, c>>[1] = code
  BY DEF Keys

LEMMA NotificationKeysAre ==
  ASSUME NEW rows \in SUBSET Captures, NEW k \in NotificationKeys(rows)
  PROVE  k \in Keys /\ k[1] \in NotificationCodes
  BY CaptureKey DEF NotificationKeys, NotificationCodes, CaptureCodes

LEMMA BrowserMessageKeysAre ==
  ASSUME NEW raws, NEW k \in BrowserMessageKeys(raws)
  PROVE  k \in Keys /\ k[1] \in BrowserCodes
  BY DEF BrowserMessageKeys, MessageRows, BrowserKey, BrowserCodes, Keys

LEMMA RawKeysAre ==
  ASSUME NEW done, NEW k \in RawProcessingKeys(done)
  PROVE  k \in Keys /\ k[1] \in RawCodes
  BY CaptureKey DEF RawProcessingKeys, RawRows, RawCodes, CaptureCodes

LEMMA RoutingKeysAre ==
  ASSUME NEW routed, NEW k \in RoutingKeys(routed)
  PROVE  k \in Keys /\ k[1] \in RoutingCodes
  BY CaptureKey DEF RoutingKeys, RoutingKey, ParsedRows, RoutingCodes, CaptureCodes

LEMMA DeliveryKeysAre ==
  ASSUME NEW k \in DeliveryKeys
  PROVE  k \in Keys /\ k[1] \in ReportCodes
  BY CaptureKey DEF DeliveryKeys, ReportCodes, CaptureCodes

LEMMA AuditKeysAre ==
  ASSUME NEW ordered, NEW k \in AuditKeys(ordered)
  PROVE  k \in Keys /\ k[1] \in ReportCodes
  BY CaptureKey DEF AuditKeys, ReportCodes, CaptureCodes

LEMMA CurrentIsKeys == Current \subseteq Keys
<1>1. DbRows \in SUBSET Captures
  BY DEF DbRows
<1> QED
  BY <1>1, WatcherKeysAre, BrowserHealthKeysAre, NotificationKeysAre, BrowserMessageKeysAre,
     RawKeysAre, RoutingKeysAre, DeliveryKeysAre, AuditKeysAre DEF Current

LEMMA NextCurrentIsKeys == Current' \subseteq Keys
<1>1. (Current \subseteq Keys)'
  BY CurrentIsKeys, PTL
<1> QED
  BY <1>1

\* A key of Current is one of the check its code belongs to.
LEMMA CodeTellsCheck ==
  ASSUME NEW k \in Current
  PROVE  /\ k[1] \in WatcherCodes => k \in LiveWatcherKeys
         /\ k[1] \in NotificationCodes => k \in NotificationKeys(DbRows)
         /\ k[1] \in BrowserCodes => k \in BrowserHealthKeys \cup BrowserMessageKeys(RawRows)
         /\ k[1] \in RawCodes => k \in RawProcessingKeys(ProcessedRows)
         /\ k[1] \in RoutingCodes => k \in RoutingKeys(RoutedRows)
         /\ k[1] \in ReportCodes => k \in DeliveryKeys \cup AuditKeys(OrderRows)
<1>1. DbRows \in SUBSET Captures
  BY DEF DbRows
<1>2. k \in LiveWatcherKeys => k[1] \in WatcherCodes
  BY WatcherKeysAre
<1>3. k \in NotificationKeys(DbRows) => k[1] \in NotificationCodes
  BY <1>1, NotificationKeysAre
<1>4. k \in BrowserHealthKeys \cup BrowserMessageKeys(RawRows) => k[1] \in BrowserCodes
  BY BrowserHealthKeysAre, BrowserMessageKeysAre
<1>5. k \in RawProcessingKeys(ProcessedRows) => k[1] \in RawCodes
  BY RawKeysAre
<1>6. k \in RoutingKeys(RoutedRows) => k[1] \in RoutingCodes
  BY RoutingKeysAre
<1>7. k \in DeliveryKeys \cup AuditKeys(OrderRows) => k[1] \in ReportCodes
  BY DeliveryKeysAre, AuditKeysAre
<1>8. \/ k \in LiveWatcherKeys
      \/ k \in NotificationKeys(DbRows)
      \/ k \in BrowserHealthKeys \cup BrowserMessageKeys(RawRows)
      \/ k \in RawProcessingKeys(ProcessedRows)
      \/ k \in RoutingKeys(RoutedRows)
      \/ k \in DeliveryKeys \cup AuditKeys(OrderRows)
  BY DEF Current
<1> QED
  BY <1>2, <1>3, <1>4, <1>5, <1>6, <1>7, <1>8
     DEF WatcherCodes, NotificationCodes, BrowserCodes, RawCodes, RoutingCodes, ReportCodes

LEMMA CodesAreAll ==
  ASSUME NEW k \in Keys
  PROVE  k[1] \in WatcherCodes \cup NotificationCodes \cup BrowserCodes \cup RawCodes
                    \cup RoutingCodes \cup ReportCodes
  BY DEF Keys, ServiceCodes, CaptureCodes, WatcherCodes, NotificationCodes, BrowserCodes,
         RawCodes, RoutingCodes, ReportCodes

\* The keys depend on nothing but the trail and the services.
LEMMA KeysStay ==
  ASSUME UNCHANGED <<trailVars, services>>
  PROVE  /\ Current' = Current /\ LiveWatcherKeys' = LiveWatcherKeys
         /\ RawRows' = RawRows /\ ProcessedRows' = ProcessedRows /\ RoutedRows' = RoutedRows
         /\ OrderRows' = OrderRows /\ MessageRows' = MessageRows /\ ParsedRows' = ParsedRows
         /\ \A c \in Captures : /\ \A n \in 1..3 : Late(c, n)' = Late(c, n)
                                /\ RoutingKey(c)' = RoutingKey(c)
  BY DEF trailVars, Current, LiveWatcherKeys, BrowserHealthKeys, NotificationKeys,
         BrowserMessageKeys, RawProcessingKeys, RoutingKeys, DeliveryKeys, AuditKeys, DbRows,
         RawRows, ProcessedRows, RoutedRows, OrderRows, MessageRows, ParsedRows, Late,
         RoutingKey, BrowserKey, Stamps

-----------------------------------------------------------------------------
(* Types                                                                   *)

LEMMA TrailStays ==
  ASSUME TrailInv, UNCHANGED trailVars
  PROVE  TrailInv'
  BY DEF TrailInv, TrailTypeOK, trailVars, Stamps

LEMMA PipelineTrail ==
  ASSUME TrailInv, Pipeline
  PROVE  /\ TrailInv'
         /\ \A d \in Captures : Grown(d)
         /\ Reading => \A d \in Captures : Younger(d)
<1>1. PICK c \in Captures : Progress(c) \/ (~Reading /\ TimePasses(c))
  BY DEF Pipeline
<1>2. CASE Progress(c)
  BY <1>2, StepTrail DEF Grown, Younger
<1>3. CASE ~Reading /\ TimePasses(c)
  <2>1. TrailInv' /\ UNCHANGED <<exits, stage, artifacts>>
    BY <1>3, TimeTrail
  <2>2. \A d \in Captures : Grown(d)
    BY <2>1 DEF Grown, RawRows, ProcessedRows, RoutedRows, OrderRows
  <2> QED
    BY <1>3, <2>1, <2>2
<1> QED
  BY <1>1, <1>2, <1>3

\* What Watched records.
LEMMA WatchedSays ==
  ASSUME TypeOK, Watched
  PROVE  /\ lasting' \subseteq Keys /\ before' \subseteq Keys
         /\ lasting' \subseteq Current' \ found'
         /\ at # "idle" => lasting' \subseteq lasting
         /\ at' = "idle" => lasting' = {}
         /\ Reading' /\ Reading => before' = before
         /\ Reading' /\ ~Reading => before' = Current'
<1>1. Current' \subseteq Keys /\ lasting \subseteq Keys /\ before \subseteq Keys
  BY NextCurrentIsKeys DEF TypeOK
<1>2. lasting' = IF at' = "idle" THEN {}
                 ELSE (IF at = "idle" THEN Current' ELSE lasting \cap Current') \ found'
  BY DEF Watched
<1>3. ASSUME ~Reading' PROVE before' = {}
  BY <1>3 DEF Watched
<1>4. ASSUME Reading', Reading PROVE before' = before
  BY <1>4 DEF Watched
<1>5. ASSUME Reading', ~Reading PROVE before' = Current'
  BY <1>5 DEF Watched
<1> QED
  BY <1>1, <1>2, <1>3, <1>4, <1>5

LEMMA InitTypes == Init => TypeOK /\ TrailInv
<1>1. Healthy \in Services
  BY DEF Services, Healthy, FileStates
<1>2. 0 \in 0..MaxTroubles
  BY MonitorAssumption
<1>3. Init => TrailInv /\ TrailTypeOK
  BY InitTrail DEF Init, TrailInv
<1> QED
  BY <1>1, <1>2, <1>3 DEF Init, TypeOK, Steps

LEMMA TroubleCounts ==
  ASSUME TypeOK, Trouble
  PROVE  troubles' \in 0..MaxTroubles
  BY MonitorAssumption DEF TypeOK, Trouble

LEMMA RowsAreCaptures ==
  /\ DbRows \subseteq Captures /\ RawRows \subseteq Captures /\ ProcessedRows \subseteq Captures
  /\ RoutedRows \subseteq Captures /\ OrderRows \subseteq Captures
  BY DEF DbRows, RawRows, ProcessedRows, RoutedRows, OrderRows

\* A step between two checks.
LEMMA CheckingTypes ==
  ASSUME TypeOK, Checking
  PROVE  /\ UNCHANGED <<trailVars, services, silent, saved, told, astray, troubles>>
         /\ at \notin {"idle", "send", "save"} /\ at' \in Steps \ {"idle", "save"}
         /\ read' \subseteq Captures /\ found' \subseteq Keys
<1> USE DEF Step, Steps
<1>0. found \subseteq Keys /\ read \in SUBSET Captures
  BY DEF TypeOK
<1>1. CASE ProbeNotifications
  BY <1>0, <1>1, RowsAreCaptures DEF ProbeNotifications, Load
<1>2. CASE CheckNotifications
  <2>1. NotificationKeys(read) \subseteq Keys
    BY <1>0, NotificationKeysAre
  <2> QED
    BY <1>0, <1>2, <2>1 DEF CheckNotifications, Check
<1>3. CASE LoadRawKeys
  BY <1>0, <1>3, RowsAreCaptures DEF LoadRawKeys, Load
<1>4. CASE CheckBrowser
  <2>1. BrowserHealthKeys \cup BrowserMessageKeys(read) \subseteq Keys
    BY BrowserHealthKeysAre, BrowserMessageKeysAre
  <2> QED
    BY <1>0, <1>4, <2>1 DEF CheckBrowser, Check
<1>5. CASE LoadProcessed
  BY <1>0, <1>5, RowsAreCaptures DEF LoadProcessed, Load
<1>6. CASE CheckRawProcessing
  <2>1. RawProcessingKeys(read) \subseteq Keys
    BY RawKeysAre
  <2> QED
    BY <1>0, <1>6, <2>1 DEF CheckRawProcessing, Check
<1>7. CASE LoadArtifacts
  BY <1>0, <1>7, RowsAreCaptures DEF LoadArtifacts, Load
<1>8. CASE CheckRouting
  <2>1. RoutingKeys(read) \subseteq Keys
    BY RoutingKeysAre
  <2> QED
    BY <1>0, <1>8, <2>1 DEF CheckRouting, Check
<1>9. CASE LoadOrders
  BY <1>0, <1>9, RowsAreCaptures DEF LoadOrders, Load
<1>10. CASE CheckReports
  <2>1. DeliveryKeys \cup AuditKeys(read) \subseteq Keys
    BY DeliveryKeysAre, AuditKeysAre
  <2> QED
    BY <1>0, <1>10, <2>1 DEF CheckReports, Check
<1> QED
  BY <1>1, <1>2, <1>3, <1>4, <1>5, <1>6, <1>7, <1>8, <1>9, <1>10 DEF Checking

LEMMA StepTypes ==
  ASSUME TypeOK, TrailInv, Next
  PROVE  TypeOK' /\ TrailInv'
<1>0. /\ services \in Services /\ at \in Steps /\ silent \in BOOLEAN /\ read \subseteq Captures
      /\ found \subseteq Keys /\ saved \subseteq Keys /\ told \subseteq Keys
      /\ astray \subseteq Keys /\ troubles \in 0..MaxTroubles
  BY DEF TypeOK
<1>1. lasting' \subseteq Keys /\ before' \subseteq Keys
  BY WatchedSays DEF Next
<1> DEFINE Rest == /\ services' \in Services /\ at' \in Steps /\ silent' \in BOOLEAN
                   /\ read' \subseteq Captures
                   /\ found' \subseteq Keys /\ saved' \subseteq Keys /\ told' \subseteq Keys
                   /\ astray' \subseteq Keys /\ troubles' \in 0..MaxTroubles
<1>2. Rest /\ TrailInv'
  <2>1. CASE Begin
    <3>1. LiveWatcherKeys \subseteq Keys
      BY WatcherKeysAre
    <3>2. UNCHANGED trailVars /\ Rest
      BY <1>0, <2>1, <3>1, TroubleCounts DEF Begin, Steps
    <3> QED
      BY <3>2, TrailStays
  <2>2. CASE Checking
    BY <1>0, <2>2, CheckingTypes, TrailStays
  <2>3. CASE SendAlert
    <3>1. UNCHANGED trailVars /\ Rest
      BY <1>0, <2>3, TroubleCounts DEF SendAlert, Steps, New, Recovered
    <3> QED
      BY <3>1, TrailStays
  <2>4. CASE SaveState
    <3>1. UNCHANGED trailVars /\ Rest
      BY <1>0, <2>4 DEF SaveState, Steps
    <3> QED
      BY <3>1, TrailStays
  <2>5. CASE Crash
    <3>1. UNCHANGED trailVars /\ Rest
      BY <1>0, <2>5, TroubleCounts DEF Crash, Steps, New, Recovered
    <3> QED
      BY <3>1, TrailStays
  <2>6. CASE Fault
    <3>1. UNCHANGED trailVars /\ Rest
      BY <1>0, <2>6, TroubleCounts, MonitorAssumption DEF Fault, monitorVars
    <3> QED
      BY <3>1, TrailStays
  <2>7. CASE Repair
    <3>1. UNCHANGED trailVars /\ Rest
      BY <1>0, <2>7 DEF Repair, monitorVars, Services, Healthy, FileStates
    <3> QED
      BY <3>1, TrailStays
  <2>8. CASE Pipeline
    <3>1. Rest
      BY <1>0, <2>8 DEF Pipeline, monitorVars
    <3> QED
      BY <3>1, <2>8, PipelineTrail
  <2> QED
    BY <2>1, <2>2, <2>3, <2>4, <2>5, <2>6, <2>7, <2>8 DEF Next, Run
<1> QED
  BY <1>1, <1>2 DEF TypeOK, TrailInv

LEMMA StutterTypes ==
  ASSUME TypeOK, TrailInv, UNCHANGED vars
  PROVE  TypeOK' /\ TrailInv'
<1>1. TrailInv'
  BY TrailStays DEF vars
<1> QED
  BY <1>1 DEF TypeOK, TrailInv, vars, monitorVars

\* The variables have the values declared for them.
THEOREM TypeCorrect == Spec => []TypeOK
<1>1. Init => TypeOK /\ TrailInv
  BY InitTypes
<1>2. (TypeOK /\ TrailInv) /\ [Next]_vars => (TypeOK /\ TrailInv)'
  BY StepTypes, StutterTypes
<1> QED
  BY <1>1, <1>2, PTL DEF Spec

-----------------------------------------------------------------------------
(* What is on record as known has been told.                               *)

LEMMA UntoldStep ==
  ASSUME TypeOK, NoneUntold, Next
  PROVE  NoneUntold'
<1>1. CASE Begin
  BY <1>1 DEF Begin, NoneUntold
<1>2. CASE Checking
  BY <1>2, CheckingTypes DEF NoneUntold
<1>3. CASE SendAlert
  <2>0. at = "send" /\ at' = "save" /\ UNCHANGED <<found, saved>>
    BY <1>3 DEF SendAlert
  <2>1. \/ told' = (told \cup New) \ Recovered /\ astray' = astray \ (New \cup Recovered)
        \/ UNCHANGED told /\ astray' = astray \cup New \cup Recovered
    BY <1>3 DEF SendAlert
  <2> QED
    BY <2>0, <2>1 DEF NoneUntold, New, Recovered
<1>4. CASE SaveState
  BY <1>4 DEF SaveState, NoneUntold
<1>5. CASE Crash
  BY <1>5 DEF Crash, NoneUntold, New, Recovered
<1>6. CASE Fault \/ Repair \/ Pipeline
  BY <1>6 DEF Fault, Repair, Pipeline, monitorVars, NoneUntold
<1> QED
  BY <1>1, <1>2, <1>3, <1>4, <1>5, <1>6 DEF Next, Run

\* What the operator has been told to be failing is what the monitor has on record, but
\* for the keys whose last change went astray: of any captures and any number of troubles.
THEOREM KnownStaysTold == Spec => []KnownIsTold
<1> DEFINE I == TypeOK /\ TrailInv /\ NoneUntold
<1>1. Init => I
  BY InitTypes DEF Init, NoneUntold
<1>2. I /\ [Next]_vars => I'
  <2>1. CASE Next
    BY <2>1, StepTypes, UntoldStep
  <2>2. CASE UNCHANGED vars
    BY <2>2, StutterTypes DEF NoneUntold, vars, monitorVars
  <2> QED
    BY <2>1, <2>2
<1>3. I => KnownIsTold
  BY DEF NoneUntold, KnownIsTold
<1> QED
  BY <1>1, <1>2, <1>3, PTL DEF Spec

-----------------------------------------------------------------------------
(* A run finds every stall that stands throughout it.                      *)

\* A step of the run that finds nothing leaves its check to come.
LEMMA BeginLeft ==
  ASSUME TypeOK, Begin, Watched
  PROVE  LeftToFind' /\ ReadStands'
<1>1. at' = "notifications" /\ found' = LiveWatcherKeys /\ UNCHANGED <<trailVars, services>>
  BY DEF Begin
<1>2. lasting' \subseteq Current' \ found' /\ Current' = Current
  BY <1>1, WatchedSays, KeysStay
<1>3. \A k \in lasting' : k \in Current' /\ k[1] \notin WatcherCodes
  BY <1>1, <1>2, CodeTellsCheck
<1>4. LeftToFind'
  BY <1>1, <1>3 DEF LeftToFind, ToNotifications, ToBrowser, ToRaw, ToRouting, ToReports
<1> QED
  BY <1>1, <1>4 DEF ReadStands

LEMMA LoadLeft ==
  ASSUME TypeOK, LeftToFind, Watched,
         \/ ProbeNotifications \/ LoadRawKeys \/ LoadProcessed \/ LoadArtifacts \/ LoadOrders
  PROVE  LeftToFind' /\ ReadStands'
<1>1. UNCHANGED <<trailVars, services>> /\ at # "idle"
  BY DEF ProbeNotifications, LoadRawKeys, LoadProcessed, LoadArtifacts, LoadOrders, Load, Step
<1>2. lasting' \subseteq Current' /\ Current' = Current /\ lasting' \subseteq lasting
  BY <1>1, WatchedSays
     , KeysStay
<1>3. \/ at = "notifications" /\ at' = "their raws" /\ read' = DbRows
      \/ at = "browser" /\ at' = "messages" /\ read' = RawRows'
      \/ at = "raw" /\ at' = "raws" /\ read' = ProcessedRows'
      \/ at = "routing" /\ at' = "parsed" /\ read' = RoutedRows'
      \/ at = "reports" /\ at' = "audit" /\ read' = OrderRows'
  BY <1>1, KeysStay
     DEF ProbeNotifications, LoadRawKeys, LoadProcessed, LoadArtifacts, LoadOrders, Load, Step
<1>4. LeftToFind'
  <2>1. \A k \in lasting' : k \in lasting /\ k \in Current'
    BY <1>2
  <2> QED
    BY <1>3, <2>1 DEF LeftToFind, ToNotifications, ToBrowser, ToRaw, ToRouting, ToReports
<1>5. ReadStands'
  <2>1. CASE at' = "their raws"
    <3>1. ASSUME NEW c \in Captures, <<"notification_db_row_not_raw", c>> \in lasting'
          PROVE  c \in DbRows
      <4>1. <<"notification_db_row_not_raw", c>> \in NotificationKeys(DbRows)
        BY <3>1, <1>2, CodeTellsCheck DEF NotificationCodes
      <4> QED
        BY <4>1 DEF NotificationKeys
    <3> QED
      BY <1>3, <2>1, <3>1 DEF ReadStands
  <2>2. CASE at' # "their raws"
    BY <1>3, <2>2 DEF ReadStands
  <2> QED
    BY <2>1, <2>2
<1> QED
  BY <1>4, <1>5

\* A check finds the keys of its codes that have lasted.
LEMMA NotificationsFound ==
  ASSUME TypeOK, LeftToFind, ReadStands, at = "their raws", NEW k \in lasting,
         k[1] \in NotificationCodes
  PROVE  k \in NotificationKeys(read)
<1>1. k \in NotificationKeys(DbRows)
  BY CodeTellsCheck DEF LeftToFind
<1>2. PICK c \in DbRows \ RawRows : Late(c, 1) /\ k = <<"notification_db_row_not_raw", c>>
  BY <1>1 DEF NotificationKeys
<1>3. c \in Captures
  BY <1>2, RowsAreCaptures
<1> QED
  BY <1>2, <1>3 DEF NotificationKeys, ReadStands

LEMMA MessagesFound ==
  ASSUME TypeOK, LeftToFind, ReadStands, at = "messages", NEW k \in lasting,
         k[1] \in BrowserCodes
  PROVE  k \in BrowserHealthKeys \cup BrowserMessageKeys(read)
<1>1. k \in BrowserHealthKeys \cup BrowserMessageKeys(RawRows)
  BY CodeTellsCheck DEF LeftToFind
<1>2. read \subseteq RawRows
  BY DEF ReadStands
<1> QED
  BY <1>1, <1>2 DEF BrowserMessageKeys

LEMMA RawsFound ==
  ASSUME TypeOK, LeftToFind, ReadStands, at = "raws", NEW k \in lasting, k[1] \in RawCodes
  PROVE  k \in RawProcessingKeys(read)
<1>1. k \in RawProcessingKeys(ProcessedRows)
  BY CodeTellsCheck DEF LeftToFind
<1>2. read \subseteq ProcessedRows
  BY DEF ReadStands
<1> QED
  BY <1>1, <1>2 DEF RawProcessingKeys

LEMMA RoutesFound ==
  ASSUME TypeOK, LeftToFind, ReadStands, at = "parsed", NEW k \in lasting, k[1] \in RoutingCodes
  PROVE  k \in RoutingKeys(read)
<1>1. k \in RoutingKeys(RoutedRows)
  BY CodeTellsCheck DEF LeftToFind
<1>2. read \subseteq RoutedRows
  BY DEF ReadStands
<1> QED
  BY <1>1, <1>2 DEF RoutingKeys

LEMMA ReportsFound ==
  ASSUME TypeOK, LeftToFind, ReadStands, at = "audit", NEW k \in lasting, k[1] \in ReportCodes
  PROVE  k \in DeliveryKeys \cup AuditKeys(read)
<1>1. k \in DeliveryKeys \cup AuditKeys(OrderRows)
  BY CodeTellsCheck DEF LeftToFind
<1>2. read \subseteq OrderRows
  BY DEF ReadStands
<1> QED
  BY <1>1, <1>2 DEF AuditKeys

LEMMA CheckLeft ==
  ASSUME TypeOK, LeftToFind, ReadStands, Watched,
         \/ CheckNotifications \/ CheckBrowser \/ CheckRawProcessing \/ CheckRouting \/ CheckReports
  PROVE  LeftToFind' /\ ReadStands'
<1> USE DEF LeftToFind, ToNotifications, ToBrowser, ToRaw, ToRouting, ToReports
<1>1. UNCHANGED <<trailVars, services>> /\ at # "idle"
  BY DEF CheckNotifications, CheckBrowser, CheckRawProcessing, CheckRouting, CheckReports, Check, Step
<1>2. \A k \in lasting' : k \in lasting /\ k \in Current' /\ k \notin found'
  BY <1>1, WatchedSays
<1>3. CASE CheckNotifications
  <2>1. at = "their raws" /\ at' = "browser" /\ found' = found \cup NotificationKeys(read)
    BY <1>3 DEF CheckNotifications, Check, Step
  <2>2. \A k \in lasting' : k[1] \notin NotificationCodes
    BY <1>2, <2>1, NotificationsFound
  <2> QED
    BY <1>2, <2>1, <2>2 DEF ReadStands
<1>4. CASE CheckBrowser
  <2>1. /\ at = "messages" /\ at' = "raw"
        /\ found' = found \cup (BrowserHealthKeys \cup BrowserMessageKeys(read))
    BY <1>4 DEF CheckBrowser, Check, Step
  <2>2. \A k \in lasting' : k[1] \notin BrowserCodes
    BY <1>2, <2>1, MessagesFound
  <2> QED
    BY <1>2, <2>1, <2>2 DEF ReadStands
<1>5. CASE CheckRawProcessing
  <2>1. at = "raws" /\ at' = "routing" /\ found' = found \cup RawProcessingKeys(read)
    BY <1>5 DEF CheckRawProcessing, Check, Step
  <2>2. \A k \in lasting' : k[1] \notin RawCodes
    BY <1>2, <2>1, RawsFound
  <2> QED
    BY <1>2, <2>1, <2>2 DEF ReadStands
<1>6. CASE CheckRouting
  <2>1. at = "parsed" /\ at' = "reports" /\ found' = found \cup RoutingKeys(read)
    BY <1>6 DEF CheckRouting, Check, Step
  <2>2. \A k \in lasting' : k[1] \notin RoutingCodes
    BY <1>2, <2>1, RoutesFound
  <2> QED
    BY <1>2, <2>1, <2>2 DEF ReadStands
<1>7. CASE CheckReports
  <2>1. /\ at = "audit" /\ at' = "send"
        /\ found' = found \cup (DeliveryKeys \cup AuditKeys(read))
    BY <1>7 DEF CheckReports, Check, Step
  <2>2. \A k \in lasting' : k[1] \notin ReportCodes
    BY <1>2, <2>1, ReportsFound
  <2> QED
    BY <1>2, <2>1, <2>2 DEF ReadStands
<1> QED
  BY <1>3, <1>4, <1>5, <1>6, <1>7

\* What goes on meanwhile only adds rows, and ends what no longer lasts.
LEMMA OthersLeave ==
  ASSUME TypeOK, TrailInv, LeftToFind, ReadStands, Watched, Fault \/ Repair \/ Pipeline
  PROVE  LeftToFind' /\ ReadStands'
<1>1. UNCHANGED <<at, read>>
  BY DEF Fault, Repair, Pipeline, monitorVars
<1>2. \A k \in lasting' : k \in lasting /\ k \in Current'
  <2>1. CASE at = "idle"
    BY <1>1, <2>1, WatchedSays
  <2>2. CASE at # "idle"
    BY <2>2, WatchedSays
  <2> QED
    BY <2>1, <2>2
<1>3. \A d \in Captures : Grown(d)
  <2>1. CASE Fault \/ Repair
    BY <2>1 DEF Fault, Repair, trailVars, Grown, RawRows, ProcessedRows, RoutedRows, OrderRows
  <2>2. CASE Pipeline
    BY <2>2, PipelineTrail
  <2> QED
    BY <2>1, <2>2
<1>4. LeftToFind'
  BY <1>1, <1>2 DEF LeftToFind
<1>5. read \subseteq Captures
  BY DEF TypeOK
<1> QED
  BY <1>1, <1>2, <1>3, <1>4, <1>5 DEF ReadStands, Grown

LEMMA LeftStep ==
  ASSUME TypeOK, TrailInv, LeftToFind, ReadStands, Next
  PROVE  LeftToFind' /\ ReadStands'
<1>0. Watched
  BY DEF Next
<1>1. CASE Begin
  BY <1>0, <1>1, BeginLeft
<1>2. CASE Checking
  BY <1>0, <1>2, LoadLeft, CheckLeft DEF Checking
<1>3. CASE SendAlert
  <2>1. at = "send" /\ at' = "save" /\ UNCHANGED <<trailVars, services>>
    BY <1>3 DEF SendAlert
  <2>2. \A k \in lasting' : k \in lasting /\ k \in Current'
    BY <1>0, <2>1, WatchedSays
  <2> QED
    BY <2>1, <2>2
       DEF LeftToFind, ReadStands, ToNotifications, ToBrowser, ToRaw, ToRouting, ToReports
<1>4. CASE SaveState \/ Crash
  <2>1. at' = "idle"
    BY <1>4 DEF SaveState, Crash
  <2>2. lasting' = {}
    BY <1>0, <2>1, WatchedSays
  <2> QED
    BY <2>1, <2>2 DEF LeftToFind, ReadStands
<1>5. CASE Fault \/ Repair \/ Pipeline
  BY <1>0, <1>5, OthersLeave
<1> QED
  BY <1>1, <1>2, <1>3, <1>4, <1>5 DEF Next, Run

\* When a run reports, it has found every failure that stood throughout it, whatever
\* captures moved on while it read the files one after another.
THEOREM StallsAreFound == Spec => []StallIsFound
<1> DEFINE I == TypeOK /\ TrailInv /\ LeftToFind /\ ReadStands
<1>1. Init => I
  BY InitTypes DEF Init, LeftToFind, ReadStands
<1>2. I /\ [Next]_vars => I'
  <2>1. CASE Next
    BY <2>1, StepTypes, LeftStep
  <2>2. CASE UNCHANGED vars
    <3>1. UNCHANGED <<trailVars, services, at, read, lasting>>
      BY <2>2 DEF vars, monitorVars
    <3> QED
      BY <2>2, <3>1, StutterTypes, KeysStay DEF LeftToFind, ReadStands
  <2> QED
    BY <2>1, <2>2
<1>3. I => StallIsFound
  <2>1. ASSUME I, at = "send", NEW k \in lasting PROVE FALSE
    <3>1. k \in Keys
      BY <2>1 DEF TypeOK
    <3> QED
      BY <2>1, <3>1, CodesAreAll
         DEF LeftToFind, ToNotifications, ToBrowser, ToRaw, ToRouting, ToReports
  <2> QED
    BY <2>1 DEF StallIsFound
<1> QED
  BY <1>1, <1>2, <1>3, PTL DEF Spec

-----------------------------------------------------------------------------
(* A check finds only what was late when it read its first file.           *)

LEMMA LoadLate ==
  ASSUME Watched, TypeOK, ProbeNotifications \/ LoadRawKeys \/ LoadProcessed \/ LoadArtifacts
  PROVE  LateBefore'
<1>1. UNCHANGED <<trailVars, services>>
  BY DEF ProbeNotifications, LoadRawKeys, LoadProcessed, LoadArtifacts, Load, Step
<1>2. \/ at = "notifications" /\ at' = "their raws" /\ read' = DbRows
      \/ at = "browser" /\ at' = "messages" /\ read' = RawRows
      \/ at = "raw" /\ at' = "raws" /\ read' = ProcessedRows
      \/ at = "routing" /\ at' = "parsed" /\ read' = RoutedRows
  BY DEF ProbeNotifications, LoadRawKeys, LoadProcessed, LoadArtifacts, Load, Step
<1>3. before' = Current
  <2>1. ~Reading /\ Reading'
    BY <1>2 DEF Reading
  <2> QED
    BY <1>1, <2>1, WatchedSays, KeysStay
<1>4. CASE at' = "their raws"
  <2>1. ASSUME NEW c \in DbRows \ RawRows, Late(c, 1)
        PROVE  <<"notification_db_row_not_raw", c>> \in Current
    BY <2>1 DEF Current, NotificationKeys
  <2> QED
    <3>1. ASSUME NEW c \in read' \ RawRows', Late(c, 1)'
          PROVE  <<"notification_db_row_not_raw", c>> \in before'
      <4>1. c \in DbRows \ RawRows /\ c \in Captures
        BY <1>1, <1>2, <1>4, KeysStay, RowsAreCaptures
      <4>2. Late(c, 1)
        BY <1>1, <3>1, <4>1, KeysStay
      <4> QED
        BY <1>3, <2>1, <4>1, <4>2
    <3> QED
      BY <1>4, <3>1 DEF LateBefore
<1>5. CASE at' = "messages"
  <2>1. ASSUME NEW c \in MessageRows \ RawRows, Late(c, 1)
        PROVE  BrowserKey(c) \in Current
    BY <2>1 DEF Current, BrowserMessageKeys
  <2> QED
    BY <1>1, <1>2, <1>3, <1>5, <2>1, KeysStay DEF LateBefore, MessageRows, BrowserKey
<1>6. CASE at' = "raws"
  <2>1. ASSUME NEW c \in RawRows \ ProcessedRows, Late(c, 2)
        PROVE  <<"raw_not_processed", c>> \in Current
    BY <2>1 DEF Current, RawProcessingKeys
  <2> QED
    BY <1>1, <1>2, <1>3, <1>6, <2>1, KeysStay, RowsAreCaptures DEF LateBefore
<1>7. CASE at' = "parsed"
  <2>1. ASSUME NEW c \in ParsedRows \ RoutedRows, Late(c, 3)
        PROVE  RoutingKey(c) \in Current
    BY <2>1 DEF Current, RoutingKeys
  <2> QED
    BY <1>1, <1>2, <1>3, <1>7, <2>1, KeysStay DEF LateBefore, ParsedRows
<1> QED
  BY <1>2, <1>4, <1>5, <1>6, <1>7

LEMMA OthersLate ==
  ASSUME Watched, TypeOK, TrailInv, LateBefore, Fault \/ Repair \/ Pipeline
  PROVE  LateBefore'
<1>1. UNCHANGED <<at, read>> /\ read \subseteq Captures
  BY DEF Fault, Repair, Pipeline, monitorVars, TypeOK
<1>2. CASE ~Reading
  BY <1>1, <1>2 DEF LateBefore, Reading
<1>3. CASE Reading
  <2>1. before' = before
    <3>1. Reading'
      BY <1>1, <1>3 DEF Reading
    <3> QED
      BY <1>3, <3>1, WatchedSays
  <2>2. \A c \in Captures : Younger(c)
    <3>1. CASE Fault \/ Repair
      BY <3>1 DEF Fault, Repair, trailVars, Younger, Late, Stamps, RawRows, ProcessedRows,
                  RoutedRows, OrderRows, MessageRows, ParsedRows
    <3>2. CASE Pipeline
      BY <1>3, <3>2, PipelineTrail
    <3> QED
      BY <3>1, <3>2
  <2>3. /\ RawRows' \subseteq Captures /\ MessageRows' \subseteq Captures
        /\ ParsedRows' \subseteq Captures
    BY DEF RawRows, MessageRows, ParsedRows
  <2>4. \A c \in Captures : c \in ParsedRows' /\ Late(c, 3)' => RoutingKey(c)' = RoutingKey(c)
    BY <2>2 DEF Younger, RoutingKey
  <2>5. CASE at = "their raws"
    <3>1. ASSUME NEW c \in read' \ RawRows', Late(c, 1)'
          PROVE  <<"notification_db_row_not_raw", c>> \in before'
      <4>1. c \in read /\ c \in Captures /\ c \notin RawRows
        BY <1>1, <2>2 DEF Younger
      <4>2. Late(c, 1)
        BY <2>2, <3>1, <4>1 DEF Younger
      <4> QED
        BY <2>1, <2>5, <4>1, <4>2 DEF LateBefore
    <3> QED
      BY <1>1, <2>5, <3>1 DEF LateBefore
  <2>6. CASE at = "messages"
    BY <1>1, <2>1, <2>2, <2>3, <2>6 DEF LateBefore, Younger, BrowserKey
  <2>7. CASE at = "raws"
    BY <1>1, <2>1, <2>2, <2>3, <2>7 DEF LateBefore, Younger
  <2>8. CASE at = "parsed"
    BY <1>1, <2>1, <2>2, <2>3, <2>4, <2>8 DEF LateBefore, Younger
  <2>9. CASE at = "audit"
    BY <1>1, <2>9 DEF LateBefore
  <2> QED
    BY <1>3, <2>5, <2>6, <2>7, <2>8, <2>9 DEF Reading
<1> QED
  BY <1>2, <1>3

LEMMA LateStep ==
  ASSUME TypeOK, TrailInv, LateBefore, Next
  PROVE  LateBefore'
<1>0. Watched
  BY DEF Next
<1>1. CASE ProbeNotifications \/ LoadRawKeys \/ LoadProcessed \/ LoadArtifacts
  BY <1>0, <1>1, LoadLate
<1>2. CASE \/ Begin \/ CheckNotifications \/ CheckBrowser \/ CheckRawProcessing \/ CheckRouting
           \/ LoadOrders \/ CheckReports \/ SendAlert \/ SaveState \/ Crash
  <2>1. at' \notin {"their raws", "messages", "raws", "parsed"}
    BY <1>2 DEF Begin, CheckNotifications, CheckBrowser, CheckRawProcessing, CheckRouting,
                LoadOrders, CheckReports, SendAlert, SaveState, Crash, Check, Load, Step
  <2> QED
    BY <2>1 DEF LateBefore
<1>3. CASE Fault \/ Repair \/ Pipeline
  BY <1>0, <1>3, OthersLate
<1> QED
  BY <1>1, <1>2, <1>3 DEF Next, Run, Checking

\* What a step adds to what the run has found.
LEMMA FoundLate ==
  ASSUME TypeOK, LateBefore, Next, NEW k \in found' \ found
  PROVE  \/ k \in before
         \/ k[1] \in ServiceCodes \cup {"approval_card_send_failed", "auto_buy_missing_order_audit"}
<1>1. CASE Begin
  <2>1. k \in LiveWatcherKeys
    BY <1>1 DEF Begin
  <2> QED
    BY <2>1, WatcherKeysAre DEF WatcherCodes, ServiceCodes
<1>2. CASE CheckNotifications
  <2>1. at = "their raws" /\ k \in NotificationKeys(read)
    BY <1>2 DEF CheckNotifications, Check, Step
  <2> QED
    BY <2>1 DEF NotificationKeys, LateBefore
<1>3. CASE CheckBrowser
  <2>1. at = "messages" /\ k \in BrowserHealthKeys \cup BrowserMessageKeys(read)
    BY <1>3 DEF CheckBrowser, Check, Step
  <2>2. CASE k \in BrowserHealthKeys
    BY <2>2, BrowserHealthKeysAre
  <2>3. CASE k \in BrowserMessageKeys(read)
    BY <2>1, <2>3 DEF BrowserMessageKeys, LateBefore
  <2> QED
    BY <2>1, <2>2, <2>3
<1>4. CASE CheckRawProcessing
  <2>1. at = "raws" /\ k \in RawProcessingKeys(read)
    BY <1>4 DEF CheckRawProcessing, Check, Step
  <2> QED
    BY <2>1 DEF RawProcessingKeys, LateBefore
<1>5. CASE CheckRouting
  <2>1. at = "parsed" /\ k \in RoutingKeys(read)
    BY <1>5 DEF CheckRouting, Check, Step
  <2> QED
    BY <2>1 DEF RoutingKeys, LateBefore
<1>6. CASE CheckReports
  <2>1. k \in DeliveryKeys \cup AuditKeys(read)
    BY <1>6 DEF CheckReports, Check, Step
  <2> QED
    BY <2>1, DeliveryKeysAre, AuditKeysAre DEF ReportCodes
<1>7. CASE \/ ProbeNotifications \/ LoadRawKeys \/ LoadProcessed \/ LoadArtifacts \/ LoadOrders
           \/ SendAlert \/ SaveState \/ Crash \/ Fault \/ Repair \/ Pipeline
  BY <1>7 DEF ProbeNotifications, LoadRawKeys, LoadProcessed, LoadArtifacts, LoadOrders, Load,
              Step, SendAlert, SaveState, Crash, Fault, Repair, Pipeline, monitorVars
<1> QED
  BY <1>1, <1>2, <1>3, <1>4, <1>5, <1>6, <1>7 DEF Next, Run, Checking

\* A check names no capture that was not late when it loaded its first file, though the
\* pipeline goes on between its two readings: a row that came meanwhile is too young.
THEOREM FoundIsLate == Spec => FoundWasLate
<1> DEFINE I == TypeOK /\ TrailInv /\ LateBefore
<1>1. Init => I
  BY InitTypes DEF Init, LateBefore
<1>2. I /\ [Next]_vars => I'
  <2>1. CASE Next
    BY <2>1, StepTypes, LateStep
  <2>2. CASE UNCHANGED vars
    <3>1. UNCHANGED <<trailVars, services, at, read, before>>
      BY <2>2 DEF vars, monitorVars
    <3>2. ASSUME I PROVE LateBefore'
      BY <3>1, <3>2 DEF LateBefore, MessageRows, RawRows, ParsedRows, BrowserKey, RoutingKey,
                        Late, Stamps, trailVars
    <3> QED
      BY <2>2, <3>2, StutterTypes
  <2> QED
    BY <2>1, <2>2
<1>3. I /\ [Next]_vars =>
        [\A k \in found' \ found :
           \/ k \in before
           \/ k[1] \in ServiceCodes
                \cup {"approval_card_send_failed", "auto_buy_missing_order_audit"}]_vars
  BY FoundLate
<1> QED
  BY <1>1, <1>2, <1>3, PTL DEF Spec, FoundWasLate

=============================================================================
