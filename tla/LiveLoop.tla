------------------------------ MODULE LiveLoop ------------------------------
(***************************************************************************)
(* The live pipeline (scripts/run_live_pipeline.py): one process that goes *)
(* through its tasks in turn, for ever: it captures and routes, reads the  *)
(* owner's replies (module ApprovalBot), tracks quotes and applies the     *)
(* exit rules, watches the broker, and reports the daily P/L (DayReports). *)
(* An exception of the last four is caught and the pass goes on; one of    *)
(* the first, or of the heartbeat at the end, ends the process, which      *)
(* launchd starts again.  Capture and routing read ledgers that the browser*)
(* watcher writes too, and a line that does not parse ends them each time. *)
(***************************************************************************)
EXTENDS ApprovalBot, DayReports

CONSTANT MaxFaults  \* bound: kills between two tasks, exceptions that end the process, torn lines

ASSUME LoopAssumption == MaxFaults \in Nat

\* raw_notifications, processed_notifications and trade_decisions are read in every pass
\* outside any try; the last two one after the other, "processed" stands for both.
Routed == {"raw", "processed"}

\* Those, and daily_pl_reports, which a torn line keeps the P/L from.
Ledgers == Routed \cup {"daily_pl"}

VARIABLES
  turn,   \* the task under way, or "down"
  torn,   \* ledgers with a line that does not parse
  faults

loopVars == <<turn, torn, faults>>
botVars == <<sentCards, sent, offsetVars, ledgerVars, buyVars, pc, queue, update, card, crashes>>
allVars == <<botVars, reportVars, loopVars>>

Turns == {"down", "capture", "replies", "track", "broker", "report", "heartbeat"}

-----------------------------------------------------------------------------

\* launchd starts it; it reads the raw notifications first of all.
Start ==
  /\ turn = "down"
  /\ "raw" \notin torn
  /\ turn' = "capture"
  /\ UNCHANGED <<botVars, reportVars, torn, faults>>

\* poll_once and process_raw_notifications (modules EntryRouting and RiskGuard).
CaptureAndRoute ==
  /\ turn = "capture"
  /\ turn' = IF torn \cap Routed # {} THEN "down" ELSE "replies"
  /\ UNCHANGED <<botVars, reportVars, torn, faults>>

\* A step of the poll.
ReadReplies ==
  /\ turn = "replies"
  /\ Poll \/ TakeUpdate \/ Process
  /\ UNCHANGED <<reportVars, loopVars>>

\* (slip: the poll is repeated until a message comes)
SlipEndReplies ==
  /\ turn = "replies"
  /\ SaveOffset \/ PollFails
  /\ turn' = IF update = 0 THEN "replies" ELSE "track"
  /\ UNCHANGED <<reportVars, torn, faults>>

\* The poll ends, in one way or the other.
EndReplies ==
  /\ turn = "replies"
  /\ SaveOffset \/ PollFails
  /\ turn' = "track"
  /\ UNCHANGED <<reportVars, torn, faults>>

\* Telegram does not answer.
NoReplies ==
  /\ turn = "replies" /\ pc = "idle"
  /\ turn' = "track"
  /\ UNCHANGED <<botVars, reportVars, torn, faults>>

\* (slip: an exception ends the process)
SlipTrackAndWatch ==
  /\ turn \in {"track", "broker"}
  /\ turn' \in {IF turn = "track" THEN "broker" ELSE "report", "down"}
  /\ UNCHANGED <<botVars, reportVars, torn, faults>>

\* QuoteTracking, PaperExits and BrokerOrders: done, failed, or not yet due again.
TrackAndWatch ==
  /\ turn \in {"track", "broker"}
  /\ turn' = IF turn = "track" THEN "broker" ELSE "report"
  /\ UNCHANGED <<botVars, reportVars, torn, faults>>

\* Where its ledger does not parse, the report raises before it is made.
BeginPl ==
  /\ turn = "report"
  /\ "daily_pl" \notin torn
  /\ StartPl
  /\ UNCHANGED <<botVars, loopVars>>

DeliverPl ==
  /\ turn = "report"
  /\ Deliver("pl")
  /\ UNCHANGED <<botVars, loopVars>>

\* Nothing to report, or not for five minutes.
EndReport ==
  /\ turn = "report" /\ step["pl"] = "idle"
  /\ turn' = "heartbeat"
  /\ UNCHANGED <<botVars, reportVars, torn, faults>>

\* write_heartbeat may raise, on a line of its history that does not parse each time;
\* a request to stop is looked at next.
Heartbeat ==
  /\ turn = "heartbeat"
  /\ turn' \in {"capture", "down"}
  /\ UNCHANGED <<botVars, reportVars, torn, faults>>

\* A kill outside replies and report, or an exception of capture and routing: either may
\* leave a line without its end.
KillBetween ==
  /\ pc = "idle" /\ step["pl"] = "idle"
  /\ faults < MaxFaults
  /\ faults' = faults + 1
  /\ \/ UNCHANGED torn
     \/ turn = "capture" /\ \E f \in Routed : torn' = torn \cup {f}
  /\ UNCHANGED <<botVars, reportVars>>

KillReport ==
  /\ KillSender("pl")
  /\ \/ UNCHANGED torn
     \/ step["pl"] = "sent" /\ torn' = torn \cup {"daily_pl"}
  /\ UNCHANGED <<botVars, faults>>

KillLoop ==
  /\ turn # "down"
  /\ turn' = "down"
  /\ \/ Crash /\ UNCHANGED <<reportVars, torn, faults>>
     \/ KillReport
     \/ KillBetween

\* The browser watcher is killed in the middle of a line.
TearLine ==
  /\ faults < MaxFaults
  /\ faults' = faults + 1
  /\ \E f \in Routed : torn' = torn \cup {f}
  /\ UNCHANGED <<botVars, reportVars, turn>>

\* Somebody mends the file, or the compaction after the nightly review leaves the line out.
MendLine ==
  /\ \E f \in torn : torn' = torn \ {f}
  /\ UNCHANGED <<botVars, reportVars, turn, faults>>

Outside ==
  \/ (SendCard \/ SendMessage) /\ UNCHANGED <<reportVars, loopVars>>
  \/ DayGoesOn /\ UNCHANGED <<botVars, loopVars>>
  \/ TearLine \/ MendLine

Nightly ==
  /\ StartNightly \/ Deliver("nightly") \/ KillSender("nightly")
  /\ UNCHANGED <<botVars, loopVars>>

LoopInit ==
  /\ Init
  /\ ReportInit
  /\ turn = "down" /\ torn = {} /\ faults = 0

Pass ==
  \/ Start \/ CaptureAndRoute
  \/ ReadReplies \/ EndReplies \/ NoReplies
  \/ TrackAndWatch
  \/ BeginPl \/ DeliverPl \/ EndReport \/ Heartbeat

LoopNext == Pass \/ KillLoop \/ Outside \/ Nightly

\* The process goes on, Telegram answers a poll and five minutes pass again and again.
\* Nobody has to write or to kill.
LoopSpec ==
  /\ LoopInit /\ [][LoopNext]_allVars
  /\ WF_allVars(Pass)
  /\ SF_allVars(ReadReplies)
  /\ SF_allVars(BeginPl)

-----------------------------------------------------------------------------

\* The variables have the values declared above, and only the task whose turn it is has
\* anything under way.
LoopTypeOK ==
  /\ TypeOK
  /\ ReportTypeOK
  /\ turn \in Turns /\ torn \subseteq Ledgers /\ faults \in 0..MaxFaults
  /\ pc # "idle" => turn = "replies"
  /\ step["pl"] # "idle" => turn = "report"

\* Ledgers that are torn are mended in the end.
Mended == <>[](torn = {})

\* Whatever the other tasks do, fail and are killed in, the tracker, and with it stops
\* and targets, gets its turn again and again, unless a ledger stays torn.
StopsAreWatched == Mended => []<>(turn = "track")

\* So is every reply before an unreadable one audited, whatever Telegram refuses of the
\* reports of the same pass.
RepliesAreAudited ==
  \A u \in Updates : ReadableUpTo(u) /\ Mended => ((u <= sent) ~> (u \in audited))

\* What goes wrong in one task of the loop keeps no other from its turn.
TasksGetTheirTurn == StopsAreWatched /\ RepliesAreAudited

\* And the P/L of the day is told or filed as having nobody to be told to, however often
\* Telegram refuses it and although an unreadable reply fails every poll, unless the day
\* ends first.
PlIsTold ==
  Mended => ((day = "due") ~> (Told("pl") \/ "telegram_disabled" \in filed["pl"] \/ day = "over"))

=============================================================================
