----------------------------- MODULE AlertTrail -----------------------------
(***************************************************************************)
(* The rows an alert leaves in the ledgers on its way from the source to   *)
(* its paper trade, as the auditors of the pipeline read them              *)
(* (scripts/pipeline_health_monitor.py): the macOS notification database   *)
(* or discord_browser_messages.jsonl, raw_notifications.jsonl,             *)
(* parsed_alerts.jsonl or rejected_alerts.jsonl, the artifacts of routing, *)
(* and processed_notifications.jsonl.                                      *)
(*                                                                         *)
(* Any step may fail to come: the services stop, an exception ends one.    *)
(* Modules PaperExits, EntryRouting and Capture model the steps in detail. *)
(***************************************************************************)
EXTENDS Naturals, FiniteSets

CONSTANTS
  Captures,   \* one source's view of an alert
  AlertOf     \* the alert a capture shows; two captures may show one

ASSUME CapturesAssumption == DOMAIN AlertOf = Captures

VARIABLES
  exits,      \* captures that parsed as an exit; the other parsed ones are buys
  stage,      \* how far the rows of a capture go
  artifacts,  \* what routing has left under the capture's key
  overdue,    \* how many of its stamps, the oldest first, are past the allowance
  gone        \* how many of them are past what the auditors look back at

trailVars == <<exits, stage, artifacts, overdue, gone>>

StageNames ==
  {"absent", "notified", "shown", "raw", "rejected", "parsed", "routed", "processed"}

\* card: an approval card.  auto: an auto buy report and its order row.  "auto,
\* no order row" when no order could be built.  exit: a row of Steve's exit.
Artifacts ==
  {"nothing", "card", "card, not delivered", "auto", "auto, no order row", "exit"}

Files == [Cards |-> {"card", "card, not delivered"},
          Reports |-> {"auto", "auto, no order row"},
          Exits |-> {"exit"}]

Twins(c) == {d \in Captures : AlertOf[d] = AlertOf[c]}

\* the stamps a capture has by now: of the message, captured_at, parsed_at
Stamps(c) ==
  CASE stage[c] = "absent" -> 0
    [] stage[c] \in {"notified", "shown"} -> 1
    [] stage[c] \in {"raw", "rejected"} -> 2
    [] OTHER -> 3

RawRows == {c \in Captures : stage[c] \notin {"absent", "notified", "shown"}}
ParsedRows == {c \in Captures : stage[c] \in {"parsed", "routed", "processed"}}

MoveTo(c, s) == stage' = [stage EXCEPT ![c] = s]

\* No auditor looks at the first n stamps of c any more: they count as gone.
Spend(c, n) ==
  /\ overdue' = [overdue EXCEPT ![c] = IF @ < n THEN n ELSE @]
  /\ gone' = [gone EXCEPT ![c] = IF @ < n THEN n ELSE @]

-----------------------------------------------------------------------------

\* In the notification database of macOS, or in discord_browser_messages.jsonl.
Post(c) ==
  /\ stage[c] = "absent"
  /\ MoveTo(c, "notified") \/ MoveTo(c, "shown")
  /\ UNCHANGED <<exits, artifacts, overdue, gone>>

AppendRaw(c) ==
  /\ stage[c] \in {"notified", "shown"}
  /\ MoveTo(c, "raw")
  /\ Spend(c, 1)
  /\ UNCHANGED <<exits, artifacts>>

\* A message that does not parse, or was captured too late, gets a row of
\* rejected_alerts.jsonl, then one of processed_notifications.jsonl.
Reject(c) ==
  /\ stage[c] = "raw"
  /\ MoveTo(c, "rejected")
  /\ Spend(c, 2)
  /\ UNCHANGED <<exits, artifacts>>

Parse(c) ==
  /\ stage[c] = "raw"
  /\ MoveTo(c, "parsed")
  /\ exits' \in {exits, exits \cup {c}}
  /\ \A d \in Twins(c) \cap ParsedRows : d \in exits <=> c \in exits'
  /\ UNCHANGED <<artifacts, overdue, gone>>

\* Routing leaves the row of its kind under the capture's key, and none in a file
\* that has a row of the alert's other capture; after an exception there is only a
\* row of option_validation_errors.jsonl.
Route(c) ==
  /\ stage[c] = "parsed"
  /\ \/ UNCHANGED artifacts
     \/ \E file \in IF c \in exits THEN {"Exits"} ELSE {"Cards", "Reports"} :
          /\ \A d \in Twins(c) : artifacts[d] \notin Files[file]
          /\ \E kind \in Files[file] : artifacts' = [artifacts EXCEPT ![c] = kind]
  /\ MoveTo(c, "routed")
  /\ UNCHANGED <<exits, overdue, gone>>

MarkProcessed(c) ==
  /\ stage[c] = "routed"
  /\ MoveTo(c, "processed")
  /\ Spend(c, 2)
  /\ UNCHANGED <<exits, artifacts>>

\* Ninety seconds pass over its stamps.
Age(c) ==
  /\ overdue[c] < Stamps(c)
  /\ overdue' = [overdue EXCEPT ![c] = Stamps(c)]
  /\ UNCHANGED <<exits, stage, artifacts, gone>>

\* Fifteen minutes, twelve hours or a day pass, whatever the auditors look back.
LeaveWindow(c) ==
  /\ gone[c] < Stamps(c)
  /\ overdue[c] = Stamps(c)
  /\ gone' = [gone EXCEPT ![c] = Stamps(c)]
  /\ UNCHANGED <<exits, stage, artifacts, overdue>>

TrailInit ==
  /\ exits = {}
  /\ stage = [c \in Captures |-> "absent"]
  /\ artifacts = [c \in Captures |-> "nothing"]
  /\ overdue = [c \in Captures |-> 0]
  /\ gone = [c \in Captures |-> 0]

Progress(c) ==
  Post(c) \/ AppendRaw(c) \/ Reject(c) \/ Parse(c) \/ Route(c) \/ MarkProcessed(c)

TimePasses(c) == Age(c) \/ LeaveWindow(c)

TrailTypeOK ==
  /\ exits \subseteq Captures
  /\ stage \in [Captures -> StageNames]
  /\ artifacts \in [Captures -> Artifacts]
  /\ overdue \in [Captures -> 0..3]
  /\ gone \in [Captures -> 0..3]

=============================================================================
