----------------------------- MODULE DayReports -----------------------------
(***************************************************************************)
(* The reports at the end of the day: the daily P/L, which the live        *)
(* pipeline sends from 16:10 on (option_validation.py, steve_trade_bot.py),*)
(* trying again until its ledger has a row that says it was sent, or that  *)
(* there is no chat to send it to, and the                                 *)
(* nightly review (nightly_review.py), a process of its own that launchd   *)
(* starts after the close and the owner may start again: it files its      *)
(* report, sends it, and then compacts the ledgers.  What the reports say  *)
(* of prices is the matter of QuoteTracking, compaction that of LedgerFile.*)
(* The configuration of the bot is read at every message and may be missing*)
(* or name no chat.                                                        *)
(*                                                                         *)
(* One trading day.  Sending to all chats is one step.                     *)
(***************************************************************************)
EXTENDS Naturals, FiniteSets

CONSTANTS
  Owners, Groups,  \* Telegram chats: the owner's, the executive groups
  MaxReviews,      \* bound: starts of the nightly review
  MaxRefusals,     \* bound: reports refused to some chat, or sent without a configuration
  MaxSlips         \* bound: senders killed, and appends that raise

Reports == {"pl", "nightly"}
Chats == Owners \cup Groups
Delivered == {"sent", "partial_sent"}
Statuses == Delivered \cup {"send_failed", "telegram_disabled"}

ASSUME ReportsAssumption ==
  /\ IsFiniteSet(Chats)
  /\ MaxReviews \in Nat /\ MaxRefusals \in Nat /\ MaxSlips \in Nat

VARIABLES
  day,       \* "early", "due" from 16:10 on, "over" at midnight
  step,      \* of each sender: "idle", "read", or "sent" with the row to write
  outcome,   \* delivery status of the message just sent
  filed,     \* statuses in daily_pl_reports.jsonl and nightly_telegram_reports.jsonl
  got,       \* how often a chat has got a report
  unfiled,   \* messages that got through whose row was not written, or says otherwise
  reviews, refusals, slips

reportVars == <<day, step, outcome, filed, got, unfiled, reviews, refusals, slips>>

-----------------------------------------------------------------------------

\* The group gets no daily P/L.
Audience(r) == IF r = "pl" THEN Owners ELSE Chats

\* send_message_to_chat_ids, delivery_status_from_messages.
DeliveryStatus(reached, audience) ==
  IF audience = {} THEN "telegram_disabled"
  ELSE IF reached = audience THEN "sent"
  ELSE IF reached # {} THEN "partial_sent" ELSE "send_failed"

\* (slip: a message that reached some is tried again)
SlipSettledWhole(r) == "sent" \in filed[r]

\* daily_pl_summary_exists is content with a row that says there was no chat,
\* nightly_telegram_already_sent is not.
Settling(r) == IF r = "pl" THEN Delivered \cup {"telegram_disabled"} ELSE Delivered

Settled(r) == filed[r] \cap Settling(r) # {}

\* send_daily_pl_summary_once: not before it is due, and once.
PlWanted == step["pl"] = "idle" /\ day = "due" /\ ~Settled("pl")

StartPl ==
  /\ PlWanted
  /\ step' = [step EXCEPT !["pl"] = "read"]
  /\ UNCHANGED <<day, outcome, filed, got, unfiled, reviews, refusals, slips>>

\* review_day and write_report, at every start; the message once a day.
StartNightly ==
  /\ step["nightly"] = "idle" /\ day # "early"
  /\ reviews < MaxReviews
  /\ reviews' = reviews + 1
  /\ step' = [step EXCEPT !["nightly"] = IF Settled("nightly") THEN "idle" ELSE "read"]
  /\ UNCHANGED <<day, outcome, filed, got, unfiled, refusals, slips>>

\* One message for each chat, none where there is no configuration; what a chat refuses
\* is not tried again here.
Send(r) ==
  /\ step[r] = "read"
  /\ \E audience \in {Audience(r), {}}, reached \in SUBSET Audience(r) :
       /\ reached \subseteq audience
       /\ reached # Audience(r) => refusals < MaxRefusals
       /\ refusals' = IF reached = Audience(r) THEN refusals ELSE refusals + 1
       /\ outcome' = [outcome EXCEPT ![r] = DeliveryStatus(reached, audience)]
       /\ got' = [got EXCEPT ![r] = [c \in Chats |-> IF c \in reached THEN @[c] + 1 ELSE @[c]]]
  /\ step' = [step EXCEPT ![r] = "sent"]
  /\ UNCHANGED <<day, filed, unfiled, reviews, slips>>

File(r) ==
  /\ step[r] = "sent"
  /\ filed' = [filed EXCEPT ![r] = @ \cup {outcome[r]}]
  /\ step' = [step EXCEPT ![r] = "idle"]
  /\ outcome' = [outcome EXCEPT ![r] = "none"]
  /\ UNCHANGED <<day, got, unfiled, reviews, refusals, slips>>

\* The sender ends with a message sent and no row that says so.
Unfiled(r) ==
  /\ slips < MaxSlips
  /\ slips' = slips + 1
  /\ unfiled' = IF outcome[r] \in Delivered THEN [unfiled EXCEPT ![r] = @ + 1] ELSE unfiled
  /\ step' = [step EXCEPT ![r] = "idle"]
  /\ outcome' = [outcome EXCEPT ![r] = "none"]

\* The append raises: send_daily_pl_summary_once then files the report as failed, the
\* nightly review ends.
FileFails(r) ==
  /\ step[r] = "sent"
  /\ Unfiled(r)
  /\ filed' = IF r = "pl" THEN [filed EXCEPT !["pl"] = @ \cup {"send_failed"}] ELSE filed
  /\ UNCHANGED <<day, got, reviews, refusals>>

KillSender(r) ==
  /\ step[r] # "idle"
  /\ Unfiled(r)
  /\ UNCHANGED <<day, filed, got, reviews, refusals>>

DayGoesOn ==
  /\ day # "over"
  /\ day' = IF day = "early" THEN "due" ELSE "over"
  /\ UNCHANGED <<step, outcome, filed, got, unfiled, reviews, refusals, slips>>

ReportInit ==
  /\ day = "early"
  /\ step = [r \in Reports |-> "idle"]
  /\ outcome = [r \in Reports |-> "none"]
  /\ filed = [r \in Reports |-> {}]
  /\ got = [r \in Reports |-> [c \in Chats |-> 0]]
  /\ unfiled = [r \in Reports |-> 0]
  /\ reviews = 0 /\ refusals = 0 /\ slips = 0

Deliver(r) == Send(r) \/ File(r) \/ FileFails(r)

-----------------------------------------------------------------------------

ReportTypeOK ==
  /\ day \in {"early", "due", "over"}
  /\ step \in [Reports -> {"idle", "read", "sent"}]
  /\ outcome \in [Reports -> Statuses \cup {"none"}]
  /\ filed \in [Reports -> SUBSET Statuses]
  /\ got \in [Reports -> [Chats -> Nat]]
  /\ unfiled \in [Reports -> 0..MaxSlips]
  /\ reviews \in 0..MaxReviews /\ refusals \in 0..MaxRefusals /\ slips \in 0..MaxSlips

Told(r) == \E c \in Audience(r) : got[r][c] > 0

\* No chat gets a report of the day a second time, however often its sender tries, is
\* started by hand, is refused or is killed, but for messages whose row was not written.
ToldOnce ==
  \A r \in Reports, c \in Chats : got[r][c] <= 1 + unfiled[r]

\* A report counts as told only if it reached somebody: refused by all chats it stays to
\* be tried again, also after another try has failed.  The P/L counts besides where its
\* row says that there was no chat to send it to; the nightly review does not.
SettledWasTold ==
  /\ Settled("nightly") => Told("nightly")
  /\ Settled("pl") => Told("pl") \/ "telegram_disabled" \in filed["pl"]

\* A report of the day is told, and not again.
ReportsAreTold == ToldOnce /\ SettledWasTold

\* The owner gets a report that counts as told (no: one of several chats is enough).
OwnerIsTold ==
  \A r \in Reports : Settled(r) => \A c \in Owners : got[r][c] > 0

=============================================================================
