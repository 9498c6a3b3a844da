# Verification of the option paper trading pipeline

This directory holds TLA+ models of the program under `src/scripts/`, the TLC
configurations that check them, and proofs checked by TLAPS.

## The system

Two long-running processes share nothing but append-only JSONL files under `data/`.

* The **live pipeline** (`run_live_pipeline.py`) loops: read notifications, process raw
  alerts, poll Telegram for the owner's replies, every 15 s track quotes and apply the exit
  rules, every 30 s check the broker, every 5 min the daily summary. launchd restarts it.
* The **browser watcher** (`discord_browser_channel_watcher.py`) reads Discord channels in
  the browser, appends raw alerts and *also* processes raw alerts.

A health monitor and a nightly review run beside them. The only lock is the `flock` around
order submission (`alpaca_options.order_audit_lock`).

### Inventory

| component | state | operations | what makes it correct | modules |
|---|---|---|---|---|
| exit plan | none (pure) | `exit_plan_for_contracts`, the walk over tranches | sells exactly the position, each rung within it | `ExitPlan` |
| paper exits | `human_paper_exits`, `steve_exits`, snapshots; a copy of the exit rows per walk | stop and target rules, Steve's exits, catch-up, `append_human_exit` | never oversells, lands on targets of the policy, stop and ladder do fire, Steve is followed and not overtaken | `PaperExits`, `ExitLedger` |
| paper orders, broker monitor | `orders_paper`, `broker_order_status_reports`, the lock | submit buy/sell, sync missing exits, report terminal states | one verdict per client order id, one report per terminal state, nothing forgotten | `BrokerOrders`, `OrderVerdict` |
| entry routing | raw, processed, errors, shadow positions, cards, actions, reports, local positions | `process_raw_notifications`, `handle_option_entry`, `auto_paper_buy`, approval | one shadow, one buy, one position per alert whatever the source; nothing disappears; nothing stale is bought | `EntryRouting`, `EntryOnce` |
| approval bot | Telegram offset, cards, actions | `poll_once`, `process_approval_message` | a card is decided once, a reply decides its own card, no reply is lost | `ApprovalBot` |
| quote tracking | tracking state, quote snapshots | `track_open_positions_once` | what is stored stands for every price seen; the newest quote is what the rules see, also after a cycle was cut off | `QuoteTracking` (the rules in `PaperExits`) |
| capture (notifications, browser) | seen keys, message fingerprints | `poll_once`, `process_browser_messages` | every message gets its records, edits included, once | `Capture`; in part: `EntryRouting!Capture` |
| live loop | which task has its turn | `run_live_pipeline.main` | a failing task keeps no other from its turn | `LiveLoop` |
| risk guard, stock decisions | decisions, processed raws, dry-run orders | `decision_for_alert`, `process_raw_notifications` | limits per day and ticker; what is allowed is ordered | `RiskGuard` |
| ledger files | every JSONL file | `append_jsonl`, `read_jsonl`, compaction | compaction loses nothing outside its race and keeps the original | `LedgerFile` |
| daily P/L, nightly message | report rows | send, then file | told once, tried again until told | `DayReports` |
| health monitor | active issue keys | checks over pairs of files, alert on changes, save | every stall found, what is found was late, told once and recovered in the end | `HealthMonitor`, `AlertTrail` |

Hard behaviour, in the order of its weight here: two processes that look, then append;
values read before a network call and used after it; crashes between a broker call and
the row that records it; lost answers; repeated messages; ids that collide or differ; two
files read one after the other while rows move between them; rows thinned or rewritten
while others append; an exception that ends more than its own step.
`PROJECT.json` lists each hazard at its line.

### Not modelled

* `parse_alert.py`: regular expressions over message text; the models are given what a
  message is parsed to.
* The contents of the nightly review, of `premarket_readiness.py`, `ledger_schema_check.py`
  and `log_hygiene.py`: reports over files, without a protocol of their own.
* The cursor of `notification_watcher.py` beyond `EntryRouting!Capture`; browser health
  records; the manual text backfill; the manual bot commands.
* The probes, the visible capture and the installation scripts. A restart by launchd is
  what follows a crash in each module.
* Time as such: a raw is stale or not from the start, eight hours pass in one step, a
  trading day of `QuoteTracking` has a few ticks. So the age at processing is not looked at
  (`run_pipeline_once.py:76` judges the time of capture).
* Runs of the health monitor that overlap (one by hand during a scheduled one): both read,
  alert and write the same state file, and the later write wins. Its message names six new
  issues at most and counts the rest ("+N more", `pipeline_health_monitor.py:413`); what is counted
  is "told" in the model. The approval branch for hedges (332-342) and failed sends of auto
  buy and close reports (358-380) are left out.
* The 160 messages a page holds at most for the browser watcher (line 121): a page of the model
  has all of them.
* An order audit that does not parse when an order is submitted: it raises under the lock and
  leaves a "blocked" row (`alpaca_options.py:517`), which `BrokerOrders` has for other reasons.
* In `RiskGuard`, messages that are stale or cannot be parsed: they are marked processed without
  a decision (`EntryRouting` has both). In `QuoteTracking`, positions of tests and those whose
  option expired on an earlier date: every cycle of the day passes over them.
* Torn ledgers other than the three of `LiveLoop!Ledgers`: those that the bot, the tracker and
  the broker check read fail these tasks, each inside its own `try`, until somebody mends them.

## Plan

1. `ExitPlan`, `ExitLedger`, `PaperExits`: the money. *done, with proofs*
2. `OrderVerdict`, `BrokerOrders`: the order lock, the broker monitor. *done, with proofs*
3. `EntryOnce`, `EntryRouting`: alert to position. *done, with proofs*
4. `ApprovalBot`: the owner's replies. *done, with proofs*
5. `Capture`: the browser watcher's seen keys, edits, marking. *done, with proofs*
6. `LedgerFile`, `RiskGuard`: torn lines and compaction under two processes that decide.
   *done, with proofs*
7. `QuoteTracking`: which quotes are taken and stored. *done, with proofs*
8. `AlertTrail`, `HealthMonitor`: an audit that reads while the pipeline writes. *done, with
   proofs*
9. `DayReports`, `LiveLoop`: the reports of the day, and the loop that composes bot and
   report with the turns of the rest. *done, with proofs*

Every invariant, refinement and step property that a passing run checks is a theorem; what
is left to TLC is liveness. Left: a clock for staleness in `EntryRouting`. Runs are kept few,
one per question.

## Modules and how they correspond to the code

A row of a JSONL ledger is a member of a set, an entry of a sequence or a summed amount,
whichever the properties tell apart; ids that the code builds by hashing are the tuples
that are hashed. One read or one append of a file is one step. What a process keeps
in Python variables between a read and a write is a per-process variable, so the time
between them is real. A crash (`Crash`) can hit anywhere; launchd starts the process
again with empty memory.

* **ExitPlan** – the tranches and `LadderTarget`, the cumulative count the rules aim at.
* **ExitLedger** – the abstract ledger: each exit row brings a position up to a target
  that the policy names.
* **PaperExits** – `ApplyRules` starts `apply_human_exit_rules_once` with a copy of the exit
  rows; `ReceiveSteveExit`, `MatchSteveExit`, `AppendSteveExit` are `handle_option_exit`;
  `SkipExit`/`StartExit`, `SubmitSell`, `RecordExit` are `append_human_exit` before, at and
  after its broker call. Prices are percent moves from the entry. The rules judge the
  snapshot `Observe` stored, which exists for open *shadow* positions only. Reading
  Steve's rows and the exit rows back after `AppendSteveExit` is part of that step. `shared` and
  `cut` remember the positions that two processes had exits of in hand at the same time, and
  those of which a process died amid a sell; they restrict nothing.
* **OrderVerdict** – the abstract audit: one verdict per client order id.
* **BrokerOrders** – `Acquire` to `AppendAudit` are the two submit functions, step by step
  under the lock; `ReturnToExit` appends the exit row with the order id of the audit;
  `StartSync`/`SyncExit` and `StartCheck`/`Fetch*`/`Tell` are the monitor. `GrowsOld` lets
  eight hours pass.
* **EntryOnce** – the abstract routing of an alert.
* **EntryRouting** – one process step per file operation from `process_raw_notifications`
  down to the local position. `Guard` chooses freely: the guard depends on the quote just
  fetched. A buy order is one step here (`BrokerOrders` shows why it may be). Staleness is
  a property of a raw, since the code compares two time stamps of the raw. `shared` remembers
  the alerts that two processes had in hand at the same time.
* **ApprovalBot** – Telegram's queue with the offset the bot saves after a batch. A
  message is who, what and to which card. A torn state file after a crash counts as
  empty, as `load_state` has it.
* **Capture** – `ReadPage` to `SaveState` are one pass of `capture_once` over a channel,
  with `build_raw_records` as operators over the lines of a text (`Records`, `Body`). A
  fingerprint is the text it is made of. `ChannelFails` is the exception that
  `capture_once` catches. Processing what was written is `EntryRouting`; the staleness rule
  there also rejects what `Capture` takes from a late edit. A message may come without a time
  (`timeless`): marking takes it, capturing does not (lines 282-284).
* **LedgerFile** – one ledger as a set of rows and the state of its last line. `AppendRow`
  after a torn line becomes part of that line, as a file opened for appending has it.
  `SweepRead`, `SweepArchive`, `SweepReplace` are the three accesses of the compaction;
  `racing` and `late` remember what was appended between them.
* **RiskGuard** (extends `LedgerFile`) – `StartBatch` reads processed keys and decisions once,
  `Decide` appends one decision, `Audit` is `alpaca_dry_run_audit` with the order or the blocked row
  of an `AdapterError`, `EndRaw` counts the decisions of the message and marks it. `Fail` is an
  exception anywhere in a message: it is marked as an error, and what was decided for it is not
  counted (`run_pipeline_once.py:196` is passed over). A process outside `DryRuns` writes no orders.
  `Reason` is `decision_for_alert`; the checks that look at no other decision are one given
  verdict. `cut` and `forgotten` are bookkeeping of the properties.
* **QuoteTracking** – a cycle is `StartCycle`, then per position `Skip`, `QuoteAgain` or
  `Quote` with its row, then `Save` (the state file, replaced at once) and `ApplyRules`. `News`
  is `tracking_decision_for_snapshot`, `Note` is `update_tracking_state_for_snapshot`. `Cut` is a
  kill or an exception that the loop catches. Prices are numbers, so percentages are exact.
* **AlertTrail** – how far the rows of a capture have come in the ledgers, which artifacts
  routing has left, and how many of its time stamps are past the allowance of 90 s or out of
  the auditors' window. Any step may fail to come.
* **HealthMonitor** – each check is two steps, one per file it loads; captures move on in
  between. `Watched` is bookkeeping for two properties and restricts nothing. A message that
  Telegram refuses, a run with `--no-telegram` and a run killed between the alert and
  `save_state` are the ways a change goes `astray`.
* **DayReports** – the daily P/L and the nightly message, each `Send` then `File`; a sender is
  killed or its append raises in between. `Send` may find no configuration, and there may be no
  chats: the row then says "telegram_disabled", which settles the P/L
  (`option_validation.py:1437`) but not the nightly message (`nightly_review.py:2179`): `Settling`.
* **LiveLoop** (extends `ApprovalBot` and `DayReports`) – the turns of `main`'s loop. The bot
  and the P/L run step by step inside their turns; tracking, exit rules and broker check are
  one step each here, for what they do is in their own modules, and here it only matters
  that they return or raise. What ends the process instead is a ledger of `Routed` that does
  not parse (`CaptureAndRoute`, `Start`), an exception of the heartbeat (`Heartbeat`), which may
  come in every pass, and a kill anywhere (`KillLoop`); a kill, or one of the browser watcher,
  may tear a ledger. "processed" stands for processed keys and decisions, which are read one
  after the other with the same effect. `MendLine` is somebody's doing. A nightly review and
  the browser watcher run beside the loop.
* **MC...** – the instances. `(slip: ...)` marks a definition that differs from the one
  after it by a plausible mistake; `PROJECT.json` "mutants" names the property that
  catches it. These are not part of any specification.

## Runs

| run | shows |
|---|---|
| `exits_twins` | two processes, two positions in one contract, an alert of Steve, rungs and a crash: what no two processes handle at once is never oversold, lands on targets only and does not overtake Steve |
| `exits_live` | one position, stop, rungs, two alerts of Steve, one crash: stop and ladder fire; without a crash the catch-up happens |
| `orders_race` | two processes, lost answers, a crash, ageing: one verdict per id, one report |
| `orders_live` | ends are reported, missing exits sent, unless too old |
| `entry_faults` | two crashes, a lost answer, a late capture: all processed, nothing disappears, nothing stale is bought, one shadow and one position, one buy without a fault |
| `entry_double_buy` | **fails**: two processes buy one alert twice |
| `bot_crashes` | decided once, every reply before an unreadable one answered, across two crashes |
| `health_stalls` | a capture on its way and a failing service, runs that are killed, silent or refused: every stall found, what is found was late, known is told, and told what is true in the end |
| `risk_day` | two processes, four alerts, two of them in one message, a limit of two, an exception or a crash, a torn line, a compaction: limits per process, allowed is ordered or refused on file, compaction loses its race only |
| `tracking_quotes` | a day of one option, failing quotes, two cut cycles, compaction: every price near a row, milestones and extremes kept, the rules see the newest quote |
| `loop_day` | bot, P/L and nightly review around the loop's turns, a refusal or a missing configuration, a torn ledger, a failing heartbeat, a crash, a kill: stops are watched, replies audited, P/L told or filed as untellable, nothing told twice |
| `capture_edits` | two messages with or without a time, edits, a crash or exception, marking or not: no record twice, the state never ahead of the records, late edits captured |

Where several invariants answer one question, the run checks their conjunction:
`AuditIsConsistent`, `RecordsAreSound`, `HandledByAge`, `LimitsPerProcess`, `RowsSurvive`,
`RowsFollowThePrice`, `StateFollowsThePrice`, `ReportsAreTold`, `TasksGetTheirTurn`. Its
conjuncts, defined beside it, are named and, where there is a proof module, proved one by
one. The type invariant of every state machine is proved; TLC checks it too for `HealthMonitor`
and `QuoteTracking`.

The failing run is a disagreement between the code and its own documentation; the finding
in `PROJECT.json` quotes both. The models show more of the kind, which have no run of
their own: change the named configuration to see them. (A property whose comment ends in
"no: ..." is one of these.)

* `exits_twins` without `\ shared` in `NoOversell`, or without `pos \notin shared` in
  `SteveNeverOvertakes`: the stop that the live pipeline records while the browser watcher walks
  the same position is not seen, and the catch-up closes contracts beyond Steve's amount.
  `option_validation.py:1043` reads the exit rows once and line 971 bounds the quantity by that
  copy; `docs/ARCHITECTURE.md:141`: "only records a local paper exit when Steve's cumulative
  closed amount is greater than the local paper amount already closed".
* `exits_twins` without `cut` in `BrokerNotOversold`: a process dies after the broker took a sell
  and before its row, another trigger sells the same contracts again under another order id.
* `exits_live` with `SteveIsFollowed`: his exit row is appended (`option_validation.py:621`)
  before the local positions catch up; after a crash in between, the retry finds the row and
  returns (line 578). `README.md:290`: "if Steve moves ahead of the local exits, the ledger
  closes only enough contracts to catch up".
* `entry_faults` with `PositionIsTracked`: snapshots carry the source key of the shadow, and
  `option_validation.py:1083` asks for the position's own, which is another capture's when
  card and auto buy came from different captures: neither stop nor targets fire.
  `steve_trade_bot.py:1289`: "Default hard stop applies to all open contracts".
* `bot_crashes` with `EveryReplyIsAudited`: a stop that is no number raises at
  `steve_trade_bot.py:1142` before line 1505 saves the offset, so the batch is fetched and
  fails for ever. `docs/LEDGER_SCHEMAS.md:17`: "owner replies are audited in
  `steve_approval_actions.jsonl`".
* `risk_day` with `NothingIsLost`: a row appended after `archive_original` and before
  `write_jsonl` (`data_hygiene.py:476`) is in neither file. `README.md:307`: compaction keeps
  the ledgers small "without losing recoverable raw history".
* `health_stalls` with two captures of one alert and `MissingBuyIsMissing`: the artifacts of
  the alert are under one key only (`pipeline_health_monitor.py:343`), so the other capture is
  reported as a missing buy. `docs/OPERATIONS.md` on `non_hedge_missing_auto_buy`: "parsed
  non-hedge alert did not create auto paper-buy artifacts".
* `tracking_quotes` with `NoQuoteBeforePurchase`: a local position bought between two cycles
  is sold by the rules on the quote taken before it existed.
* `tracking_quotes` with `MoveGetsARow`, prices 60, 100 and 106, nothing that sells, one cut,
  six ticks of open market and a checkpoint after four: `README.md:307` appends a row on a
  "5%+ price move by default". Moves are measured from `last_appended_price`, which is none
  after a row of a quote without a price (`option_validation.py:821`). A cycle that ends after
  the next row (line 1555) and before `write_tracking_state` leaves it so, for the next cycle
  takes the same quote for a duplicate (line 1542): a later price inside the extremes and
  5 % away from every row gets none until the checkpoint. This came out of a proof: the
  invariant without the exception that `EveryPriceNearARow` makes was not inductive, and the
  state it failed in turned out to be reachable. Without a cut it holds, whatever fails.
* `loop_day` with `OwnerIsTold` (and two owners): "partial_sent" settles a report
  (`nightly_review.py:2179`), so a chat that refused it never gets it.
* `loop_day` without `\/ "telegram_disabled"` in `SettledWasTold` or `PlIsTold`: a P/L that finds no
  configuration of the bot is settled for the day (`option_validation.py:1437`) and is not sent
  when the configuration is back; the nightly message would be.
* `loop_day` without `Mended` in its properties: `run_live_pipeline.py:55` and `:70` and
  `run_pipeline_once.py:106` and `:107` read raw notifications, processed keys and decisions outside
  any `try`; a line torn by a killed process ends the live pipeline in each pass, and no stop
  or target is watched until somebody mends the file. The compaction would leave the line out,
  but the nightly review reads the ledger before it compacts, and raises.
* `risk_day` without `forgotten` in `Uncounted`: an exception after a decision of a message
  (`run_pipeline_once.py:185`) passes over line 196, the process goes on with its next message as
  if it had not allowed anything, and allows one trade more than `max_trades_per_day`.
* `exits_live` with a first target of 120 %: it shares its exit id with the second rung,
  which is then never sold (`LadderSells`).
* `exits_live` with alerts that sell all of the shadow and a crash in the catch-up, or with
  a position larger than the shadow: no quote is taken any more and neither stop nor
  ladder fires (`StopCloses`, `LadderSells`).
* `entry_faults` without the "unless" of two properties: a crash leaves a bought order
  without a local position, and after a lost answer the approval of the other capture's
  card buys again (`OneBuyPerEntry`).
* `entry_faults` with two workers and without `shared` in `EntryOnce`: two shadows of one alert that
  both have in hand (`OnceSpec`).
* `capture_edits` with `EveryWordingIsCaptured`: "do not miss late edits to seen messages"
  (`discord_browser_channel_watcher.py:329`) does not hold for a message in a group, whose
  text lacks the author: line 343 passes over the unchanged header before line 349 looks at it.
* `capture_edits` with `SeenIsCaptured` for marked texts too: after a crash between two
  records of a message the start script marks it, and the second record is never written.
* Two sentences of the documentation do not describe the code: a duplicate that is
  skipped leaves no row in `orders_paper.jsonl` (`LEDGER_SCHEMAS.md:190` says it does;
  `BrokerOrders!SkipDuplicate`), and the local position is written after a submitted order
  only, not first (`README.md:288`; `EntryRouting!SubmitBuy`, `WritePosition`).

### Bounds

Two contracts give two rungs of one contract each (the arithmetic of more is proved in
`PaperExits_proofs`); two alerts of Steve give a partial and a further exit, and a third
contract of his keeps his position open; marks are the stop, none, and a value for each
number of rungs reached. `exits_twins` leaves the stop out, `exits_live` has it. Two processes
are what the installation has: `exits_twins` has both, one of which applies the rules, and two
positions, so that one may be handled by each, or both by each; `exits_live` and `entry_faults` have
one, and so more faults and alerts. `entry_faults` with two processes, two captures and one crash
(12.6 million states) takes longer than a run should and agrees; the theorems are about any number. Two captures are what the sources produce, the third
(late) one covers staleness. One or two crashes suffice for every crash hazard listed, each of which
needs one, and a second one while recovering. `MaxLosses` bounds orders the broker takes
without the process hearing of it. `capture_edits` has a header and a message in its group, each with two wordings of up to
two records, two edits (there and back) and one crash or exception: a second one finds the
same files and an empty memory.
`health_stalls` has one capture, which goes all ways through the ledgers, and one trouble;
a heartbeat that goes missing stands for every service, since they have keys of the same
form. `risk_day` has two alerts on one ticker, of both sides, two alerts in one message, one that
belongs to a test and cannot be ordered, and one more than the limit; an exception, or a crash,
which may tear a line, and a compaction around it. One process makes dry runs, one does not.
`tracking_quotes` has prices on both sides of a move of 5 %, of a target and of a milestone,
including 106, from which 103 is no move but from 100 it is one away; a tick is a tracking
interval, three of them the checkpoint of 30 minutes. `loop_day` has one card, one reply
before an unreadable one, one owner and one group, two reviews, and one of each fault; a message
that is refused by some or all chats, and one without a configuration, are the same fault.
Nothing is symmetric enough to need symmetry sets.

### Fairness

Weak fairness of a process's steps: both processes loop for ever and are restarted.
Strong fairness where a step is disabled again and again by the loop itself: taking the
lock, beginning a batch or a tracking cycle, observing a quote. The monitor's strong
fairness assumes that the environment loads and statuses can be fetched if tried for ever.
The browser watcher is fair as long as it is up, and started again by launchd or its owner.
No fairness for the market, Steve, the owner, the broker, crashes.
`LoopSpec`: weak fairness of a pass (the loop never sleeps for ever, launchd starts it
again); strong fairness of a step of the poll, as Telegram answers now and then, and of
beginning the P/L report, whose five minutes pass again and again while it is due. The
nightly review, the kills and the refusals have none. `HealthMonitor`: weak fairness of the
run in progress and of the next one, which launchd starts every ten minutes.
`Observe` is fair only while a shadow is open, as the tracking cycle is; market hours are
not modelled, so liveness of exits is about an open market.

## Proofs

* `PaperExits_proofs`:
  * `PlanSellsPosition`, `LadderWithinPosition`: for every number of contracts and every first
    target the plan sells exactly the position, and no rung exceeds it.
  * `TypeCorrect`: `Spec => []TypeOK` for all constants that satisfy the assumptions.
  * `CopyStaysCurrent` and `NeverOversoldUnlessShared`: `Spec => []RowsCurrent` and
    `Spec => []NoOversell`, for any number of processes. `NoOversell` is not inductive: a step may
    append a sell that was sized earlier. `RowsCurrent` says that the copy it was sized by is
    still what the file holds of the positions a walk has yet to exit, and that the sell fits.
    Others append in between, but only of positions in their own walks: who sets about a
    position makes it `shared` if another walk has it, so of the rest one walk at most has each.
    This and the types are the inductive invariant; every action is one step of the proof. What
    `shared` excepts is as weak as it can be made by looking at the walks: for those positions
    `NoOversell` does fail.
  * `ExitsImplementLedger`: `Spec => LedgerSpec`, the refinement of `ExitLedger`, for any number of
    processes and crashes; the ledger leaves free only what happens to shared positions. Between
    a look and a row lie a broker call and other appends; `AimInv` says that an aim under way is
    a target of the policy still (`AimsAreTargets`) and that the sell in hand reaches it exactly
    (`SellsToATarget`), so `RecordExit` is a step of the ledger and every other step leaves it
    alone. `CatchUpNeverOvertakes` follows from the same invariant.
  * `BrokerNotOversoldUnlessCut`: `[]BrokerNotOversold`, by `BrokerWithinRows`: of a position of which
    nobody died amid a sell, the broker holds at most what the rows say and the sell under way.
    Crashes elsewhere, and of other positions' sells, do no harm.

* `BrokerOrders_proofs`, for any number of processes, orders, terminal statuses and crashes:
  * `TypeCorrect`, and `AtMostOneRow`: `Spec => []OneRowPerOrder`. The strengthening
    (`IInv`) says what the lock is for: between its lookup and its row a process holds the
    lock (`Locked`), no row with its id has appeared meanwhile (`Unwritten`), and what it
    will write is a verdict (`Judged`). A crash lets go of the lock and of the claim at once.
  * `ImplementsVerdict`: `Spec => VerdictSpec`, the refinement of `OrderVerdict`. Every step
    is a step of it or leaves broker and rows alone; `TakenFirst` (a "submitted" about to be
    written is of an order the broker has taken) is the extra invariant it needs.
  * `NamedExitsAreAudited`: `Spec => []NamedOrderIsAudited`, by `Answered`: a submission that
    returns an id leaves a row with it. `AuditStaysConsistent` has both.
  * `OneMonitorReportsOnce`: `[]ReportedOnce` when one process watches the broker
    (`OneMonitor`; only the live pipeline does). `ReportInv` says that no other process
    does what a monitor does (`OnlyMonitors`), that during a check the monitor knows every
    report there is, its own last row included (`KnowsReports`), and that what it is about
    to tell has been told to nobody yet (`ToldLess`). With a second monitor `KnowsReports`
    fails.

* `Capture_proofs`, for every page, wordings, edits, crashes and exceptions: `TypeCorrect`,
  `RecordsAreUnique`, `StateFollowsRecords`, `RecordsAreExplained`; the first and the last
  together are `RecordsStaySound`. Inductive with what a pass knows: its keys are those of the file (`RawSeenCurrent`), its copy of the state differs from
  the file in captured messages only (`KnownIsCaptured`), and the message in hand is in the
  ledger with all records but those still to do (`InHand`).

* `LiveLoop_proofs`, about the bot, for any cards, messages and number of crashes: `BotTypeCorrect`,
  `CardsAreDecidedOnce`, `MessagesDecideOneCard`, `BoughtAndHeld`, `NoReplyIsLost`. The inductive
  invariant (`IInv`) says how a batch is worked off: what is queued follows the update in hand
  (`QueueGoesOn`), everything up to the update handled last has its row (`HandledIsAudited`),
  the card in hand is undecided and the one the message answers (`CardInHand`), and where
  no batch was repeated only handled messages have decided anything (`NothingRepeated`).

* `EntryRouting_proofs`, for any processes, captures and faults: `TypeCorrect`,
  `FreshIsRoutedOrLogged`, `StaleIsNeverBought`, summed up in `CapturesAreHandledByAge`. `FreshOnly` says that what is handled, carded,
  ordered and recorded is fresh, `MarkedIsRouted` that a raw about to be marked has its
  action, card or error row. `BoughtOnceUnlessShared`, and `RoutingImplementsEntryOnce`, the
  refinement of `EntryOnce`, except the alerts that two processes had in hand at the same time.
  They need that what a process has looked up still holds when it acts (`LookedUp`), that cards
  and positions are their entry's (`RowsOwn`), and that a buy without a fault is recorded or
  about to be (`BuysAreRecorded`). For a shared alert `LookedUp` fails, as `entry_double_buy` shows.

* `RiskGuard_proofs`, for any processes, alerts, torn lines and compactions: `TypeCorrect`,
  `DayLimitHolds`, `TickerLimitHolds` (together `LimitsHold`), `AllowedAlertsAreOrdered`, `CompactionIsSafe`
  (`OnlyRacesLoseRows` and `SweptIsArchived`). A process at work knows all of its own decisions
  the ledger still has (`OwnKnown`), from its batch, its finished messages or the one at hand,
  but those it was made to forget (`forgotten`); so the rest (`Counted`) are within the limit
  (`OwnWithinLimit`) and on different tickers (`OwnTickersDiffer`), and summed over the processes
  this is the bound. A decision without its audit row is `pending`, which is of the message at
  hand (`PendingIsOwn`): an exception marks that message, a kill moves it to `cut`. What a
  compaction holds is in the file (`SweepInHand`).

* `LiveLoop_proofs`, about the loop, for any chats, cards, messages and bounds: `LoopTypeCorrect`,
  `ReportsAreToldOnce`, `SettledReportsWereTold` (together `ReportsOfTheDayAreTold`), by `Accounted`: a
  message that got through is on its way to a row that settles the report, or counted as
  unfiled. Nothing is assumed of the chats: there may be none. `LoopRunsTheBot`:
  `LoopSpec => Spec` of `ApprovalBot`, so its theorems hold in the loop.

* `HealthMonitor_proofs`, for any captures, services and troubles: `TypeCorrect`, and for what
  a run does while the pipeline moves on between its readings:
  * `KnownStaysTold`: `NoneUntold` adds to `KnownIsTold` what holds between message and save, that
    the operator has been told what the run found.
  * `StallsAreFound`: `LeftToFind` says of every failure that lasts and is not found yet that
    its check is still to come, with one set of codes for each place in the run; `ReadStands`
    that rows read from a first file are still there when the second is read. Ledgers
    grow only and ages go up only, so a failure that stood throughout meets its check.
  * `FoundIsLate`: `LateBefore` says that what the second reading can report was late at the
    first.

* `QuoteTracking_proofs`, for any positions, prices, milestones, intervals and number of cycles
  cut off: `TypeCorrect`, and with the invariant `Inv`
  * `JudgedByNewest`: `NewestKept`, the newest quote is the last row's, or the state's entry
    which is then younger than all rows. While a cycle quotes, the entry in memory counts
    (`Entry`), which differs from the file where this cycle has quoted only
    (`CopiesAreFresh`), so a cut loses what `lost` says. Compaction must leave the last row
    (`RowsInOrder`).
  * `ExitsOnRecord`: `SalesOnRecord`, a quote that would sell has its row unless it is older than
    the purchase, in the file and in memory.
  * `RowsKeepThePrice`: `SeriesHolds`, without a cut the entry counts the last row, whose price
    is near to the newest quote. With cuts, a price that is news gets its row before
    anything can be cut, and one that is none is near to the row its entry counts, which
    exists (`EntryHolds`).
  * `StateKeepsThePrice`: `ExtremesHold` (without a cut a price is on a row or between the
    entry's extremes) and `MarksCounted` (a milestone not counted as hit has a row for each cut
    at most).

Assumptions are the `...Assumption`s of the modules, evaluated by TLC in every run, and
`OneMonitor` where named: the live pipeline is the one monitor. No theorem about exits, entries
or the risk gate bounds the number of processes. What they except, positions and alerts that two
processes handle at the same time, is real; the properties name it through the history variable
`shared`, and under "Runs" is what happens then.

Only model-checked: liveness under fairness (out of the prover's reach), that is `StopCloses`,
`LadderSells`, `SteveIsFollowedUnlessCrashed`, `ExitIsSent`, `EndIsReported`, `EveryRawIsProcessed`,
`BuyIsRecordedUnlessCrashed`, `RepliesBeforeUnreadableAreAudited`, `NamedWordingsAreCaptured`,
`ToldTrueInTheEnd`, `TasksGetTheirTurn` and `PlIsTold`.
