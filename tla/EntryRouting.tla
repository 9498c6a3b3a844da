---------------------------- MODULE EntryRouting ----------------------------
(***************************************************************************)
(* From a captured alert to a local position: process_raw_notifications    *)
(* (scripts/run_pipeline_once.py), handle_option_entry                     *)
(* (scripts/option_validation.py), auto_paper_buy and the owner's approval *)
(* of a card (scripts/steve_trade_bot.py).  The live pipeline and the      *)
(* browser watcher both run process_raw_notifications over the same files; *)
(* only the live pipeline reads the owner's replies.                       *)
(*                                                                         *)
(* A raw is one capture of an alert; the notification and the browser      *)
(* capture of the same Discord message are two raws of one entry (its      *)
(* canonical entry key).  Ids of shadow, card, auto buy and local position *)
(* are hashes of the entry; the client order id is made of the raw's key.  *)
(* A submission is one step here, as BrokerOrders shows it is for others.  *)
(***************************************************************************)
EXTENDS Naturals, Sequences, FiniteSets

CONSTANTS
  Workers,     \* processes that run process_raw_notifications
  BotWorkers,  \* those that also poll the owner's replies
  Raws,        \* captured messages
  EntryOf,     \* the alert a message carries
  Stale,       \* raws captured too long after they were posted
  NoRaw,
  MaxCrashes,  \* bound: process crashes in a behaviour
  MaxLosses    \* bound: orders the broker takes and the process does not learn of

Entries == {EntryOf[r] : r \in Raws}

ASSUME WorkersAssumption == BotWorkers \subseteq Workers
ASSUME RawsAssumption ==
  /\ EntryOf \in [Raws -> Entries]
  /\ Stale \subseteq Raws
  /\ NoRaw \notin Raws
ASSUME FaultAssumption == MaxCrashes \in Nat /\ MaxLosses \in Nat

VARIABLES
  file,        \* raw_notifications.jsonl
  processed,   \* processed_raw_notifications.jsonl: keys
  errors,      \* option_validation_errors.jsonl: keys
  shadowRows,  \* shadow_option_positions.jsonl: source keys of an entry's rows
  cards,       \* steve_approval_cards.jsonl: source key of the entry's last row
  autoDone,    \* entries with an auto_approved action or an auto buy report
  acted,       \* entries whose card is approved or skipped
  orders,      \* orders_paper.jsonl: status of the buy order with this key
  broker,      \* keys of the buy orders the broker holds
  positions,   \* human_paper_positions.jsonl: source keys of an entry's rows
  pc,          \* where each process is
  batch,       \* raws it still has to process
  raw,         \* the raw (or the card's raw) it is handling
  order,       \* the key its buy order is made of
  for,         \* on whose behalf it buys: an "alert" or the "owner"
  crashes,
  losses,
  shared       \* history: entries two processes had in hand at the same time

rawVars    == <<file, processed, errors>>
shadowVars == <<shadowRows, cards>>
doneVars   == <<autoDone, acted>>
buyVars    == <<orders, broker, positions>>
procVars   == <<pc, batch, raw, order, for>>
faultVars  == <<crashes, losses, shared>>
vars == <<rawVars, shadowVars, doneVars, buyVars, procVars, faultVars>>

Entry(p) == EntryOf[raw[p]]
InHand(q, e) == raw[q] # NoRaw /\ Entry(q) = e
Share(p, e) ==
  shared' = IF \E q \in Workers \ {p} : InHand(q, e) THEN shared \cup {e} ELSE shared
Goto(p, label) == pc' = [pc EXCEPT ![p] = label]

-----------------------------------------------------------------------------
(* process_raw_notifications                                               *)

Capture(r) ==
  /\ \A i \in DOMAIN file : file[i] # r
  /\ file' = Append(file, r)
  /\ UNCHANGED <<processed, errors, shadowVars, doneVars, buyVars, procVars, faultVars>>

Unseen == {file[i] : i \in DOMAIN file} \ processed

\* The raws of a batch are taken in the order of the file.
IsFirst(r, rows) ==
  \E i \in DOMAIN file : r = file[i] /\ r \in rows /\ \A j \in 1..(i - 1) : file[j] \notin rows

\* The raws and the keys processed so far are read once, before the first raw.
StartBatch(p) ==
  /\ pc[p] = "idle"
  /\ batch' = [batch EXCEPT ![p] = Unseen]
  /\ Goto(p, "next")
  /\ UNCHANGED <<rawVars, shadowVars, doneVars, buyVars, raw, order, for, faultVars>>

TakeStale(p) ==
  /\ pc[p] = "next"
  /\ \E r \in Stale :
       /\ IsFirst(r, batch[p])
       /\ processed' = processed \cup {r}
       /\ batch' = [batch EXCEPT ![p] = @ \ {r}]
  /\ UNCHANGED <<file, errors, shadowVars, doneVars, buyVars, pc, raw, order, for, faultVars>>

TakeFresh(p) ==
  /\ pc[p] = "next"
  /\ \E r \in Raws \ Stale :
       /\ IsFirst(r, batch[p])
       /\ raw' = [raw EXCEPT ![p] = r]
       /\ batch' = [batch EXCEPT ![p] = @ \ {r}]
       /\ Share(p, EntryOf[r])
  /\ for' = [for EXCEPT ![p] = "alert"]
  /\ Goto(p, "enrich")
  /\ UNCHANGED <<rawVars, shadowVars, doneVars, buyVars, order, crashes, losses>>

\* An exception of the handler (no quote, an alert without a usable price) is
\* logged; the raw is marked processed all the same.
HandlerFails(p) ==
  /\ pc[p] \in {"enrich", "shadow", "auto"}
  /\ errors' = errors \cup {raw[p]}
  /\ Goto(p, "mark")
  /\ UNCHANGED <<file, processed, shadowVars, doneVars, buyVars, batch, raw, order, for, faultVars>>

\* (slip: a raw whose handler failed is left for the next batch, for ever)
MarkUnlessFailed(p) ==
  /\ pc[p] = "mark"
  /\ processed' = IF raw[p] \in errors THEN processed ELSE processed \cup {raw[p]}
  /\ raw' = [raw EXCEPT ![p] = NoRaw]
  /\ for' = [for EXCEPT ![p] = "nobody"]
  /\ Goto(p, "next")
  /\ UNCHANGED <<file, errors, shadowVars, doneVars, buyVars, batch, order, faultVars>>
MarkProcessed(p) ==
  /\ pc[p] = "mark"
  /\ processed' = processed \cup {raw[p]}
  /\ raw' = [raw EXCEPT ![p] = NoRaw]
  /\ for' = [for EXCEPT ![p] = "nobody"]
  /\ Goto(p, "next")
  /\ UNCHANGED <<file, errors, shadowVars, doneVars, buyVars, batch, order, faultVars>>

\* The live pipeline turns to the owner's replies after each batch.
EndBatch(p) ==
  /\ pc[p] = "next"
  /\ batch[p] = {}
  /\ Goto(p, IF p \in BotWorkers THEN "replies" ELSE "idle")
  /\ UNCHANGED <<rawVars, shadowVars, doneVars, buyVars, batch, raw, order, for, faultVars>>

-----------------------------------------------------------------------------
(* handle_option_entry                                                     *)

\* create_shadow_position looks for the entry first  (slip: it does not look)
FindNoShadow(p) ==
  /\ pc[p] = "enrich"
  /\ Goto(p, "shadow")
  /\ UNCHANGED <<rawVars, shadowVars, doneVars, buyVars, batch, raw, order, for, faultVars>>
FindShadow(p) ==
  /\ pc[p] = "enrich"
  /\ Goto(p, IF shadowRows[Entry(p)] = <<>> THEN "shadow" ELSE "guard")
  /\ UNCHANGED <<rawVars, shadowVars, doneVars, buyVars, batch, raw, order, for, faultVars>>

AppendShadow(p) ==
  /\ pc[p] = "shadow"
  /\ shadowRows' = [shadowRows EXCEPT ![Entry(p)] = Append(@, raw[p])]
  /\ Goto(p, "guard")
  /\ UNCHANGED <<rawVars, cards, doneVars, buyVars, batch, raw, order, for, faultVars>>

\* auto_entry_guard judges the quote just fetched: either outcome is possible.
Guard(p) ==
  /\ pc[p] = "guard"
  /\ \E route \in {"auto", "card"} : Goto(p, route)
  /\ UNCHANGED <<rawVars, shadowVars, doneVars, buyVars, batch, raw, order, for, faultVars>>

\* send_approval_card: an entry that has a card gets no second one.
FindCard(p) ==
  /\ pc[p] = "card"
  /\ Goto(p, IF cards[Entry(p)] = NoRaw THEN "append card" ELSE "mark")
  /\ UNCHANGED <<rawVars, shadowVars, doneVars, buyVars, batch, raw, order, for, faultVars>>

\* (slip: the card is sent, not stored)
AppendCardNowhere(p) ==
  /\ pc[p] = "append card"
  /\ Goto(p, "mark")
  /\ UNCHANGED <<rawVars, shadowVars, doneVars, buyVars, batch, raw, order, for, faultVars>>
AppendCard(p) ==
  /\ pc[p] = "append card"
  /\ cards' = [cards EXCEPT ![Entry(p)] = raw[p]]
  /\ Goto(p, "mark")
  /\ UNCHANGED <<rawVars, shadowRows, doneVars, buyVars, batch, raw, order, for, faultVars>>

-----------------------------------------------------------------------------
(* auto_paper_buy, and the owner's approval of a card                      *)

\* build_human_position: the position already recorded for the entry, or a new
\* one with the key of the raw in hand.  (slip: always the raw in hand)
OrderKeyOfRaw(r) == r
OrderKey(r) ==
  IF positions[EntryOf[r]] = <<>> THEN r ELSE Head(positions[EntryOf[r]])

\* A buy already processed for the entry, or a position that exists, ends it.
CheckAuto(p) ==
  /\ pc[p] = "auto"
  /\ Goto(p, IF Entry(p) \in autoDone \/ positions[Entry(p)] # <<>>
             THEN "action" ELSE "submit")
  /\ order' = [order EXCEPT ![p] = OrderKey(raw[p])]
  /\ UNCHANGED <<rawVars, shadowVars, doneVars, buyVars, batch, raw, for, faultVars>>

\* process_approval_message for "buy": the card's alert, not acted upon before.
Approve(p, e) ==
  /\ pc[p] = "replies"
  /\ cards[e] # NoRaw
  /\ e \notin acted
  /\ raw' = [raw EXCEPT ![p] = cards[e]]
  /\ order' = [order EXCEPT ![p] = OrderKey(cards[e])]
  /\ for' = [for EXCEPT ![p] = "owner"]
  /\ Goto(p, "submit")
  /\ Share(p, e)
  /\ UNCHANGED <<rawVars, shadowVars, doneVars, buyVars, batch, crashes, losses>>

SkipCard(p, e) ==
  /\ pc[p] = "replies"
  /\ cards[e] # NoRaw
  /\ e \notin acted
  /\ acted' = acted \cup {e}
  /\ UNCHANGED <<rawVars, shadowVars, autoDone, buyVars, procVars, faultVars>>

EndReplies(p) ==
  /\ pc[p] = "replies"
  /\ Goto(p, "idle")
  /\ UNCHANGED <<rawVars, shadowVars, doneVars, buyVars, batch, raw, order, for, faultVars>>

BrokerTakes(key) == key \notin broker /\ broker' = broker \cup {key}

BrokerTakesUnheard(key) ==
  /\ losses < MaxLosses
  /\ BrokerTakes(key)
  /\ losses' = losses + 1

\* submit_option_paper_order: taken and answered, taken but the answer lost,
\* blocked or refused; skipped when the key has a row; no id and no row to find
\* when the payload cannot be built.
SubmitBuy(p) ==
  LET key == order[p]
      after == IF for[p] = "alert" THEN "report" ELSE "action"
  IN  /\ pc[p] = "submit"
      /\ \/ /\ orders[key] = "none"
            /\ BrokerTakes(key)
            /\ orders' = [orders EXCEPT ![key] = "submitted"]
            /\ Goto(p, "create")
            /\ UNCHANGED losses
         \/ /\ orders[key] = "none"
            /\ BrokerTakesUnheard(key) \/ UNCHANGED <<broker, losses>>
            /\ orders' = [orders EXCEPT ![key] = "blocked"]
            /\ Goto(p, after)
         \/ /\ Goto(p, after)
            /\ UNCHANGED <<orders, broker, losses>>
      /\ UNCHANGED <<rawVars, shadowVars, doneVars, positions, batch, raw, order, for, crashes, shared>>

\* create_human_position, for a submitted order only: look, then append.
\* (slip: no second look)
LookForNoPosition(p) ==
  /\ pc[p] = "create"
  /\ Goto(p, IF for[p] = "alert" THEN "report" ELSE "action")
  /\ UNCHANGED <<rawVars, shadowVars, doneVars, buyVars, batch, raw, order, for, faultVars>>
LookForPosition(p) ==
  /\ pc[p] = "create"
  /\ Goto(p, IF positions[Entry(p)] = <<>> THEN "write"
             ELSE IF for[p] = "alert" THEN "report" ELSE "action")
  /\ UNCHANGED <<rawVars, shadowVars, doneVars, buyVars, batch, raw, order, for, faultVars>>

WritePosition(p) ==
  /\ pc[p] = "write"
  /\ positions' = [positions EXCEPT ![Entry(p)] = Append(@, order[p])]
  /\ Goto(p, IF for[p] = "alert" THEN "report" ELSE "action")
  /\ UNCHANGED <<rawVars, shadowVars, doneVars, orders, broker, batch, raw, order, for, faultVars>>

\* The auto buy report, whatever became of the order.
SendReport(p) ==
  /\ pc[p] = "report"
  /\ autoDone' = autoDone \cup {Entry(p)}
  /\ Goto(p, "action")
  /\ UNCHANGED <<rawVars, shadowVars, acted, buyVars, batch, raw, order, for, faultVars>>

AppendAction(p) ==
  /\ pc[p] = "action"
  /\ order' = [order EXCEPT ![p] = NoRaw]
  /\ \/ /\ for[p] = "alert"
        /\ autoDone' = autoDone \cup {Entry(p)}
        /\ Goto(p, "mark")
        /\ UNCHANGED <<acted, raw, for>>
     \/ /\ for[p] = "owner"
        /\ acted' = acted \cup {Entry(p)}
        /\ raw' = [raw EXCEPT ![p] = NoRaw]
        /\ for' = [for EXCEPT ![p] = "nobody"]
        /\ Goto(p, "replies")
        /\ UNCHANGED autoDone
  /\ UNCHANGED <<rawVars, shadowVars, buyVars, batch, faultVars>>

-----------------------------------------------------------------------------
(* A process dies anywhere and is started again; while it submits, the     *)
(* broker may just have taken the order.                                   *)

Crash(p) ==
  /\ crashes < MaxCrashes
  /\ pc[p] # "idle"
  /\ \/ UNCHANGED <<broker, losses>>
     \/ /\ pc[p] = "submit" /\ orders[order[p]] = "none"
        /\ BrokerTakesUnheard(order[p])
  /\ Goto(p, "idle")
  /\ batch' = [batch EXCEPT ![p] = {}]
  /\ raw' = [raw EXCEPT ![p] = NoRaw]
  /\ order' = [order EXCEPT ![p] = NoRaw]
  /\ for' = [for EXCEPT ![p] = "nobody"]
  /\ crashes' = crashes + 1
  /\ UNCHANGED <<rawVars, shadowVars, doneVars, orders, positions, shared>>

-----------------------------------------------------------------------------
(* The specification                                                       *)

Init ==
  /\ file = <<>>
  /\ processed = {}
  /\ errors = {}
  /\ shadowRows = [e \in Entries |-> <<>>]
  /\ cards = [e \in Entries |-> NoRaw]
  /\ autoDone = {}
  /\ acted = {}
  /\ orders = [r \in Raws |-> "none"]
  /\ broker = {}
  /\ positions = [e \in Entries |-> <<>>]
  /\ pc = [p \in Workers |-> "idle"]
  /\ batch = [p \in Workers |-> {}]
  /\ raw = [p \in Workers |-> NoRaw]
  /\ order = [p \in Workers |-> NoRaw]
  /\ for = [p \in Workers |-> "nobody"]
  /\ crashes = 0
  /\ losses = 0
  /\ shared = {}

Batch(p) == TakeStale(p) \/ TakeFresh(p) \/ HandlerFails(p) \/ MarkProcessed(p) \/ EndBatch(p)

Route(p) ==
  FindShadow(p) \/ AppendShadow(p) \/ Guard(p) \/ FindCard(p) \/ AppendCard(p)

PlaceBuy(p) ==
  CheckAuto(p) \/ SubmitBuy(p) \/ LookForPosition(p) \/ WritePosition(p)
    \/ SendReport(p) \/ AppendAction(p)

Work(p) == Batch(p) \/ Route(p) \/ PlaceBuy(p) \/ EndReplies(p)

Next ==
  \/ \E r \in Raws : Capture(r)
  \/ \E p \in Workers :
       \/ StartBatch(p) \/ Work(p) \/ Crash(p)
       \/ \E e \in Entries : Approve(p, e) \/ SkipCard(p, e)

Spec == Init /\ [][Next]_vars

\* A process finishes what it has begun, and the live pipeline looks at the raw
\* file every second; the owner need not answer, nor the broker.
Fairness == \A p \in Workers : WF_vars(Work(p)) /\ SF_vars(StartBatch(p))

FairSpec == Spec /\ Fairness

-----------------------------------------------------------------------------
(* Properties                                                              *)

PCs == {"idle", "replies", "next", "enrich", "shadow", "guard", "card", "append card", "auto",
        "submit", "create", "write", "report", "action", "mark"}
ForWhom == {"nobody", "alert", "owner"}

\* Every variable has its type, and a process that handles something knows what.
TypeOK ==
  /\ file \in Seq(Raws)
  /\ processed \subseteq Raws
  /\ errors \subseteq Raws
  /\ shadowRows \in [Entries -> Seq(Raws)]
  /\ cards \in [Entries -> Raws \cup {NoRaw}]
  /\ autoDone \subseteq Entries
  /\ acted \subseteq Entries
  /\ orders \in [Raws -> {"none", "submitted", "blocked"}]
  /\ broker \subseteq Raws
  /\ positions \in [Entries -> Seq(Raws)]
  /\ pc \in [Workers -> PCs]
  /\ batch \in [Workers -> SUBSET Raws]
  /\ raw \in [Workers -> Raws \cup {NoRaw}]
  /\ order \in [Workers -> Raws \cup {NoRaw}]
  /\ for \in [Workers -> ForWhom]
  /\ crashes \in 0..MaxCrashes
  /\ losses \in 0..MaxLosses
  /\ shared \subseteq Entries
  /\ \A p \in Workers :
       /\ pc[p] \notin {"idle", "replies", "next"} => raw[p] \in Raws
       /\ pc[p] \in {"submit", "create", "write"} => order[p] \in Raws

\* However often the processes crash and come back, lose the broker's answers and hear
\* from the owner: an alert that no two of them had in hand at the same time gets one
\* shadow position and, after a buy, at most one local position; once that is recorded
\* the alert is not bought again.
Once == INSTANCE EntryOnce WITH
          shadowed <- [e \in Entries |-> Len(shadowRows[e])],
          bought   <- [e \in Entries |-> Cardinality({r \in broker : EntryOf[r] = e})],
          recorded <- [e \in Entries |-> Len(positions[e])]
OnceSpec == Once!Spec

\* No fresh alert disappears: once its raw is marked processed there is an auto buy
\* action, an approval card or an error row for it.
RoutedOrLogged ==
  \A r \in processed \ Stale :
    r \in errors \/ EntryOf[r] \in autoDone \/ cards[EntryOf[r]] # NoRaw

\* A stale capture leaves no order of its own, also when the owner approves the
\* card of another capture of the same alert.
StaleNeverBought == \A r \in Stale : orders[r] = "none" /\ r \notin broker

\* The age of a capture decides what becomes of it: fresh ones are routed or logged, stale
\* ones never bought, also through the twin of another source.
HandledByAge == RoutedOrLogged /\ StaleNeverBought

\* An alert is bought once, however many sources captured it and whether the buy
\* is automatic or the owner's.
OneBuyPerEntry ==
  \A e \in Entries : Cardinality({r \in broker : EntryOf[r] = e}) <= 1

\* This is so while no answer is lost, no crash comes between the order and the position,
\* and no two processes have the alert in hand at the same time: whichever capture the
\* card or the auto buy came from, although each capture has a client order id of its own
\* and a process may come to a capture that another has processed meanwhile.
OneBuyUnlessFault ==
  crashes = 0 /\ losses = 0 =>
    \A e \in Entries \ shared : Cardinality({r \in broker : EntryOf[r] = e}) <= 1

\* The quotes of a local position are found: tracking stores them under the source
\* key of the shadow, and the exit rules look for the position's own (no: the two may
\* come from different captures).
PositionIsTracked ==
  \A e \in Entries :
    positions[e] # <<>> => \E i \in DOMAIN shadowRows[e] : shadowRows[e][i] = Head(positions[e])

\* Every captured alert is processed.
EveryRawIsProcessed ==
  \A r \in Raws : (\E i \in DOMAIN file : file[i] = r) ~> (r \in processed)

\* A buy whose order was submitted gets its local position, unless a crash comes
\* between the two.
BuyIsRecordedUnlessCrashed ==
  \A r \in Raws :
    (orders[r] = "submitted") ~> (positions[EntryOf[r]] # <<>> \/ crashes > 0)

=============================================================================
