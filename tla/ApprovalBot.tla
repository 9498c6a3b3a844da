---------------------------- MODULE ApprovalBot ----------------------------
(***************************************************************************)
(* The owner's replies: poll_once and process_approval_message of          *)
(* scripts/steve_trade_bot.py, called by the live pipeline in every loop.  *)
(*                                                                         *)
(* Telegram numbers the updates and hands out every one from the offset    *)
(* on and forgets those before it; the bot saves the offset in its state   *)
(* file after the whole batch, so a batch that is not finished is handed   *)
(* out again.  The file is rewritten in place: a crash can leave it        *)
(* unreadable, which counts as empty.  A message is a record: who sent it, *)
(* what it says, and the card it replies to, if any.                       *)
(* "bad" stands for every text that is answered with a rejection; an       *)
(* "unreadable" one names a stop or take that is no number (stop=abc), on  *)
(* which parse_number raises and the poll ends.                            *)
(***************************************************************************)
EXTENDS Naturals, Sequences, FiniteSets

CONSTANTS
  CardCount,  \* bound: cards the pipeline sends, numbered in ledger order
  Messages,   \* the messages that get sent, in order
  MaxCrashes  \* bound: crashes of the live pipeline

NoCard == 0
Cards == 1..CardCount
Updates == DOMAIN Messages

ASSUME CardsAssumption == CardCount \in Nat /\ MaxCrashes \in Nat
ASSUME MessagesAssumption ==
  Messages \in Seq([from : {"owner", "other"},
                    says : {"buy", "skip", "bad", "unreadable"},
                    to   : Cards \cup {NoCard}])

VARIABLES
  sentCards,  \* cards in steve_approval_cards.jsonl
  sent,       \* updates Telegram has received
  offset,     \* steve_trade_bot_state.json: telegram_update_offset
  confirmed,  \* updates Telegram has forgotten
  audited,    \* updates with a row in steve_approval_actions.jsonl
  decided,    \* cards an update has approved or skipped, per update
  decisions,  \* approved and skipped rows of a card
  orders,     \* orders_paper.jsonl: status of the card's buy order
  positions,  \* cards with a local position
  pc, queue, update, card,
  crashes

ledgerVars == <<audited, decided, decisions>>
offsetVars == <<offset, confirmed>>
buyVars    == <<orders, positions>>
vars == <<sentCards, sent, offsetVars, ledgerVars, buyVars, pc, queue, update, card, crashes>>

-----------------------------------------------------------------------------
(* The pipeline sends cards, the owner and others send messages            *)

SendCard ==
  /\ sentCards < CardCount
  /\ sentCards' = sentCards + 1
  /\ UNCHANGED <<sent, offsetVars, ledgerVars, buyVars, pc, queue, update, card, crashes>>

\* A reply answers a card that has been sent.
SendMessage ==
  /\ sent < Len(Messages)
  /\ Messages[sent + 1].to <= sentCards
  /\ sent' = sent + 1
  /\ UNCHANGED <<sentCards, offsetVars, ledgerVars, buyVars, pc, queue, update, card, crashes>>

-----------------------------------------------------------------------------
(* poll_once                                                               *)

\* getUpdates from the saved offset on.
\* (slip: the offset is saved as soon as the batch has been fetched)
PollSaving ==
  /\ pc = "idle"
  /\ queue' = [i \in 1..(sent - offset) |-> offset + i]
  /\ confirmed' = offset
  /\ offset' = sent
  /\ pc' = "batch"
  /\ UNCHANGED <<sentCards, sent, ledgerVars, buyVars, update, card, crashes>>
Poll ==
  /\ pc = "idle"
  /\ queue' = [i \in 1..(sent - offset) |-> offset + i]
  /\ confirmed' = offset
  /\ pc' = "batch"
  /\ UNCHANGED <<sentCards, sent, offset, ledgerVars, buyVars, update, card, crashes>>

TakeUpdate ==
  /\ pc = "batch"
  /\ queue # <<>>
  /\ update' = Head(queue)
  /\ queue' = Tail(queue)
  /\ pc' = "read"
  /\ UNCHANGED <<sentCards, sent, offsetVars, ledgerVars, buyVars, card, crashes>>

\* The state file is written when the whole batch is done.
\* (slip: one further than the last update)
SaveOffsetPast ==
  /\ pc = "batch"
  /\ queue = <<>>
  /\ offset' = IF update = 0 THEN offset ELSE update + 1
  /\ update' = 0
  /\ pc' = "idle"
  /\ UNCHANGED <<sentCards, sent, confirmed, ledgerVars, buyVars, queue, card, crashes>>
SaveOffset ==
  /\ pc = "batch"
  /\ queue = <<>>
  /\ offset' = IF update = 0 THEN offset ELSE update
  /\ update' = 0
  /\ pc' = "idle"
  /\ UNCHANGED <<sentCards, sent, confirmed, ledgerVars, buyVars, queue, card, crashes>>

\* parse_number raises: the poll ends and the offset stays.
PollFails ==
  /\ pc = "read"
  /\ Messages[update].from = "owner"
  /\ Messages[update].says = "unreadable"
  /\ queue' = <<>>
  /\ update' = 0
  /\ pc' = "idle"
  /\ UNCHANGED <<sentCards, sent, offsetVars, ledgerVars, buyVars, card, crashes>>

-----------------------------------------------------------------------------
(* process_approval_message                                                *)

Pending == {c \in 1..sentCards : decisions[c] = 0}

\* card_for_message: the card replied to, else the last one still pending.
\* (slip: the reply is not looked at)
CardForLatest(m) == {c \in Pending : \A d \in Pending : d <= c}
CardFor(m) ==
  IF m.to # NoCard THEN {m.to}
  ELSE {c \in Pending : \A d \in Pending : d <= c}

Audit == audited' = audited \cup {update}

\* The message is not the owner's, is rejected, finds no card, or finds one that
\* has been decided: a row, nothing else.
ReadInVain ==
  /\ pc = "read"
  /\ LET m == Messages[update]
     IN  \/ m.from = "other"
         \/ m.says = "bad"
         \/ m.says \in {"buy", "skip"} /\ \A c \in CardFor(m) : decisions[c] > 0
  /\ Audit
  /\ pc' = "batch"
  /\ UNCHANGED <<sentCards, sent, offsetVars, decided, decisions, buyVars, queue, update, card, crashes>>

\* A decision: the approved or skipped row of the card.
Decide(c) ==
  /\ Audit
  /\ decided' = [decided EXCEPT ![update] = @ \cup {c}]
  /\ decisions' = [decisions EXCEPT ![c] = @ + 1]

\* (slip: whether the card has been decided is not asked)
ReadSkipAgain ==
  /\ pc = "read"
  /\ Messages[update].from = "owner" /\ Messages[update].says = "skip"
  /\ \E c \in CardFor(Messages[update]) : Decide(c)
  /\ pc' = "batch"
  /\ UNCHANGED <<sentCards, sent, offsetVars, buyVars, queue, update, card, crashes>>
ReadSkip ==
  /\ pc = "read"
  /\ Messages[update].from = "owner" /\ Messages[update].says = "skip"
  /\ \E c \in CardFor(Messages[update]) : decisions[c] = 0 /\ Decide(c)
  /\ pc' = "batch"
  /\ UNCHANGED <<sentCards, sent, offsetVars, buyVars, queue, update, card, crashes>>

ReadBuy ==
  /\ pc = "read"
  /\ Messages[update].from = "owner" /\ Messages[update].says = "buy"
  /\ \E c \in CardFor(Messages[update]) : decisions[c] = 0 /\ card' = c
  /\ pc' = "submit"
  /\ UNCHANGED <<sentCards, sent, offsetVars, ledgerVars, buyVars, queue, update, crashes>>

\* submit_option_paper_order for the card's alert: a first attempt gets a verdict
\* for good, a later one is skipped; a payload that cannot be built leaves none.
Submit ==
  /\ pc = "submit"
  /\ \/ /\ orders[card] = "none"
        /\ orders' = [orders EXCEPT ![card] = "submitted"]
        /\ pc' = "create"
     \/ /\ orders[card] = "none"
        /\ orders' = [orders EXCEPT ![card] = "blocked"]
        /\ pc' = "approve"
     \/ /\ pc' = "approve"
        /\ UNCHANGED orders
  /\ UNCHANGED <<sentCards, sent, offsetVars, ledgerVars, positions, queue, update, card, crashes>>

CreatePosition ==
  /\ pc = "create"
  /\ positions' = positions \cup {card}
  /\ pc' = "approve"
  /\ UNCHANGED <<sentCards, sent, offsetVars, ledgerVars, orders, queue, update, card, crashes>>

Approve ==
  /\ pc = "approve"
  /\ Decide(card)
  /\ card' = NoCard
  /\ pc' = "batch"
  /\ UNCHANGED <<sentCards, sent, offsetVars, buyVars, queue, update, crashes>>

-----------------------------------------------------------------------------

\* A crash anywhere; one that hits the rewriting of the state file costs the offset,
\* and Telegram hands out what it has not forgotten.
Crash ==
  /\ crashes < MaxCrashes
  /\ pc # "idle"
  /\ \/ UNCHANGED offset
     \/ pc = "batch" /\ queue = <<>> /\ offset' = confirmed
  /\ pc' = "idle"
  /\ queue' = <<>>
  /\ update' = 0
  /\ card' = NoCard
  /\ crashes' = crashes + 1
  /\ UNCHANGED <<sentCards, sent, confirmed, ledgerVars, buyVars>>

Init ==
  /\ sentCards = 0
  /\ sent = 0
  /\ offset = 0
  /\ confirmed = 0
  /\ audited = {}
  /\ decided = [u \in Updates |-> {}]
  /\ decisions = [c \in Cards |-> 0]
  /\ orders = [c \in Cards |-> "none"]
  /\ positions = {}
  /\ pc = "idle"
  /\ queue = <<>>
  /\ update = 0
  /\ card = NoCard
  /\ crashes = 0

Process == ReadInVain \/ ReadSkip \/ ReadBuy \/ Submit \/ CreatePosition \/ Approve

Bot == Poll \/ TakeUpdate \/ SaveOffset \/ PollFails \/ Process

Next == SendCard \/ SendMessage \/ Bot \/ Crash

Spec == Init /\ [][Next]_vars

\* The live pipeline polls in every loop; nobody has to write or send cards.
FairSpec == Spec /\ WF_vars(Bot)

-----------------------------------------------------------------------------
(* Properties                                                              *)

PCs == {"idle", "batch", "read", "submit", "create", "approve"}

\* Every variable has its type; the bot never reads ahead of what was sent, nor
\* saves an offset beyond it, and knows its message and its card.
TypeOK ==
  /\ sentCards \in 0..CardCount
  /\ sent \in 0..Len(Messages)
  /\ offset \in 0..sent
  /\ confirmed \in 0..offset
  /\ audited \subseteq 1..sent
  /\ decided \in [Updates -> SUBSET Cards]
  /\ decisions \in [Cards -> Nat]
  /\ orders \in [Cards -> {"none", "submitted", "blocked"}]
  /\ positions \subseteq Cards
  /\ pc \in PCs
  /\ queue \in Seq(1..sent)
  /\ update \in 0..sent
  /\ card \in 0..sentCards
  /\ crashes \in 0..MaxCrashes
  /\ pc \notin {"idle", "batch"} => update \in Updates
  /\ pc \in {"submit", "create", "approve"} => card \in Cards

ReadableUpTo(u) == \A v \in 1..u : Messages[v].says # "unreadable"

\* A card is approved or skipped once, however often Telegram hands out the
\* message again after a crash or a poll that failed.
DecidedOnce == \A c \in Cards : decisions[c] <= 1

\* A reply decides the card it answers and no other, also when it is handed out
\* again; a message that answers no card decides at most one as long as no batch
\* is repeated, after a crash or because of an unreadable message.
OneCardPerMessage ==
  \A u \in Updates :
    /\ Messages[u].to # NoCard => decided[u] \subseteq {Messages[u].to}
    /\ crashes = 0 /\ ReadableUpTo(sent) => Cardinality(decided[u]) <= 1

\* A position stands for a submitted order, and a card that was bought without its
\* position is one that a crash interrupted.
PositionsAreBought ==
  /\ \A c \in positions : orders[c] = "submitted"
  /\ crashes = 0 => \A c \in Cards :
       orders[c] = "submitted" /\ decisions[c] > 0 => c \in positions

\* Only what has been handled is acknowledged: an update below the saved offset has
\* its row, so a crash loses no reply.
AcknowledgedIsAudited == \A u \in 1..offset : u \in audited

\* Every message gets its row, across crashes and also when an unreadable message
\* that came after it makes its batch fail again and again.
RepliesBeforeUnreadableAreAudited ==
  \A u \in Updates : ReadableUpTo(u) => (u <= sent) ~> (u \in audited)

\* Every message sent to the bot gets its row in steve_approval_actions.jsonl (no:
\* an unreadable one ends every poll before its offset is saved).
EveryReplyIsAudited == \A u \in Updates : (u <= sent) ~> (u \in audited)

=============================================================================
