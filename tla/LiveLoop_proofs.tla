-------------------------- MODULE LiveLoop_proofs --------------------------
(***************************************************************************)
(* Theorems about ApprovalBot, for any cards, messages and number of       *)
(* crashes, and about LiveLoop, which extends it, and DayReports, for any  *)
(* chats and bounds.                                                       *)
(***************************************************************************)
EXTENDS LiveLoop, FiniteSetTheorems, SequenceTheorems, TLAPS

-----------------------------------------------------------------------------
(* The approval bot: what a batch of updates has been worked off to.       *)

\* The update taken last, and the one handled last.
Taken == IF update = 0 THEN offset ELSE update
Handled == IF pc \in {"idle", "batch"} THEN Taken ELSE update - 1

\* What is left of a batch follows the update taken last, one by one.
QueueGoesOn ==
  /\ pc = "idle" => queue = <<>> /\ update = 0
  /\ pc # "idle" => confirmed = offset
  /\ update # 0 => offset < update
  /\ \A i \in 1..Len(queue) : queue[i] = Taken + i

\* Up to the update handled last all have their row.
HandledIsAudited == \A u \in 1..Handled : u \in audited

\* The card in hand is undecided, and the one the message answers, if it answers one.
CardInHand ==
  pc \in {"submit", "create", "approve"} =>
    /\ decisions[card] = 0
    /\ Messages[update].to # NoCard => card = Messages[update].to

RepliesDecideOwnCard ==
  \A u \in Updates : Messages[u].to # NoCard => decided[u] \subseteq {Messages[u].to}

\* Where no batch is repeated only what has been handled has decided anything.
NothingRepeated ==
  crashes = 0 /\ ReadableUpTo(sent) =>
    \A u \in Updates :
      /\ u > Handled => decided[u] = {}
      /\ IsFiniteSet(decided[u]) /\ Cardinality(decided[u]) <= 1

\* Without a crash a bought card has its position, or is in hand.
BoughtHasPosition ==
  /\ pc = "create" => orders[card] = "submitted"
  /\ \A c \in positions : orders[c] = "submitted"
  /\ crashes = 0 =>
       \A c \in Cards : orders[c] = "submitted" => c \in positions \/ (pc = "create" /\ c = card)

\* Messages that have been sent answer cards that have.
AnswersSentCard == \A u \in 1..sent : Messages[u].to <= sentCards

IInv ==
  /\ TypeOK
  /\ AnswersSentCard
  /\ QueueGoesOn
  /\ HandledIsAudited
  /\ CardInHand
  /\ DecidedOnce
  /\ RepliesDecideOwnCard
  /\ NothingRepeated
  /\ BoughtHasPosition

-----------------------------------------------------------------------------
(* Lemmas                                                                  *)

\* The messages are numbered from one on, and each has a sender, a text and a card.
LEMMA MessagesAreNumbered ==
  /\ Len(Messages) \in Nat
  /\ Updates = 1..Len(Messages)
  /\ \A u \in Updates : Messages[u].to \in 0..CardCount
<1> DEFINE M == [from : {"owner", "other"},
                 says : {"buy", "skip", "bad", "unreadable"},
                 to   : Cards \cup {NoCard}]
<1>1. Messages \in Seq(M)
  BY MessagesAssumption
<1>2. Len(Messages) \in Nat /\ DOMAIN Messages = 1..Len(Messages)
  BY <1>1, LenProperties
<1>3. \A u \in 1..Len(Messages) : Messages[u] \in M
  BY <1>1, ElementOfSeq
<1>4. \A x \in M : x.to \in 0..CardCount
  BY CardsAssumption DEF Cards, NoCard
<1> QED
  BY <1>2, <1>3, <1>4 DEF Updates

\* A message that is read decides a card that has been sent, and the one it answers if
\* it answers one.
LEMMA CardForIsCard ==
  ASSUME TypeOK, AnswersSentCard, NEW u \in 1..sent, NEW c \in CardFor(Messages[u])
  PROVE  /\ c \in Cards /\ c \in 1..sentCards
         /\ Messages[u].to # NoCard => c = Messages[u].to
<1>1. sentCards \in 0..CardCount /\ sent \in 0..Len(Messages)
  BY DEF TypeOK
<1>2. Messages[u].to \in 0..sentCards
  BY <1>1, MessagesAreNumbered, CardsAssumption DEF AnswersSentCard
<1>3. Pending \subseteq 1..sentCards
  BY DEF Pending
<1>4. c \in 1..sentCards
  <2>1. CASE Messages[u].to # NoCard
    BY <1>2, <2>1 DEF CardFor, NoCard
  <2>2. CASE Messages[u].to = NoCard
    BY <1>3, <2>2 DEF CardFor
  <2> QED
    BY <2>1, <2>2
<1>5. c \in Cards
  BY <1>1, <1>4, CardsAssumption DEF Cards
<1>6. Messages[u].to # NoCard => c = Messages[u].to
  BY DEF CardFor
<1> QED
  BY <1>4, <1>5, <1>6

\* Every message has nothing, then what one decision adds: at most one card.
LEMMA NoneThenOne ==
  ASSUME NEW S, S = {}, NEW c
  PROVE  IsFiniteSet(S \cup {c}) /\ Cardinality(S \cup {c}) <= 1
BY FS_EmptySet, FS_Singleton

-----------------------------------------------------------------------------
(* The invariant                                                           *)

LEMMA InitIInv == Init => IInv
<1> SUFFICES ASSUME Init PROVE IInv
  OBVIOUS
<1> USE DEF Init
<1>1. TypeOK
  BY MessagesAreNumbered, CardsAssumption, EmptySeq DEF TypeOK, PCs, NoCard
<1>2. AnswersSentCard /\ QueueGoesOn /\ HandledIsAudited /\ CardInHand
  BY DEF AnswersSentCard, QueueGoesOn, HandledIsAudited, CardInHand, Handled, Taken
<1>3. DecidedOnce /\ RepliesDecideOwnCard /\ BoughtHasPosition
  BY DEF DecidedOnce, RepliesDecideOwnCard, BoughtHasPosition
<1>4. NothingRepeated
  BY FS_EmptySet DEF NothingRepeated
<1> QED
  BY <1>1, <1>2, <1>3, <1>4 DEF IInv

LEMMA SendCardStep == IInv /\ SendCard => IInv'
<1> SUFFICES ASSUME IInv, SendCard PROVE IInv'
  OBVIOUS
<1> USE DEF SendCard, offsetVars, ledgerVars, buyVars
<1>1. TypeOK'
  <2>1. sentCards' \in 0..CardCount /\ card' \in 0..sentCards'
    BY CardsAssumption DEF IInv, TypeOK
  <2> QED
    BY <2>1 DEF IInv, TypeOK
<1>2. AnswersSentCard'
  <2>1. sentCards \in Nat /\ sent \in 0..Len(Messages)
    BY CardsAssumption DEF IInv, TypeOK
  <2>2. \A u \in 1..sent : Messages[u].to \in Nat
    BY <2>1, MessagesAreNumbered, CardsAssumption
  <2>3. \A u \in 1..sent : Messages[u].to <= sentCards
    BY DEF IInv, AnswersSentCard
  <2> QED
    BY <2>1, <2>2, <2>3 DEF AnswersSentCard
<1>3. (QueueGoesOn /\ HandledIsAudited /\ CardInHand)'
  BY DEF IInv, QueueGoesOn, HandledIsAudited, CardInHand, Handled, Taken
<1>4. (DecidedOnce /\ RepliesDecideOwnCard /\ BoughtHasPosition /\ NothingRepeated)'
  BY DEF IInv, DecidedOnce, RepliesDecideOwnCard, BoughtHasPosition, NothingRepeated,
         ReadableUpTo, Handled, Taken
<1> QED
  BY <1>1, <1>2, <1>3, <1>4 DEF IInv

LEMMA SendMessageStep == IInv /\ SendMessage => IInv'
<1> SUFFICES ASSUME IInv, SendMessage PROVE IInv'
  OBVIOUS
<1> USE DEF SendMessage, offsetVars, ledgerVars, buyVars
<1>1. TypeOK'
  <2>1. sent \in 0..Len(Messages) /\ sent' \in 0..Len(Messages) /\ sent' = sent + 1
    BY MessagesAreNumbered DEF IInv, TypeOK
  <2>2. queue \in Seq(1..sent')
    BY <2>1, SeqMonotonic DEF IInv, TypeOK
  <2> QED
    BY <2>1, <2>2 DEF IInv, TypeOK
<1>2. AnswersSentCard'
  BY MessagesAreNumbered DEF IInv, TypeOK, AnswersSentCard
<1>3. (QueueGoesOn /\ HandledIsAudited /\ CardInHand)'
  BY DEF IInv, QueueGoesOn, HandledIsAudited, CardInHand, Handled, Taken
<1>4. (DecidedOnce /\ RepliesDecideOwnCard /\ BoughtHasPosition)'
  BY DEF IInv, DecidedOnce, RepliesDecideOwnCard, BoughtHasPosition
<1>5. NothingRepeated'
  BY MessagesAreNumbered DEF IInv, TypeOK, NothingRepeated, ReadableUpTo, Handled, Taken
<1> QED
  BY <1>1, <1>2, <1>3, <1>4, <1>5 DEF IInv

-----------------------------------------------------------------------------
(* poll_once                                                               *)

LEMMA PollStep == IInv /\ Poll => IInv'
<1> SUFFICES ASSUME IInv, Poll PROVE IInv'
  OBVIOUS
<1> USE DEF Poll, ledgerVars, buyVars
<1>1. sent \in Nat /\ offset \in 0..sent /\ update = 0 /\ sent \in 0..Len(Messages)
  BY MessagesAreNumbered DEF IInv, TypeOK, QueueGoesOn
<1>2. queue' \in Seq(1..sent) /\ Len(queue') = sent - offset
  <2>1. sent - offset \in Nat /\ queue' \in [1..(sent - offset) -> 1..sent]
    BY <1>1
  <2>2. queue' \in Seq(1..sent)
    BY <2>1, SeqDef
  <2>3. Len(queue') \in Nat /\ 1..Len(queue') = 1..(sent - offset)
    BY <2>1, <2>2, LenProperties
  <2> QED
    BY <2>1, <2>2, <2>3
<1>3. TypeOK'
  BY <1>1, <1>2 DEF IInv, TypeOK, PCs
<1>4. (AnswersSentCard /\ CardInHand)'
  BY DEF IInv, AnswersSentCard, CardInHand
<1>5. QueueGoesOn'
  BY <1>1, <1>2 DEF QueueGoesOn, Taken
<1>6. HandledIsAudited'
  BY <1>1 DEF IInv, HandledIsAudited, Handled, Taken
<1>7. (DecidedOnce /\ RepliesDecideOwnCard /\ BoughtHasPosition)'
  BY DEF IInv, DecidedOnce, RepliesDecideOwnCard, BoughtHasPosition
<1>8. NothingRepeated'
  BY <1>1 DEF IInv, NothingRepeated, ReadableUpTo, Handled, Taken
<1> QED
  BY <1>3, <1>4, <1>5, <1>6, <1>7, <1>8 DEF IInv

LEMMA TakeUpdateStep == IInv /\ TakeUpdate => IInv'
<1> SUFFICES ASSUME IInv, TakeUpdate PROVE IInv'
  OBVIOUS
<1> USE DEF TakeUpdate, offsetVars, ledgerVars, buyVars
<1>1. /\ sent \in Nat /\ offset \in 0..sent /\ update \in 0..sent
      /\ sent \in 0..Len(Messages) /\ queue \in Seq(1..sent)
  BY MessagesAreNumbered DEF IInv, TypeOK
<1>2. /\ Head(queue) = queue[1] /\ Len(queue) \in Nat \ {0}
      /\ Tail(queue) \in Seq(1..sent) /\ Len(Tail(queue)) = Len(queue) - 1
      /\ \A i \in 1..Len(Tail(queue)) : Tail(queue)[i] = queue[i + 1]
  BY <1>1, HeadTailProperties, LenProperties, EmptySeq
<1>3. update' = Taken + 1 /\ Taken \in Nat /\ Taken >= offset
  BY <1>1, <1>2 DEF IInv, QueueGoesOn, Taken
<1>4. update' \in 1..sent
  BY <1>1, <1>2, ElementOfSeq
<1>5. TypeOK'
  BY <1>1, <1>2, <1>4, MessagesAreNumbered DEF IInv, TypeOK, PCs
<1>6. (AnswersSentCard /\ CardInHand)'
  BY DEF IInv, AnswersSentCard, CardInHand
<1>7. QueueGoesOn'
  <2>1. \A i \in 1..Len(queue) : queue[i] = Taken + i
    BY DEF IInv, QueueGoesOn
  <2>2. \A i \in 1..Len(queue') : queue'[i] = update' + i
    BY <1>2, <1>3, <2>1
  <2> QED
    BY <1>1, <1>3, <2>2 DEF IInv, QueueGoesOn, Taken
<1>8. Handled' = Handled
  BY <1>3 DEF Handled
<1>9. (HandledIsAudited /\ NothingRepeated)'
  BY <1>8 DEF IInv, HandledIsAudited, NothingRepeated, ReadableUpTo
<1>10. (DecidedOnce /\ RepliesDecideOwnCard /\ BoughtHasPosition)'
  BY DEF IInv, DecidedOnce, RepliesDecideOwnCard, BoughtHasPosition
<1> QED
  BY <1>5, <1>6, <1>7, <1>9, <1>10 DEF IInv

LEMMA SaveOffsetStep == IInv /\ SaveOffset => IInv'
<1> SUFFICES ASSUME IInv, SaveOffset PROVE IInv'
  OBVIOUS
<1> USE DEF SaveOffset, ledgerVars, buyVars
<1>1. /\ sent \in Nat /\ offset \in 0..sent /\ update \in 0..sent /\ confirmed \in 0..offset
      /\ update # 0 => offset < update
  BY MessagesAreNumbered DEF IInv, TypeOK, QueueGoesOn
<1>2. offset' = Taken /\ Taken' = Taken /\ Handled' = Handled
  BY DEF Taken, Handled
<1>3. TypeOK'
  BY <1>1 DEF IInv, TypeOK, PCs
<1>4. QueueGoesOn'
  BY EmptySeq DEF QueueGoesOn
<1>5. (AnswersSentCard /\ CardInHand)'
  BY DEF IInv, AnswersSentCard, CardInHand
<1>6. (HandledIsAudited /\ NothingRepeated)'
  BY <1>2 DEF IInv, HandledIsAudited, NothingRepeated, ReadableUpTo
<1>7. (DecidedOnce /\ RepliesDecideOwnCard /\ BoughtHasPosition)'
  BY DEF IInv, DecidedOnce, RepliesDecideOwnCard, BoughtHasPosition
<1> QED
  BY <1>3, <1>4, <1>5, <1>6, <1>7 DEF IInv

LEMMA PollFailsStep == IInv /\ PollFails => IInv'
<1> SUFFICES ASSUME IInv, PollFails PROVE IInv'
  OBVIOUS
<1> USE DEF PollFails, offsetVars, ledgerVars, buyVars
<1>1. /\ sent \in Nat /\ offset \in 0..sent /\ update \in 1..sent /\ offset < update
  BY MessagesAreNumbered DEF IInv, TypeOK, QueueGoesOn
<1>2. TypeOK'
  BY <1>1, EmptySeq DEF IInv, TypeOK, PCs
<1>3. QueueGoesOn'
  BY EmptySeq DEF QueueGoesOn
<1>4. (AnswersSentCard /\ CardInHand)'
  BY DEF IInv, AnswersSentCard, CardInHand
<1>5. HandledIsAudited'
  BY <1>1 DEF IInv, HandledIsAudited, Handled, Taken
<1>6. NothingRepeated'
  BY <1>1 DEF NothingRepeated, ReadableUpTo
<1>7. (DecidedOnce /\ RepliesDecideOwnCard /\ BoughtHasPosition)'
  BY DEF IInv, DecidedOnce, RepliesDecideOwnCard, BoughtHasPosition
<1> QED
  BY <1>2, <1>3, <1>4, <1>5, <1>6, <1>7 DEF IInv

-----------------------------------------------------------------------------
(* process_approval_message                                                *)

\* A decision on a card that had none: the row of its update, and one decision.
LEMMA DecideOnce ==
  ASSUME IInv, pc \notin {"idle", "batch"}, NEW c \in Cards, decisions[c] = 0, Decide(c),
         Messages[update].to # NoCard => c = Messages[update].to,
         pc' = "batch", UNCHANGED <<sentCards, sent, update, offset, crashes>>
  PROVE  /\ audited' \subseteq 1..sent
         /\ decided' \in [Updates -> SUBSET Cards] /\ decisions' \in [Cards -> Nat]
         /\ (HandledIsAudited /\ DecidedOnce /\ RepliesDecideOwnCard /\ NothingRepeated)'
<1>1. /\ sent \in Nat /\ update \in Updates /\ update \in 1..sent /\ audited \subseteq 1..sent
      /\ decided \in [Updates -> SUBSET Cards] /\ decisions \in [Cards -> Nat]
  BY MessagesAreNumbered DEF IInv, TypeOK
<1>2. Handled = update - 1 /\ Handled' = update
  BY <1>1 DEF Handled, Taken
<1>3. audited' = audited \cup {update} /\ decided' = [decided EXCEPT ![update] = @ \cup {c}]
      /\ decisions' = [decisions EXCEPT ![c] = @ + 1]
  BY DEF Decide, Audit
<1>4. decided' \in [Updates -> SUBSET Cards] /\ decisions' \in [Cards -> Nat]
  BY <1>1, <1>3
<1>5. HandledIsAudited'
  BY <1>1, <1>2, <1>3 DEF IInv, HandledIsAudited
<1>6. DecidedOnce'
  BY <1>1, <1>3 DEF IInv, DecidedOnce
<1>7. RepliesDecideOwnCard'
  BY <1>1, <1>3 DEF IInv, RepliesDecideOwnCard
<1>8. NothingRepeated'
  <2> SUFFICES ASSUME crashes = 0, ReadableUpTo(sent), NEW u \in Updates
               PROVE  /\ u > update => decided'[u] = {}
                      /\ IsFiniteSet(decided'[u]) /\ Cardinality(decided'[u]) <= 1
    BY <1>2 DEF NothingRepeated, ReadableUpTo
  <2>1. \A v \in Updates : /\ v > update - 1 => decided[v] = {}
                           /\ IsFiniteSet(decided[v]) /\ Cardinality(decided[v]) <= 1
    BY <1>2 DEF IInv, NothingRepeated
  <2>2. CASE u = update
    <3>1. decided[u] = {} /\ decided'[u] = decided[u] \cup {c}
      BY <1>1, <1>3, <2>1, <2>2
    <3> QED
      BY <1>1, <2>2, <3>1, NoneThenOne
  <2>3. CASE u # update
    BY <1>1, <1>3, <2>1, <2>3, MessagesAreNumbered
  <2> QED
    BY <2>2, <2>3
<1> QED
  BY <1>1, <1>3, <1>4, <1>5, <1>6, <1>7, <1>8

LEMMA ReadInVainStep == IInv /\ ReadInVain => IInv'
<1> SUFFICES ASSUME IInv, ReadInVain PROVE IInv'
  OBVIOUS
<1> USE DEF offsetVars, buyVars
<1>1. /\ pc = "read" /\ pc' = "batch" /\ audited' = audited \cup {update}
      /\ UNCHANGED <<sentCards, sent, offset, confirmed, decided, decisions, orders, positions,
                     queue, update, card, crashes>>
  BY DEF ReadInVain, Audit
<1>2. sent \in Nat /\ update \in 1..sent
  BY <1>1, MessagesAreNumbered DEF IInv, TypeOK
<1>3. TypeOK'
  BY <1>1, <1>2 DEF IInv, TypeOK, PCs
<1>4. (AnswersSentCard /\ CardInHand /\ QueueGoesOn)'
  BY <1>1 DEF IInv, AnswersSentCard, CardInHand, QueueGoesOn, Taken
<1>5. Handled = update - 1 /\ Handled' = update
  BY <1>1, <1>2 DEF Handled, Taken
<1>6. HandledIsAudited'
  BY <1>1, <1>2, <1>5 DEF IInv, HandledIsAudited
<1>7. (DecidedOnce /\ RepliesDecideOwnCard /\ BoughtHasPosition)'
  BY <1>1 DEF IInv, DecidedOnce, RepliesDecideOwnCard, BoughtHasPosition
<1>8. NothingRepeated'
  BY <1>1, <1>2, <1>5, MessagesAreNumbered DEF IInv, NothingRepeated, ReadableUpTo
<1> QED
  BY <1>3, <1>4, <1>6, <1>7, <1>8 DEF IInv

LEMMA ReadSkipStep == IInv /\ ReadSkip => IInv'
<1> SUFFICES ASSUME IInv, ReadSkip PROVE IInv'
  OBVIOUS
<1> USE DEF offsetVars, buyVars
<1>1. /\ pc = "read" /\ pc' = "batch"
      /\ UNCHANGED <<sentCards, sent, offset, confirmed, orders, positions, queue, update, card,
                     crashes>>
  BY DEF ReadSkip
<1>2. PICK c \in CardFor(Messages[update]) : decisions[c] = 0 /\ Decide(c)
  BY DEF ReadSkip
<1>3. sent \in Nat /\ update \in 1..sent /\ TypeOK /\ AnswersSentCard
  BY <1>1, MessagesAreNumbered DEF IInv, TypeOK
<1>4. c \in Cards /\ (Messages[update].to # NoCard => c = Messages[update].to)
  BY <1>2, <1>3, CardForIsCard
<1>5. /\ audited' \subseteq 1..sent
      /\ decided' \in [Updates -> SUBSET Cards] /\ decisions' \in [Cards -> Nat]
      /\ (HandledIsAudited /\ DecidedOnce /\ RepliesDecideOwnCard /\ NothingRepeated)'
  BY <1>1, <1>2, <1>4, DecideOnce
<1>6. TypeOK'
  BY <1>1, <1>5 DEF IInv, TypeOK, PCs
<1>7. (AnswersSentCard /\ CardInHand /\ QueueGoesOn /\ BoughtHasPosition)'
  BY <1>1 DEF IInv, AnswersSentCard, CardInHand, QueueGoesOn, Taken, BoughtHasPosition
<1> QED
  BY <1>5, <1>6, <1>7 DEF IInv

LEMMA ReadBuyStep == IInv /\ ReadBuy => IInv'
<1> SUFFICES ASSUME IInv, ReadBuy PROVE IInv'
  OBVIOUS
<1> USE DEF offsetVars, ledgerVars, buyVars
<1>1. /\ pc = "read" /\ pc' = "submit"
      /\ UNCHANGED <<sentCards, sent, offset, confirmed, audited, decided, decisions, orders,
                     positions, queue, update, crashes>>
  BY DEF ReadBuy
<1>2. card' \in CardFor(Messages[update]) /\ decisions[card'] = 0
  BY DEF ReadBuy
<1>3. sent \in Nat /\ update \in 1..sent /\ TypeOK /\ AnswersSentCard
  BY <1>1, MessagesAreNumbered DEF IInv, TypeOK
<1>4. /\ card' \in Cards /\ card' \in 1..sentCards
      /\ Messages[update].to # NoCard => card' = Messages[update].to
  BY <1>2, <1>3, CardForIsCard
<1>5. TypeOK'
  BY <1>1, <1>4, CardsAssumption DEF IInv, TypeOK, PCs
<1>6. (AnswersSentCard /\ CardInHand /\ QueueGoesOn /\ BoughtHasPosition)'
  BY <1>1, <1>2, <1>4 DEF IInv, AnswersSentCard, CardInHand, QueueGoesOn, Taken, BoughtHasPosition
<1>7. (DecidedOnce /\ RepliesDecideOwnCard /\ HandledIsAudited /\ NothingRepeated)'
  BY <1>1 DEF IInv, DecidedOnce, RepliesDecideOwnCard, HandledIsAudited, NothingRepeated,
              ReadableUpTo, Handled, Taken
<1> QED
  BY <1>5, <1>6, <1>7 DEF IInv

LEMMA SubmitStep == IInv /\ Submit => IInv'
<1> SUFFICES ASSUME IInv, Submit PROVE IInv'
  OBVIOUS
<1> USE DEF offsetVars, ledgerVars, buyVars
<1>1. /\ pc = "submit" /\ pc' \in {"create", "approve"}
      /\ UNCHANGED <<sentCards, sent, offset, confirmed, audited, decided, decisions,
                     positions, queue, update, card, crashes>>
  BY DEF Submit
<1>2. card \in Cards /\ orders \in [Cards -> {"none", "submitted", "blocked"}]
  BY <1>1 DEF IInv, TypeOK
<1>3. \/ pc' = "approve" /\ orders' = orders
      \/ pc' = "create" /\ orders[card] = "none" /\ orders' = [orders EXCEPT ![card] = "submitted"]
      \/ pc' = "approve" /\ orders[card] = "none" /\ orders' = [orders EXCEPT ![card] = "blocked"]
  BY DEF Submit
<1>4. TypeOK'
  BY <1>1, <1>2, <1>3 DEF IInv, TypeOK, PCs
<1>5. (AnswersSentCard /\ CardInHand /\ QueueGoesOn)'
  BY <1>1 DEF IInv, AnswersSentCard, CardInHand, QueueGoesOn, Taken
<1>6. (DecidedOnce /\ RepliesDecideOwnCard /\ HandledIsAudited /\ NothingRepeated)'
  BY <1>1 DEF IInv, DecidedOnce, RepliesDecideOwnCard, HandledIsAudited, NothingRepeated,
              ReadableUpTo, Handled, Taken
<1>7. BoughtHasPosition'
  BY <1>1, <1>2, <1>3 DEF IInv, TypeOK, BoughtHasPosition
<1> QED
  BY <1>4, <1>5, <1>6, <1>7 DEF IInv

LEMMA CreatePositionStep == IInv /\ CreatePosition => IInv'
<1> SUFFICES ASSUME IInv, CreatePosition PROVE IInv'
  OBVIOUS
<1> USE DEF CreatePosition, offsetVars, ledgerVars
<1>1. TypeOK'
  BY DEF IInv, TypeOK, PCs
<1>2. (AnswersSentCard /\ CardInHand /\ QueueGoesOn)'
  BY DEF IInv, AnswersSentCard, CardInHand, QueueGoesOn, Taken
<1>3. (DecidedOnce /\ RepliesDecideOwnCard /\ HandledIsAudited /\ NothingRepeated)'
  BY DEF IInv, DecidedOnce, RepliesDecideOwnCard, HandledIsAudited, NothingRepeated,
         ReadableUpTo, Handled, Taken
<1>4. BoughtHasPosition'
  BY DEF IInv, TypeOK, BoughtHasPosition
<1> QED
  BY <1>1, <1>2, <1>3, <1>4 DEF IInv

LEMMA ApproveStep == IInv /\ Approve => IInv'
<1> SUFFICES ASSUME IInv, Approve PROVE IInv'
  OBVIOUS
<1> USE DEF offsetVars, buyVars
<1>1. /\ pc = "approve" /\ pc' = "batch" /\ Decide(card) /\ card' = NoCard
      /\ UNCHANGED <<sentCards, sent, offset, confirmed, orders, positions, queue, update, crashes>>
  BY DEF Approve
<1>2. card \in Cards /\ decisions[card] = 0 /\ (Messages[update].to # NoCard => card = Messages[update].to)
  BY <1>1 DEF IInv, TypeOK, CardInHand
<1>3. /\ audited' \subseteq 1..sent
      /\ decided' \in [Updates -> SUBSET Cards] /\ decisions' \in [Cards -> Nat]
      /\ (HandledIsAudited /\ DecidedOnce /\ RepliesDecideOwnCard /\ NothingRepeated)'
  BY <1>1, <1>2, DecideOnce
<1>4. TypeOK'
  BY <1>1, <1>3, CardsAssumption DEF IInv, TypeOK, PCs, NoCard
<1>5. (AnswersSentCard /\ CardInHand /\ QueueGoesOn /\ BoughtHasPosition)'
  BY <1>1 DEF IInv, AnswersSentCard, CardInHand, QueueGoesOn, Taken, BoughtHasPosition
<1> QED
  BY <1>3, <1>4, <1>5 DEF IInv

-----------------------------------------------------------------------------
(* Crashes, and the theorems                                               *)

LEMMA CrashStep == IInv /\ Crash => IInv'
<1> SUFFICES ASSUME IInv, Crash PROVE IInv'
  OBVIOUS
<1> USE DEF ledgerVars, buyVars
<1>1. /\ pc # "idle" /\ pc' = "idle" /\ queue' = <<>> /\ update' = 0 /\ card' = NoCard
      /\ crashes' = crashes + 1 /\ crashes < MaxCrashes
      /\ UNCHANGED <<sentCards, sent, confirmed, audited, decided, decisions, orders, positions>>
  BY DEF Crash
<1>2. offset' = offset
  BY DEF Crash, IInv, QueueGoesOn
<1>3. /\ sent \in Nat /\ offset \in 0..sent /\ update \in 0..sent
      /\ update # 0 => offset < update
      /\ pc \notin {"idle", "batch"} => update \in 1..sent
      /\ crashes \in 0..MaxCrashes /\ crashes' \in 0..MaxCrashes /\ crashes' # 0
  BY <1>1, MessagesAreNumbered, CardsAssumption DEF IInv, TypeOK, QueueGoesOn
<1>4. TypeOK'
  BY <1>1, <1>2, <1>3, EmptySeq, CardsAssumption DEF IInv, TypeOK, PCs, NoCard
<1>5. (AnswersSentCard /\ CardInHand /\ QueueGoesOn)'
  BY <1>1, EmptySeq DEF IInv, AnswersSentCard, CardInHand, QueueGoesOn
<1>6. (DecidedOnce /\ RepliesDecideOwnCard)'
  BY <1>1 DEF IInv, DecidedOnce, RepliesDecideOwnCard
<1>7. HandledIsAudited'
  BY <1>1, <1>2, <1>3 DEF IInv, HandledIsAudited, Handled, Taken
<1>8. (NothingRepeated /\ BoughtHasPosition)'
  BY <1>1, <1>3 DEF IInv, NothingRepeated, BoughtHasPosition
<1> QED
  BY <1>4, <1>5, <1>6, <1>7, <1>8 DEF IInv

LEMMA StutterStep == IInv /\ UNCHANGED vars => IInv'
<1> SUFFICES ASSUME IInv, UNCHANGED vars PROVE IInv'
  OBVIOUS
<1> USE DEF vars, offsetVars, ledgerVars, buyVars
<1>1. (TypeOK /\ AnswersSentCard /\ QueueGoesOn /\ HandledIsAudited)'
  BY DEF IInv, TypeOK, AnswersSentCard, QueueGoesOn, HandledIsAudited, Handled, Taken
<1>2. (CardInHand /\ DecidedOnce /\ RepliesDecideOwnCard /\ NothingRepeated /\ BoughtHasPosition)'
  BY DEF IInv, CardInHand, DecidedOnce, RepliesDecideOwnCard, NothingRepeated, BoughtHasPosition,
         ReadableUpTo, Handled, Taken
<1> QED
  BY <1>1, <1>2 DEF IInv

LEMMA NextIInv == IInv /\ [Next]_vars => IInv'
BY SendCardStep, SendMessageStep, PollStep, TakeUpdateStep, SaveOffsetStep, PollFailsStep,
   ReadInVainStep, ReadSkipStep, ReadBuyStep, SubmitStep, CreatePositionStep, ApproveStep,
   CrashStep, StutterStep DEF Next, Bot, Process

\* What the invariant says of decisions, positions and the saved offset.
LEMMA IInvImplies ==
  IInv => TypeOK /\ DecidedOnce /\ OneCardPerMessage /\ PositionsAreBought /\ AcknowledgedIsAudited
<1> SUFFICES ASSUME IInv
             PROVE  TypeOK /\ DecidedOnce /\ OneCardPerMessage /\ PositionsAreBought /\ AcknowledgedIsAudited
  OBVIOUS
<1>1. TypeOK /\ DecidedOnce
  BY DEF IInv
<1>2. OneCardPerMessage
  BY DEF IInv, RepliesDecideOwnCard, NothingRepeated, OneCardPerMessage
<1>3. PositionsAreBought
  BY DEF IInv, CardInHand, BoughtHasPosition, PositionsAreBought
<1>4. AcknowledgedIsAudited
  <2>1. /\ sent \in Nat /\ offset \in 0..sent /\ update \in 0..sent /\ (update # 0 => offset < update)
        /\ pc \notin {"idle", "batch"} => update # 0
    BY MessagesAreNumbered DEF IInv, TypeOK, QueueGoesOn
  <2>2. Handled \in Nat /\ offset <= Handled
    BY <2>1 DEF Handled, Taken
  <2> QED
    BY <2>1, <2>2 DEF IInv, HandledIsAudited, AcknowledgedIsAudited
<1> QED
  BY <1>1, <1>2, <1>3, <1>4

LEMMA InvariantHolds == Spec => []IInv
<1>1. Init => IInv
  BY InitIInv
<1>2. IInv /\ [Next]_vars => IInv'
  BY NextIInv
<1> QED
  BY <1>1, <1>2, PTL DEF Spec

\* The bot knows its message and its card whenever it handles one, and never reads or
\* saves beyond what was sent (poll_once and process_approval_message).
THEOREM BotTypeCorrect == Spec => []TypeOK
BY InvariantHolds, IInvImplies, PTL

\* A card is approved or skipped at most once, for any messages and crashes.
THEOREM CardsAreDecidedOnce == Spec => []DecidedOnce
BY InvariantHolds, IInvImplies, PTL

\* A reply decides its own card only, and a message one card where no batch is repeated.
THEOREM MessagesDecideOneCard == Spec => []OneCardPerMessage
BY InvariantHolds, IInvImplies, PTL

\* Positions stand for submitted orders, and without a crash a bought card has its own.
THEOREM BoughtAndHeld == Spec => []PositionsAreBought
BY InvariantHolds, IInvImplies, PTL

\* An update below the saved offset has its row: a crash loses no reply.
THEOREM NoReplyIsLost == Spec => []AcknowledgedIsAudited
BY InvariantHolds, IInvImplies, PTL

-----------------------------------------------------------------------------
(* The loop and the reports of the day.                                    *)

\* No message of this report has got through, other than those without a row.
Fresh(r) == filed[r] \cap Delivered = {} /\ outcome[r] \notin Delivered

\* A message that got through is on its way to a row that settles the report, or counted
\* as unfiled.
Accounted(r) ==
  /\ IF step[r] = "sent" THEN outcome[r] \in Statuses ELSE outcome[r] = "none"
  /\ unfiled[r] <= slips
  /\ step[r] # "idle" => ~Settled(r)
  /\ \A c \in Chats : got[r][c] <= IF Fresh(r) THEN unfiled[r] ELSE 1 + unfiled[r]
  /\ ~Fresh(r) => Told(r)

ReportInv == ReportTypeOK /\ \A r \in Reports : Accounted(r)

LoopInv == LoopTypeOK /\ IInv /\ ReportInv

-----------------------------------------------------------------------------
(* The senders                                                             *)

\* A report that is not settled has no row that says it was delivered.
LEMMA UnsettledIsUndelivered == \A r \in Reports : ~Settled(r) => filed[r] \cap Delivered = {}
BY DEF Settled, Settling

\* What a step of one sender leaves alone stays accounted for.
LEMMA OthersAccounted ==
  ASSUME ReportInv, NEW r \in Reports, NEW s \in Reports, s # r,
         step'[s] = step[s], outcome'[s] = outcome[s], filed'[s] = filed[s],
         got'[s] = got[s], unfiled'[s] = unfiled[s], slips' \in {slips, slips + 1}
  PROVE  Accounted(s)'
<1>1. Settled(s)' = Settled(s) /\ Fresh(s)' = Fresh(s) /\ Told(s)' = Told(s)
  BY DEF Settled, Fresh, Told
<1>2. slips \in Nat /\ unfiled[s] \in Nat
  BY ReportsAssumption DEF ReportInv, ReportTypeOK
<1> QED
  BY <1>1, <1>2 DEF ReportInv, Accounted

LEMMA SendStep == \A r \in Reports : ReportInv /\ Send(r) => ReportInv'
<1> SUFFICES ASSUME NEW r \in Reports, ReportInv, Send(r) PROVE ReportInv'
  OBVIOUS
<1>1. PICK audience \in {Audience(r), {}}, reached \in SUBSET Audience(r) :
        /\ reached \subseteq audience
        /\ reached # Audience(r) => refusals < MaxRefusals
        /\ refusals' = IF reached = Audience(r) THEN refusals ELSE refusals + 1
        /\ outcome' = [outcome EXCEPT ![r] = DeliveryStatus(reached, audience)]
        /\ got' = [got EXCEPT ![r] = [c \in Chats |-> IF c \in reached THEN @[c] + 1 ELSE @[c]]]
  BY DEF Send
<1>2. /\ step[r] = "read" /\ step' = [step EXCEPT ![r] = "sent"]
      /\ UNCHANGED <<day, filed, unfiled, reviews, slips>>
  BY DEF Send
<1>3. /\ step \in [Reports -> {"idle", "read", "sent"}]
      /\ outcome \in [Reports -> Statuses \cup {"none"}]
      /\ got \in [Reports -> [Chats -> Nat]] /\ unfiled \in [Reports -> Nat]
      /\ unfiled \in [Reports -> 0..MaxSlips] /\ refusals \in 0..MaxRefusals
  BY ReportsAssumption DEF ReportInv, ReportTypeOK
<1>4. Audience(r) \subseteq Chats
  BY DEF Audience, Chats
<1>5. DeliveryStatus(reached, audience) \in Statuses
      /\ (DeliveryStatus(reached, audience) \in Delivered <=> reached # {})
  BY <1>1 DEF DeliveryStatus, Statuses, Delivered
<1>6. outcome'[r] = DeliveryStatus(reached, audience) /\ step'[r] = "sent"
  BY <1>1, <1>2, <1>3
<1>7. \A c \in Chats : got'[r][c] = IF c \in reached THEN got[r][c] + 1 ELSE got[r][c]
  BY <1>1, <1>3
<1>8. got' \in [Reports -> [Chats -> Nat]]
  <2>1. got[r] \in [Chats -> Nat]
    BY <1>3
  <2>2. [c \in Chats |-> IF c \in reached THEN got[r][c] + 1 ELSE got[r][c]] \in [Chats -> Nat]
    BY <2>1
  <2> QED
    BY <1>1, <1>3, <2>2
<1>9. ReportTypeOK'
  <2>1. refusals' \in 0..MaxRefusals
    BY <1>1, <1>3, ReportsAssumption
  <2>2. outcome' \in [Reports -> Statuses \cup {"none"}] /\ step' \in [Reports -> {"idle", "read", "sent"}]
    BY <1>1, <1>2, <1>3, <1>5
  <2> QED
    BY <1>2, <1>8, <2>1, <2>2 DEF ReportInv, ReportTypeOK
<1>10. Accounted(r)'
  <2>1. ~Settled(r) /\ ~Settled(r)' /\ Accounted(r)
    BY <1>2 DEF ReportInv, Accounted, Settled
  <2>a. Fresh(r)
    BY <1>2, <2>1, UnsettledIsUndelivered DEF Accounted, Fresh, Delivered
  <2>2. Fresh(r)' <=> reached = {}
    BY <1>2, <1>5, <1>6, <2>a DEF Fresh
  <2>3. \A c \in Chats : got[r][c] \in Nat /\ got[r][c] <= unfiled[r]
    BY <1>3, <2>1, <2>a DEF Accounted
  <2>4. unfiled[r] \in Nat /\ unfiled'[r] = unfiled[r]
    BY <1>2, <1>3
  <2>5. \A c \in Chats : got'[r][c] <= IF Fresh(r)' THEN unfiled'[r] ELSE 1 + unfiled'[r]
    BY <1>7, <2>2, <2>3, <2>4
  <2>6. ~Fresh(r)' => Told(r)'
    BY <1>4, <1>7, <2>2, <2>3 DEF Told
  <2> QED
    BY <1>2, <1>5, <1>6, <2>1, <2>5, <2>6 DEF Accounted
<1>11. \A s \in Reports : s # r => Accounted(s)'
  BY <1>1, <1>2, <1>3, OthersAccounted
<1> QED
  BY <1>9, <1>10, <1>11 DEF ReportInv

LEMMA FileStep == \A r \in Reports : ReportInv /\ File(r) => ReportInv'
<1> SUFFICES ASSUME NEW r \in Reports, ReportInv, File(r) PROVE ReportInv'
  OBVIOUS
<1>1. /\ step[r] = "sent" /\ filed' = [filed EXCEPT ![r] = @ \cup {outcome[r]}]
      /\ step' = [step EXCEPT ![r] = "idle"] /\ outcome' = [outcome EXCEPT ![r] = "none"]
      /\ UNCHANGED <<day, got, unfiled, reviews, refusals, slips>>
  BY DEF File
<1>2. /\ step \in [Reports -> {"idle", "read", "sent"}]
      /\ outcome \in [Reports -> Statuses \cup {"none"}]
      /\ filed \in [Reports -> SUBSET Statuses]
  BY DEF ReportInv, ReportTypeOK
<1>3. outcome[r] \in Statuses /\ ~Settled(r) /\ Accounted(r)
  BY <1>1 DEF ReportInv, Accounted
<1>4. ReportTypeOK'
  BY <1>1, <1>2, <1>3 DEF ReportInv, ReportTypeOK
<1>5. step'[r] = "idle" /\ filed'[r] = filed[r] \cup {outcome[r]} /\ outcome'[r] = "none"
  BY <1>1, <1>2
<1>6. Fresh(r)' <=> Fresh(r)
  BY <1>5 DEF Fresh, Delivered
<1>8. Accounted(r)'
  BY <1>1, <1>3, <1>5, <1>6 DEF Accounted, Told
<1>9. \A s \in Reports : s # r => Accounted(s)'
  BY <1>1, <1>2, OthersAccounted
<1> QED
  BY <1>4, <1>8, <1>9 DEF ReportInv

\* A sender that ends without the row of its message leaves one more unfiled.
LEMMA UnfiledStep ==
  ASSUME ReportInv, NEW r \in Reports, step[r] # "idle", Unfiled(r),
         filed' = filed \/ filed' = [filed EXCEPT ![r] = @ \cup {"send_failed"}],
         UNCHANGED <<day, got, reviews, refusals>>
  PROVE  ReportInv'
<1>1. /\ slips < MaxSlips /\ slips' = slips + 1
      /\ unfiled' = IF outcome[r] \in Delivered THEN [unfiled EXCEPT ![r] = @ + 1] ELSE unfiled
      /\ step' = [step EXCEPT ![r] = "idle"] /\ outcome' = [outcome EXCEPT ![r] = "none"]
  BY DEF Unfiled
<1>2. /\ step \in [Reports -> {"idle", "read", "sent"}]
      /\ outcome \in [Reports -> Statuses \cup {"none"}]
      /\ filed \in [Reports -> SUBSET Statuses]
      /\ got \in [Reports -> [Chats -> Nat]] /\ unfiled \in [Reports -> 0..MaxSlips]
      /\ slips \in 0..MaxSlips /\ MaxSlips \in Nat
  BY ReportsAssumption DEF ReportInv, ReportTypeOK
<1>3. ~Settled(r) /\ Accounted(r)
  BY DEF ReportInv, Accounted
<1>4. unfiled'[r] = (IF outcome[r] \in Delivered THEN unfiled[r] + 1 ELSE unfiled[r]) /\ unfiled[r] \in Nat
  BY <1>1, <1>2
<1>5. slips' \in 0..MaxSlips /\ unfiled'[r] \in 0..slips'
  BY <1>1, <1>2, <1>3, <1>4 DEF Accounted
<1>6. filed' \in [Reports -> SUBSET Statuses] /\ filed'[r] \in {filed[r], filed[r] \cup {"send_failed"}}
  BY <1>2 DEF Statuses
<1>7. ReportTypeOK'
  <2>1. unfiled' \in [Reports -> 0..MaxSlips]
    BY <1>1, <1>2, <1>4, <1>5
  <2> QED
    BY <1>1, <1>2, <1>5, <1>6, <2>1 DEF ReportInv, ReportTypeOK
<1>8. Accounted(r)'
  <2>1. step'[r] = "idle" /\ outcome'[r] = "none"
    BY <1>1, <1>2
  <2>2. filed[r] \cap Delivered = {}
    BY <1>3, UnsettledIsUndelivered
  <2>3. Fresh(r)'
    BY <1>6, <2>1, <2>2 DEF Fresh, Delivered
  <2>4. \A c \in Chats : got[r][c] \in Nat /\ got[r][c] <= unfiled'[r]
    BY <1>2, <1>3, <1>4, <2>2 DEF Accounted, Fresh
  <2> QED
    BY <1>2, <1>5, <2>1, <2>2, <2>3, <2>4 DEF Accounted
<1>9. \A s \in Reports : s # r => Accounted(s)'
  BY <1>1, <1>2, OthersAccounted
<1> QED
  BY <1>7, <1>8, <1>9 DEF ReportInv

LEMMA DeliverStep == \A r \in Reports : ReportInv /\ (Deliver(r) \/ KillSender(r)) => ReportInv'
<1> SUFFICES ASSUME NEW r \in Reports, ReportInv, Deliver(r) \/ KillSender(r) PROVE ReportInv'
  OBVIOUS
<1>1. CASE Send(r)
  BY <1>1, SendStep
<1>2. CASE File(r)
  BY <1>2, FileStep
<1>3. CASE FileFails(r)
  BY <1>3, UnfiledStep DEF FileFails
<1>4. CASE KillSender(r)
  BY <1>4, UnfiledStep DEF KillSender
<1> QED
  BY <1>1, <1>2, <1>3, <1>4 DEF Deliver

\* A sender starts only where its report is not settled.
LEMMA StartStep == ReportInv /\ (StartPl \/ StartNightly) => ReportInv'
<1> SUFFICES ASSUME ReportInv, StartPl \/ StartNightly PROVE ReportInv'
  OBVIOUS
<1>1. PICK r \in Reports :
        /\ step[r] = "idle"
        /\ step' \in {step, [step EXCEPT ![r] = "idle"], [step EXCEPT ![r] = "read"]}
        /\ step'[r] # "idle" => ~Settled(r)
  <2>1. step \in [Reports -> {"idle", "read", "sent"}] /\ {"pl", "nightly"} \subseteq Reports
    BY DEF ReportInv, ReportTypeOK, Reports
  <2> QED
    BY <2>1 DEF StartPl, PlWanted, StartNightly
<1>2. UNCHANGED <<day, outcome, filed, got, unfiled, refusals, slips>>
  BY DEF StartPl, StartNightly
<1>3. step \in [Reports -> {"idle", "read", "sent"}] /\ slips \in Nat
  BY ReportsAssumption DEF ReportInv, ReportTypeOK
<1>4. step' \in [Reports -> {"idle", "read", "sent"}] /\ step'[r] \in {"idle", "read"}
  BY <1>1, <1>3
<1>5. reviews' \in 0..MaxReviews
  BY ReportsAssumption DEF ReportInv, ReportTypeOK, StartPl, StartNightly
<1>6. ReportTypeOK'
  BY <1>2, <1>4, <1>5 DEF ReportInv, ReportTypeOK
<1>7. Accounted(r)'
  <2>1. Accounted(r) /\ Settled(r)' = Settled(r) /\ Told(r)' = Told(r)
    BY <1>2 DEF ReportInv, Settled, Told
  <2>2. Fresh(r)' = Fresh(r)
    BY <1>2 DEF Fresh
  <2> QED
    BY <1>1, <1>2, <1>4, <2>1, <2>2 DEF Accounted
<1>8. \A s \in Reports : s # r => Accounted(s)'
  <2>1. \A s \in Reports : s # r => step'[s] = step[s]
    BY <1>1, <1>3
  <2> QED
    BY <1>2, <2>1, OthersAccounted
<1> QED
  BY <1>6, <1>7, <1>8 DEF ReportInv

LEMMA DayStep == ReportInv /\ DayGoesOn => ReportInv'
<1> SUFFICES ASSUME ReportInv, DayGoesOn PROVE ReportInv'
  OBVIOUS
<1> USE DEF DayGoesOn
<1>1. ReportTypeOK'
  BY DEF ReportInv, ReportTypeOK
<1>2. \A r \in Reports : Accounted(r)'
  BY DEF ReportInv, Accounted, Fresh, Settled, Told
<1> QED
  BY <1>1, <1>2 DEF ReportInv

LEMMA ReportsStay == ReportInv /\ UNCHANGED reportVars => ReportInv'
<1> SUFFICES ASSUME ReportInv, UNCHANGED reportVars PROVE ReportInv'
  OBVIOUS
<1> USE DEF reportVars
<1>1. ReportTypeOK'
  BY DEF ReportInv, ReportTypeOK
<1>2. \A r \in Reports : Accounted(r)'
  BY DEF ReportInv, Accounted, Fresh, Settled, Told
<1> QED
  BY <1>1, <1>2 DEF ReportInv

-----------------------------------------------------------------------------
(* The loop                                                                *)

LEMMA InitLoopInv == LoopInit => LoopInv
<1> SUFFICES ASSUME LoopInit PROVE LoopInv
  OBVIOUS
<1>1. IInv /\ TypeOK /\ pc = "idle"
  BY InitIInv DEF LoopInit, Init, IInv
<1>2. ReportTypeOK
  BY ReportsAssumption DEF LoopInit, ReportInit, ReportTypeOK
<1>3. \A r \in Reports : Accounted(r)
  BY DEF LoopInit, ReportInit, Accounted, Fresh, Delivered
<1>4. step["pl"] = "idle"
  BY DEF LoopInit, ReportInit, Reports
<1> QED
  BY <1>1, <1>2, <1>3, <1>4, LoopAssumption DEF LoopInit, LoopInv, LoopTypeOK, ReportInv, Turns

\* Every step is one of the bot or leaves it alone, and the bot has something under way
\* only while it is its turn.
LEMMA BotSteps ==
  ASSUME LoopInv, [LoopNext]_allVars
  PROVE  IInv' /\ (pc' # "idle" => turn' = "replies")
<1> USE DEF LoopInv, LoopTypeOK
<1>1. CASE UNCHANGED botVars /\ (turn' = turn \/ turn # "replies" \/ pc = "idle")
  <2>1. UNCHANGED vars /\ pc' = pc
    BY <1>1 DEF botVars, vars
  <2> QED
    BY <1>1, <2>1, NextIInv
<1>2. CASE ReadReplies
  BY <1>2, NextIInv DEF ReadReplies, loopVars, Next, Bot
<1>3. CASE EndReplies
  <2>1. Next /\ pc' = "idle"
    BY <1>3 DEF EndReplies, Next, Bot, SaveOffset, PollFails
  <2> QED
    BY <2>1, NextIInv
<1>4. CASE Crash
  <2>1. Next /\ pc' = "idle"
    BY <1>4 DEF Next, Crash
  <2> QED
    BY <2>1, NextIInv
<1>5. CASE (SendCard \/ SendMessage) /\ UNCHANGED loopVars
  <2>1. Next /\ pc' = pc /\ turn' = turn
    BY <1>5 DEF Next, SendCard, SendMessage, loopVars
  <2> QED
    BY <2>1, NextIInv
<1>6. CASE KillReport
  <2>1. turn = "report"
    BY <1>6 DEF KillReport, KillSender
  <2> QED
    BY <1>1, <1>6, <2>1 DEF KillReport
<1>7. Start \/ CaptureAndRoute \/ NoReplies \/ TrackAndWatch \/ EndReport \/ Heartbeat \/ KillBetween
        => UNCHANGED botVars /\ (turn # "replies" \/ pc = "idle")
  BY DEF Start, CaptureAndRoute, NoReplies, TrackAndWatch, EndReport, Heartbeat, KillBetween
<1>8. BeginPl \/ DeliverPl \/ TearLine \/ MendLine \/ Nightly \/ UNCHANGED allVars
        => UNCHANGED botVars /\ turn' = turn
  BY DEF BeginPl, DeliverPl, TearLine, MendLine, Nightly, allVars, loopVars
<1>9. DayGoesOn /\ UNCHANGED <<botVars, loopVars>> => UNCHANGED botVars /\ turn' = turn
  BY DEF loopVars
<1> QED
  BY <1>1, <1>2, <1>3, <1>4, <1>5, <1>6, <1>7, <1>8, <1>9
     DEF LoopNext, Pass, KillLoop, Outside

\* Every step is one of a sender or leaves the reports alone, and the P/L is under way only
\* while it is its turn.
LEMMA ReportSteps ==
  ASSUME LoopInv, [LoopNext]_allVars
  PROVE  ReportInv' /\ (step'["pl"] # "idle" => turn' = "report")
<1> USE DEF LoopInv, LoopTypeOK
<1>1. "pl" \in Reports /\ "nightly" \in Reports /\ step \in [Reports -> {"idle", "read", "sent"}]
  BY DEF Reports, ReportInv, ReportTypeOK
<1>2. CASE UNCHANGED reportVars /\ (turn' = turn \/ turn # "report" \/ step["pl"] = "idle")
  BY <1>2, ReportsStay DEF reportVars
<1>3. CASE BeginPl
  BY <1>3, StartStep DEF BeginPl, loopVars
<1>4. CASE DeliverPl
  BY <1>1, <1>4, DeliverStep DEF DeliverPl, loopVars
<1>5. CASE KillReport
  <2>1. step'["pl"] = "idle" /\ KillSender("pl")
    BY <1>1, <1>5 DEF KillReport, KillSender, Unfiled
  <2> QED
    BY <1>1, <1>5, <2>1, DeliverStep
<1>6. CASE Nightly
  <2>1. ReportInv'
    BY <1>1, <1>6, StartStep, DeliverStep DEF Nightly
  <2>2. step'["pl"] = step["pl"] /\ turn' = turn
    BY <1>1, <1>6 DEF Nightly, StartNightly, Deliver, Send, File, FileFails, KillSender, Unfiled, loopVars
  <2> QED
    BY <2>1, <2>2
<1>7. CASE DayGoesOn /\ UNCHANGED <<botVars, loopVars>>
  BY <1>7, DayStep DEF DayGoesOn, loopVars
<1>8. CASE Crash /\ UNCHANGED reportVars
  <2>1. turn = "replies"
    BY <1>8 DEF Crash
  <2> QED
    BY <1>2, <1>8, <2>1
<1>9. Start \/ CaptureAndRoute \/ EndReplies \/ NoReplies \/ TrackAndWatch \/ EndReport
        \/ Heartbeat \/ KillBetween
        => UNCHANGED reportVars /\ (turn # "report" \/ step["pl"] = "idle")
  BY DEF Start, CaptureAndRoute, EndReplies, NoReplies, TrackAndWatch, EndReport, Heartbeat, KillBetween
<1>10. ReadReplies \/ TearLine \/ MendLine \/ UNCHANGED allVars \/ UNCHANGED <<reportVars, loopVars>>
         => UNCHANGED reportVars /\ turn' = turn
  BY DEF ReadReplies, TearLine, MendLine, allVars, loopVars
<1>11. CASE Pass
  BY <1>2, <1>3, <1>4, <1>9, <1>10, <1>11 DEF Pass
<1>12. CASE KillLoop
  BY <1>2, <1>5, <1>8, <1>9, <1>12 DEF KillLoop
<1>13. CASE Outside
  BY <1>2, <1>7, <1>10, <1>13 DEF Outside
<1> QED
  BY <1>2, <1>6, <1>10, <1>11, <1>12, <1>13 DEF LoopNext

LEMMA NextLoopInv == LoopInv /\ [LoopNext]_allVars => LoopInv'
<1> SUFFICES ASSUME LoopInv, [LoopNext]_allVars PROVE LoopInv'
  OBVIOUS
<1>1. IInv' /\ (pc' # "idle" => turn' = "replies")
  BY BotSteps
<1>2. ReportInv' /\ (step'["pl"] # "idle" => turn' = "report")
  BY ReportSteps
<1>3. turn' \in Turns /\ torn' \subseteq Ledgers /\ faults' \in 0..MaxFaults
  <2> USE LoopAssumption DEF LoopInv, LoopTypeOK, Turns, Ledgers
  <2>1. CASE Pass
    BY <2>1 DEF Pass, Start, CaptureAndRoute, ReadReplies, EndReplies, NoReplies,
                TrackAndWatch, BeginPl, DeliverPl, EndReport, Heartbeat, loopVars
  <2>2. CASE KillLoop
    BY <2>2 DEF KillLoop, KillReport, KillBetween
  <2>3. CASE Outside \/ Nightly \/ UNCHANGED allVars
    BY <2>3 DEF Outside, TearLine, MendLine, Nightly, loopVars, allVars
  <2> QED
    BY <2>1, <2>2, <2>3 DEF LoopNext
<1> QED
  BY <1>1, <1>2, <1>3 DEF LoopInv, LoopTypeOK, IInv, ReportInv

LEMMA LoopInvariant == LoopSpec => []LoopInv
<1>1. LoopInit => LoopInv
  BY InitLoopInv
<1>2. LoopInv /\ [LoopNext]_allVars => LoopInv'
  BY NextLoopInv
<1> QED
  BY <1>1, <1>2, PTL DEF LoopSpec

\* What the invariant says of the reports.
LEMMA AccountedImplies == LoopInv => LoopTypeOK /\ ToldOnce /\ SettledWasTold
<1> SUFFICES ASSUME LoopInv PROVE LoopTypeOK /\ ToldOnce /\ SettledWasTold
  OBVIOUS
<1>1. \A r \in Reports : Accounted(r) /\ unfiled[r] \in Nat /\ \A c \in Chats : got[r][c] \in Nat
  BY ReportsAssumption DEF LoopInv, ReportInv, ReportTypeOK
<1>2. ToldOnce
  BY <1>1 DEF ToldOnce, Accounted
<1>3. SettledWasTold
  <2>1. \A r \in Reports : filed[r] \cap Delivered # {} => Told(r)
    BY <1>1 DEF Accounted, Fresh
  <2>2. Settled("nightly") => filed["nightly"] \cap Delivered # {}
    BY DEF Settled, Settling
  <2>3. Settled("pl") => filed["pl"] \cap Delivered # {} \/ "telegram_disabled" \in filed["pl"]
    BY DEF Settled, Settling
  <2> QED
    BY <2>1, <2>2, <2>3 DEF SettledWasTold, Reports
<1> QED
  BY <1>2, <1>3 DEF LoopInv

-----------------------------------------------------------------------------

\* Only the task whose turn it is has anything under way (run_live_pipeline.py), for any
\* chats, cards, messages and bounds.
THEOREM LoopTypeCorrect == LoopSpec => []LoopTypeOK
BY LoopInvariant, AccountedImplies, PTL

\* No chat gets a report again but for messages whose row was not written: the P/L of the
\* loop and the nightly review settle on the rows they wrote themselves.
THEOREM ReportsAreToldOnce == LoopSpec => []ToldOnce
BY LoopInvariant, AccountedImplies, PTL

\* A report that counts as told has reached somebody, or is the P/L filed as having nobody
\* to be sent to.
THEOREM SettledReportsWereTold == LoopSpec => []SettledWasTold
BY LoopInvariant, AccountedImplies, PTL

\* The loop runs the bot as ApprovalBot has it: what was proved of the bot holds in it.
THEOREM LoopRunsTheBot == LoopSpec => Spec
<1>1. LoopInit => Init
  BY DEF LoopInit
<1>2. [LoopNext]_allVars => [Next]_vars
  <2> SUFFICES ASSUME [LoopNext]_allVars PROVE Next \/ UNCHANGED vars
    OBVIOUS
  <2>1. ReadReplies \/ EndReplies \/ Crash \/ SendCard \/ SendMessage => Next
    BY DEF ReadReplies, EndReplies, Next, Bot
  <2>2. Start \/ CaptureAndRoute \/ NoReplies \/ TrackAndWatch \/ EndReport \/ Heartbeat
          \/ BeginPl \/ DeliverPl \/ KillReport \/ KillBetween \/ TearLine \/ MendLine \/ Nightly
          \/ UNCHANGED allVars => UNCHANGED vars
    BY DEF Start, CaptureAndRoute, NoReplies, TrackAndWatch, EndReport, Heartbeat, BeginPl, DeliverPl,
           KillReport, KillBetween, TearLine, MendLine, Nightly, allVars, botVars, vars
  <2>3. CASE Pass
    BY <2>1, <2>2, <2>3 DEF Pass
  <2>4. CASE KillLoop
    BY <2>1, <2>2, <2>4 DEF KillLoop
  <2>5. CASE Outside
    BY <2>1, <2>2, <2>5 DEF Outside, botVars, vars
  <2>6. CASE Nightly \/ UNCHANGED allVars
    BY <2>2, <2>6
  <2> QED
    BY <2>3, <2>4, <2>5, <2>6 DEF LoopNext
<1> QED
  BY <1>1, <1>2, PTL DEF LoopSpec, Spec

\* A report is told once, and counts as told only if it was or, the P/L, has nobody to be
\* told to, for any chats (none among them) and faults.
THEOREM ReportsOfTheDayAreTold == LoopSpec => []ReportsAreTold
<1>1. ToldOnce /\ SettledWasTold => ReportsAreTold
  BY DEF ReportsAreTold
<1> QED
  BY <1>1, ReportsAreToldOnce, SettledReportsWereTold, PTL

=============================================================================
