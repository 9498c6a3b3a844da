------------------------- MODULE EntryRouting_proofs -------------------------
(***************************************************************************)
(* Proofs about EntryRouting, for any processes, captures and faults: what *)
(* becomes of a capture, and that what two processes do to an alert they   *)
(* do not have in hand at the same time implements EntryOnce.              *)
(***************************************************************************)
EXTENDS EntryRouting, FiniteSetTheorems, SequenceTheorems, TLAPS

\* What is handled, carded, ordered and recorded are fresh captures.
FreshOnly ==
  /\ raw \in [Workers -> (Raws \ Stale) \cup {NoRaw}]
  /\ order \in [Workers -> (Raws \ Stale) \cup {NoRaw}]
  /\ cards \in [Entries -> (Raws \ Stale) \cup {NoRaw}]
  /\ positions \in [Entries -> Seq(Raws \ Stale)]
  /\ StaleNeverBought

\* A raw about to be marked has its action, its card or its error row.
MarkedIsRouted ==
  \A p \in Workers : pc[p] = "mark" =>
    raw[p] \in errors \/ Entry(p) \in autoDone \/ cards[Entry(p)] # NoRaw

IInv == TypeOK /\ FreshOnly /\ RoutedOrLogged /\ MarkedIsRouted

-----------------------------------------------------------------------------
(* Any number of processes                                                 *)

LEMMA KeysAreFresh ==
  ASSUME IInv, NEW r \in Raws \ Stale
  PROVE  EntryOf[r] \in Entries /\ OrderKey(r) \in Raws \ Stale
<1>1. EntryOf[r] \in Entries
  BY RawsAssumption
<1>2. positions[EntryOf[r]] \in Seq(Raws \ Stale)
  BY <1>1 DEF IInv, FreshOnly
<1>3. positions[EntryOf[r]] # <<>> => Head(positions[EntryOf[r]]) \in Raws \ Stale
  BY <1>2, HeadTailProperties
<1> QED
  BY <1>1, <1>3 DEF OrderKey

LEMMA InitIInv == Init => IInv
<1> SUFFICES ASSUME Init PROVE IInv
  OBVIOUS
<1> USE DEF Init
<1>1. <<>> \in Seq(Raws) /\ <<>> \in Seq(Raws \ Stale)
  BY EmptySeq
<1>2. TypeOK
  BY <1>1, FaultAssumption DEF TypeOK, PCs, ForWhom
<1>3. FreshOnly
  BY <1>1, RawsAssumption DEF FreshOnly, StaleNeverBought
<1>4. RoutedOrLogged /\ MarkedIsRouted
  BY DEF RoutedOrLogged, MarkedIsRouted
<1> QED
  BY <1>2, <1>3, <1>4 DEF IInv

LEMMA CaptureStep == \A r \in Raws : IInv /\ Capture(r) => IInv'
<1> SUFFICES ASSUME NEW r \in Raws, IInv, Capture(r) PROVE IInv'
  OBVIOUS
<1> USE DEF Capture, shadowVars, doneVars, buyVars, procVars, faultVars
<1>1. file' \in Seq(Raws)
  BY AppendProperties DEF IInv, TypeOK
<1>2. TypeOK'
  BY <1>1 DEF IInv, TypeOK
<1>3. (FreshOnly /\ RoutedOrLogged /\ MarkedIsRouted)'
  BY DEF IInv, FreshOnly, StaleNeverBought, RoutedOrLogged, MarkedIsRouted, Entry
<1> QED
  BY <1>2, <1>3 DEF IInv

LEMMA StartBatchStep == \A p \in Workers : IInv /\ StartBatch(p) => IInv'
<1> SUFFICES ASSUME NEW p \in Workers, IInv, StartBatch(p) PROVE IInv'
  OBVIOUS
<1> USE DEF StartBatch, Unseen, Goto, rawVars, shadowVars, doneVars, buyVars, procVars, faultVars
<1>1. TypeOK'
  <2>1. Unseen \subseteq Raws
    BY ElementOfSeq, LenProperties DEF IInv, TypeOK
  <2>2. batch' \in [Workers -> SUBSET Raws] /\ pc' \in [Workers -> PCs]
    BY <2>1 DEF IInv, TypeOK, PCs
  <2> QED
    BY <2>2 DEF IInv, TypeOK
<1>2. FreshOnly'
  BY RawsAssumption, KeysAreFresh DEF IInv, TypeOK, FreshOnly, StaleNeverBought
<1>3. (RoutedOrLogged /\ MarkedIsRouted)'
  BY RawsAssumption DEF IInv, TypeOK, RoutedOrLogged, MarkedIsRouted, Entry
<1> QED
  BY <1>1, <1>2, <1>3 DEF IInv

LEMMA TakeStaleStep == \A p \in Workers : IInv /\ TakeStale(p) => IInv'
<1> SUFFICES ASSUME NEW p \in Workers, IInv, TakeStale(p) PROVE IInv'
  OBVIOUS
<1> USE DEF TakeStale, IsFirst, Goto, rawVars, shadowVars, doneVars, buyVars, procVars, faultVars
<1>1. TypeOK'
  <2>1. batch' \in [Workers -> SUBSET Raws]
    BY DEF IInv, TypeOK
  <2>2. processed' \subseteq Raws
    BY RawsAssumption DEF IInv, TypeOK
  <2> QED
    BY <2>1, <2>2 DEF IInv, TypeOK
<1>2. FreshOnly'
  BY RawsAssumption, KeysAreFresh DEF IInv, TypeOK, FreshOnly, StaleNeverBought
<1>3. (RoutedOrLogged /\ MarkedIsRouted)'
  BY RawsAssumption DEF IInv, TypeOK, RoutedOrLogged, MarkedIsRouted, Entry
<1> QED
  BY <1>1, <1>2, <1>3 DEF IInv

LEMMA TakeFreshStep == \A p \in Workers : IInv /\ TakeFresh(p) => IInv'
<1> SUFFICES ASSUME NEW p \in Workers, IInv, TakeFresh(p) PROVE IInv'
  OBVIOUS
<1> USE DEF TakeFresh, IsFirst, Goto, Share, rawVars, shadowVars, doneVars, buyVars, procVars, faultVars
<1>1. TypeOK'
  <2>1. PICK r \in Raws \ Stale : /\ raw' = [raw EXCEPT ![p] = r]
                                 /\ batch' = [batch EXCEPT ![p] = @ \ {r}]
                                 /\ Share(p, EntryOf[r])
    OBVIOUS
  <2>2. batch' \in [Workers -> SUBSET Raws] /\ pc' \in [Workers -> PCs] /\ for' \in [Workers -> ForWhom]
    BY <2>1 DEF IInv, TypeOK, PCs, ForWhom
  <2>3. /\ raw' \in [Workers -> Raws \cup {NoRaw}]
        /\ \A q \in Workers : pc'[q] \notin {"idle", "replies", "next"} => raw'[q] \in Raws
        /\ \A q \in Workers : pc'[q] \in {"submit", "create", "write"} => order[q] \in Raws
    BY <2>1 DEF IInv, TypeOK
  <2>4. shared' \subseteq Entries
    BY <2>1, RawsAssumption DEF IInv, TypeOK
  <2> QED
    BY <2>2, <2>3, <2>4 DEF IInv, TypeOK
<1>2. FreshOnly'
  <2>1. PICK r \in Raws \ Stale : raw' = [raw EXCEPT ![p] = r]
    OBVIOUS
  <2> QED
    BY <2>1 DEF IInv, FreshOnly, StaleNeverBought
<1>3. (RoutedOrLogged /\ MarkedIsRouted)'
  BY RawsAssumption DEF IInv, TypeOK, RoutedOrLogged, MarkedIsRouted, Entry
<1> QED
  BY <1>1, <1>2, <1>3 DEF IInv

LEMMA HandlerFailsStep == \A p \in Workers : IInv /\ HandlerFails(p) => IInv'
<1> SUFFICES ASSUME NEW p \in Workers, IInv, HandlerFails(p) PROVE IInv'
  OBVIOUS
<1> USE DEF HandlerFails, Goto, rawVars, shadowVars, doneVars, buyVars, procVars, faultVars
<1>1. TypeOK'
  BY RawsAssumption, FaultAssumption, KeysAreFresh DEF IInv, TypeOK, FreshOnly, PCs, ForWhom, Entry
<1>2. FreshOnly'
  BY RawsAssumption, KeysAreFresh DEF IInv, TypeOK, FreshOnly, StaleNeverBought
<1>3. (RoutedOrLogged /\ MarkedIsRouted)'
  BY RawsAssumption DEF IInv, TypeOK, RoutedOrLogged, MarkedIsRouted, Entry
<1> QED
  BY <1>1, <1>2, <1>3 DEF IInv

LEMMA MarkProcessedStep == \A p \in Workers : IInv /\ MarkProcessed(p) => IInv'
<1> SUFFICES ASSUME NEW p \in Workers, IInv, MarkProcessed(p) PROVE IInv'
  OBVIOUS
<1> USE DEF MarkProcessed, Goto, rawVars, shadowVars, doneVars, buyVars, procVars, faultVars
<1>1. TypeOK'
  BY RawsAssumption, FaultAssumption, KeysAreFresh DEF IInv, TypeOK, FreshOnly, PCs, ForWhom, Entry
<1>2. FreshOnly'
  BY RawsAssumption, KeysAreFresh DEF IInv, TypeOK, FreshOnly, StaleNeverBought
<1>3. (RoutedOrLogged /\ MarkedIsRouted)'
  BY RawsAssumption DEF IInv, TypeOK, RoutedOrLogged, MarkedIsRouted, Entry
<1> QED
  BY <1>1, <1>2, <1>3 DEF IInv

LEMMA EndBatchStep == \A p \in Workers : IInv /\ EndBatch(p) => IInv'
<1> SUFFICES ASSUME NEW p \in Workers, IInv, EndBatch(p) PROVE IInv'
  OBVIOUS
<1> USE DEF EndBatch, Goto, rawVars, shadowVars, doneVars, buyVars, procVars, faultVars
<1>1. TypeOK'
  BY RawsAssumption, FaultAssumption, KeysAreFresh DEF IInv, TypeOK, FreshOnly, PCs, ForWhom, Entry
<1>2. FreshOnly'
  BY RawsAssumption, KeysAreFresh DEF IInv, TypeOK, FreshOnly, StaleNeverBought
<1>3. (RoutedOrLogged /\ MarkedIsRouted)'
  BY RawsAssumption DEF IInv, TypeOK, RoutedOrLogged, MarkedIsRouted, Entry
<1> QED
  BY <1>1, <1>2, <1>3 DEF IInv

LEMMA EndRepliesStep == \A p \in Workers : IInv /\ EndReplies(p) => IInv'
<1> SUFFICES ASSUME NEW p \in Workers, IInv, EndReplies(p) PROVE IInv'
  OBVIOUS
<1> USE DEF EndReplies, Goto, rawVars, shadowVars, doneVars, buyVars, procVars, faultVars
<1>1. TypeOK'
  BY RawsAssumption, FaultAssumption, KeysAreFresh DEF IInv, TypeOK, FreshOnly, PCs, ForWhom, Entry
<1>2. FreshOnly'
  BY RawsAssumption, KeysAreFresh DEF IInv, TypeOK, FreshOnly, StaleNeverBought
<1>3. (RoutedOrLogged /\ MarkedIsRouted)'
  BY RawsAssumption DEF IInv, TypeOK, RoutedOrLogged, MarkedIsRouted, Entry
<1> QED
  BY <1>1, <1>2, <1>3 DEF IInv

LEMMA FindShadowStep == \A p \in Workers : IInv /\ FindShadow(p) => IInv'
<1> SUFFICES ASSUME NEW p \in Workers, IInv, FindShadow(p) PROVE IInv'
  OBVIOUS
<1> USE DEF FindShadow, Goto, rawVars, shadowVars, doneVars, buyVars, procVars, faultVars
<1>1. TypeOK'
  BY RawsAssumption, FaultAssumption, KeysAreFresh DEF IInv, TypeOK, FreshOnly, PCs, ForWhom, Entry
<1>2. FreshOnly'
  BY RawsAssumption, KeysAreFresh DEF IInv, TypeOK, FreshOnly, StaleNeverBought
<1>3. (RoutedOrLogged /\ MarkedIsRouted)'
  BY RawsAssumption DEF IInv, TypeOK, RoutedOrLogged, MarkedIsRouted, Entry
<1> QED
  BY <1>1, <1>2, <1>3 DEF IInv

LEMMA AppendShadowStep == \A p \in Workers : IInv /\ AppendShadow(p) => IInv'
<1> SUFFICES ASSUME NEW p \in Workers, IInv, AppendShadow(p) PROVE IInv'
  OBVIOUS
<1> USE DEF AppendShadow, Goto, rawVars, shadowVars, doneVars, buyVars, procVars, faultVars
<1>1. TypeOK'
  <2>1. raw[p] \in Raws /\ Entry(p) \in Entries
    BY RawsAssumption DEF IInv, TypeOK, Entry
  <2>2. Append(shadowRows[Entry(p)], raw[p]) \in Seq(Raws)
    BY <2>1, AppendProperties DEF IInv, TypeOK
  <2>3. shadowRows' \in [Entries -> Seq(Raws)] /\ pc' \in [Workers -> PCs]
    BY <2>1, <2>2 DEF IInv, TypeOK, PCs
  <2> QED
    BY <2>3 DEF IInv, TypeOK
<1>2. FreshOnly'
  BY RawsAssumption, KeysAreFresh DEF IInv, TypeOK, FreshOnly, StaleNeverBought
<1>3. (RoutedOrLogged /\ MarkedIsRouted)'
  BY RawsAssumption DEF IInv, TypeOK, RoutedOrLogged, MarkedIsRouted, Entry
<1> QED
  BY <1>1, <1>2, <1>3 DEF IInv

LEMMA GuardStep == \A p \in Workers : IInv /\ Guard(p) => IInv'
<1> SUFFICES ASSUME NEW p \in Workers, IInv, Guard(p) PROVE IInv'
  OBVIOUS
<1> USE DEF Guard, Goto, rawVars, shadowVars, doneVars, buyVars, procVars, faultVars
<1>1. TypeOK'
  <2>1. PICK route \in {"auto", "card"} : pc' = [pc EXCEPT ![p] = route]
    OBVIOUS
  <2>2. pc' \in [Workers -> PCs]
    BY <2>1 DEF IInv, TypeOK, PCs
  <2> QED
    BY <2>1, <2>2 DEF IInv, TypeOK
<1>2. FreshOnly'
  BY RawsAssumption, KeysAreFresh DEF IInv, TypeOK, FreshOnly, StaleNeverBought
<1>3. (RoutedOrLogged /\ MarkedIsRouted)'
  BY RawsAssumption DEF IInv, TypeOK, RoutedOrLogged, MarkedIsRouted, Entry
<1> QED
  BY <1>1, <1>2, <1>3 DEF IInv

LEMMA FindCardStep == \A p \in Workers : IInv /\ FindCard(p) => IInv'
<1> SUFFICES ASSUME NEW p \in Workers, IInv, FindCard(p) PROVE IInv'
  OBVIOUS
<1> USE DEF FindCard, Goto, rawVars, shadowVars, doneVars, buyVars, procVars, faultVars
<1>1. TypeOK'
  BY RawsAssumption, FaultAssumption, KeysAreFresh DEF IInv, TypeOK, FreshOnly, PCs, ForWhom, Entry
<1>2. FreshOnly'
  BY RawsAssumption, KeysAreFresh DEF IInv, TypeOK, FreshOnly, StaleNeverBought
<1>3. (RoutedOrLogged /\ MarkedIsRouted)'
  BY RawsAssumption DEF IInv, TypeOK, RoutedOrLogged, MarkedIsRouted, Entry
<1> QED
  BY <1>1, <1>2, <1>3 DEF IInv

LEMMA AppendCardStep == \A p \in Workers : IInv /\ AppendCard(p) => IInv'
<1> SUFFICES ASSUME NEW p \in Workers, IInv, AppendCard(p) PROVE IInv'
  OBVIOUS
<1> USE DEF AppendCard, Goto, rawVars, shadowVars, doneVars, buyVars, procVars, faultVars
<1>1. TypeOK'
  BY RawsAssumption, FaultAssumption, KeysAreFresh DEF IInv, TypeOK, FreshOnly, PCs, ForWhom, Entry
<1>2. FreshOnly'
  BY RawsAssumption, KeysAreFresh DEF IInv, TypeOK, FreshOnly, StaleNeverBought
<1>3. (RoutedOrLogged /\ MarkedIsRouted)'
  BY RawsAssumption DEF IInv, TypeOK, RoutedOrLogged, MarkedIsRouted, Entry
<1> QED
  BY <1>1, <1>2, <1>3 DEF IInv

LEMMA CheckAutoStep == \A p \in Workers : IInv /\ CheckAuto(p) => IInv'
<1> SUFFICES ASSUME NEW p \in Workers, IInv, CheckAuto(p) PROVE IInv'
  OBVIOUS
<1> USE DEF CheckAuto, Goto, rawVars, shadowVars, doneVars, buyVars, procVars, faultVars
<1>1. TypeOK'
  <2>1. raw[p] \in Raws \ Stale
    BY RawsAssumption DEF IInv, TypeOK, FreshOnly
  <2>2. OrderKey(raw[p]) \in Raws
    BY <2>1, KeysAreFresh
  <2>3. pc' \in [Workers -> PCs] /\ order' \in [Workers -> Raws \cup {NoRaw}]
    BY <2>2 DEF IInv, TypeOK, PCs
  <2>4. /\ \A q \in Workers : pc'[q] \notin {"idle", "replies", "next"} => raw[q] \in Raws
        /\ \A q \in Workers : pc'[q] \in {"submit", "create", "write"} => order'[q] \in Raws
    BY <2>1, <2>2 DEF IInv, TypeOK
  <2> QED
    BY <2>3, <2>4 DEF IInv, TypeOK
<1>2. FreshOnly'
  <2>1. raw[p] \in Raws \ Stale
    BY RawsAssumption DEF IInv, TypeOK, FreshOnly
  <2>2. OrderKey(raw[p]) \in Raws \ Stale
    BY <2>1, KeysAreFresh
  <2> QED
    BY <2>2 DEF IInv, FreshOnly, StaleNeverBought
<1>3. (RoutedOrLogged /\ MarkedIsRouted)'
  BY RawsAssumption DEF IInv, TypeOK, RoutedOrLogged, MarkedIsRouted, Entry
<1> QED
  BY <1>1, <1>2, <1>3 DEF IInv

LEMMA SubmitBuyStep == \A p \in Workers : IInv /\ SubmitBuy(p) => IInv'
<1> SUFFICES ASSUME NEW p \in Workers, IInv, SubmitBuy(p) PROVE IInv'
  OBVIOUS
<1> USE DEF SubmitBuy, BrokerTakes, BrokerTakesUnheard, Goto, rawVars, shadowVars, doneVars, buyVars, procVars, faultVars
<1>0. order[p] \in Raws \ Stale
  BY RawsAssumption DEF IInv, TypeOK, FreshOnly
<1>9. /\ orders' \in {orders, [orders EXCEPT ![order[p]] = "submitted"], [orders EXCEPT ![order[p]] = "blocked"]}
      /\ broker' \in {broker, broker \cup {order[p]}} /\ losses' \in {losses, losses + 1} /\ losses' \in 0..MaxLosses
      /\ \E label \in {"create", "report", "action"} : pc' = [pc EXCEPT ![p] = label]
  BY FaultAssumption DEF IInv, TypeOK
<1>10. UNCHANGED <<rawVars, shadowVars, doneVars, positions, batch, raw, order, for, crashes, shared>>
  OBVIOUS
<1> HIDE DEF SubmitBuy
<1>1. TypeOK'
  <2>1. orders' \in [Raws -> {"none", "submitted", "blocked"}] /\ broker' \subseteq Raws
    BY <1>0, <1>9 DEF IInv, TypeOK
  <2>2. pc' \in [Workers -> PCs]
    BY <1>9 DEF IInv, TypeOK, PCs
  <2>3. /\ \A q \in Workers : pc'[q] \notin {"idle", "replies", "next"} => raw[q] \in Raws
        /\ \A q \in Workers : pc'[q] \in {"submit", "create", "write"} => order[q] \in Raws
    BY <1>0, <1>9 DEF IInv, TypeOK, SubmitBuy
  <2> QED
    BY <1>9, <1>10, <2>1, <2>2, <2>3 DEF IInv, TypeOK
<1>2. FreshOnly'
  <2>1. \A r \in Stale : orders'[r] = "none" /\ r \notin broker'
    BY <1>0, <1>9, RawsAssumption DEF IInv, TypeOK, FreshOnly, StaleNeverBought
  <2> QED
    BY <1>10, <2>1 DEF IInv, FreshOnly, StaleNeverBought
<1>3. (RoutedOrLogged /\ MarkedIsRouted)'
  BY RawsAssumption DEF IInv, TypeOK, RoutedOrLogged, MarkedIsRouted, Entry, SubmitBuy
<1> QED
  BY <1>1, <1>2, <1>3 DEF IInv

LEMMA LookForPositionStep == \A p \in Workers : IInv /\ LookForPosition(p) => IInv'
<1> SUFFICES ASSUME NEW p \in Workers, IInv, LookForPosition(p) PROVE IInv'
  OBVIOUS
<1> USE DEF LookForPosition, Goto, rawVars, shadowVars, doneVars, buyVars, procVars, faultVars
<1>1. TypeOK'
  BY RawsAssumption, FaultAssumption, KeysAreFresh DEF IInv, TypeOK, FreshOnly, PCs, ForWhom, Entry
<1>2. FreshOnly'
  BY RawsAssumption, KeysAreFresh DEF IInv, TypeOK, FreshOnly, StaleNeverBought
<1>3. (RoutedOrLogged /\ MarkedIsRouted)'
  BY RawsAssumption DEF IInv, TypeOK, RoutedOrLogged, MarkedIsRouted, Entry
<1> QED
  BY <1>1, <1>2, <1>3 DEF IInv

LEMMA WritePositionStep == \A p \in Workers : IInv /\ WritePosition(p) => IInv'
<1> SUFFICES ASSUME NEW p \in Workers, IInv, WritePosition(p) PROVE IInv'
  OBVIOUS
<1> USE DEF WritePosition, Goto, rawVars, shadowVars, doneVars, buyVars, procVars, faultVars
<1>0. /\ order[p] \in Raws \ Stale /\ raw[p] \in Raws /\ Entry(p) \in Entries
      /\ positions \in [Entries -> Seq(Raws \ Stale)] /\ positions \in [Entries -> Seq(Raws)]
  BY RawsAssumption DEF IInv, TypeOK, FreshOnly, Entry
<1>1. TypeOK'
  <2>1. Append(positions[Entry(p)], order[p]) \in Seq(Raws)
    BY <1>0, AppendProperties
  <2>2. positions' \in [Entries -> Seq(Raws)] /\ pc' \in [Workers -> PCs]
    BY <1>0, <2>1 DEF IInv, TypeOK, PCs
  <2>3. /\ \A q \in Workers : pc'[q] \notin {"idle", "replies", "next"} => raw[q] \in Raws
        /\ \A q \in Workers : pc'[q] \in {"submit", "create", "write"} => order[q] \in Raws
    BY <1>0 DEF IInv, TypeOK
  <2> QED
    BY <2>2, <2>3 DEF IInv, TypeOK
<1>2. FreshOnly'
  <2>1. Append(positions[Entry(p)], order[p]) \in Seq(Raws \ Stale)
    BY <1>0, AppendProperties
  <2>2. positions' \in [Entries -> Seq(Raws \ Stale)]
    BY <1>0, <2>1
  <2> QED
    BY <2>2 DEF IInv, FreshOnly, StaleNeverBought
<1>3. (RoutedOrLogged /\ MarkedIsRouted)'
  BY RawsAssumption DEF IInv, TypeOK, RoutedOrLogged, MarkedIsRouted, Entry
<1> QED
  BY <1>1, <1>2, <1>3 DEF IInv

LEMMA SendReportStep == \A p \in Workers : IInv /\ SendReport(p) => IInv'
<1> SUFFICES ASSUME NEW p \in Workers, IInv, SendReport(p) PROVE IInv'
  OBVIOUS
<1> USE DEF SendReport, Goto, rawVars, shadowVars, doneVars, buyVars, procVars, faultVars
<1>1. TypeOK'
  BY RawsAssumption, FaultAssumption, KeysAreFresh DEF IInv, TypeOK, FreshOnly, PCs, ForWhom, Entry
<1>2. FreshOnly'
  BY RawsAssumption, KeysAreFresh DEF IInv, TypeOK, FreshOnly, StaleNeverBought
<1>3. (RoutedOrLogged /\ MarkedIsRouted)'
  BY RawsAssumption DEF IInv, TypeOK, RoutedOrLogged, MarkedIsRouted, Entry
<1> QED
  BY <1>1, <1>2, <1>3 DEF IInv

LEMMA AppendActionStep == \A p \in Workers : IInv /\ AppendAction(p) => IInv'
<1> SUFFICES ASSUME NEW p \in Workers, IInv, AppendAction(p) PROVE IInv'
  OBVIOUS
<1> USE DEF AppendAction, Goto, rawVars, shadowVars, doneVars, buyVars, procVars, faultVars
<1>1. TypeOK'
  <2>1. raw[p] \in Raws /\ Entry(p) \in Entries
    BY RawsAssumption DEF IInv, TypeOK, Entry
  <2>2. CASE for[p] = "alert"
    <3>1. /\ autoDone' \subseteq Entries /\ pc' \in [Workers -> PCs]
          /\ order' \in [Workers -> Raws \cup {NoRaw}]
      BY <2>1, <2>2 DEF IInv, TypeOK, PCs
    <3>2. /\ \A q \in Workers : pc'[q] \notin {"idle", "replies", "next"} => raw'[q] \in Raws
          /\ \A q \in Workers : pc'[q] \in {"submit", "create", "write"} => order'[q] \in Raws
      BY <2>1, <2>2 DEF IInv, TypeOK
    <3> QED
      BY <2>2, <3>1, <3>2 DEF IInv, TypeOK
  <2>3. CASE for[p] = "owner"
    <3>1. /\ acted' \subseteq Entries /\ pc' \in [Workers -> PCs] /\ for' \in [Workers -> ForWhom]
          /\ order' \in [Workers -> Raws \cup {NoRaw}] /\ raw' \in [Workers -> Raws \cup {NoRaw}]
      BY <2>1, <2>3 DEF IInv, TypeOK, PCs, ForWhom
    <3>2. /\ \A q \in Workers : pc'[q] \notin {"idle", "replies", "next"} => raw'[q] \in Raws
          /\ \A q \in Workers : pc'[q] \in {"submit", "create", "write"} => order'[q] \in Raws
      BY <2>1, <2>3 DEF IInv, TypeOK
    <3> QED
      BY <2>3, <3>1, <3>2 DEF IInv, TypeOK
  <2> QED
    BY <2>2, <2>3
<1>2. FreshOnly'
  BY RawsAssumption, KeysAreFresh DEF IInv, TypeOK, FreshOnly, StaleNeverBought
<1>3. (RoutedOrLogged /\ MarkedIsRouted)'
  BY RawsAssumption DEF IInv, TypeOK, RoutedOrLogged, MarkedIsRouted, Entry
<1> QED
  BY <1>1, <1>2, <1>3 DEF IInv

LEMMA CrashStep == \A p \in Workers : IInv /\ Crash(p) => IInv'
<1> SUFFICES ASSUME NEW p \in Workers, IInv, Crash(p) PROVE IInv'
  OBVIOUS
<1> USE DEF Crash, BrokerTakes, BrokerTakesUnheard, Goto, rawVars, shadowVars, doneVars, buyVars, procVars, faultVars
<1>0. /\ broker' \in {broker, broker \cup {order[p]}} /\ losses' \in 0..MaxLosses
      /\ broker' # broker => pc[p] = "submit"
  BY FaultAssumption DEF IInv, TypeOK
<1>1. TypeOK'
  <2>1. broker' \subseteq Raws
    BY <1>0 DEF IInv, TypeOK
  <2>2. /\ pc' \in [Workers -> PCs] /\ for' \in [Workers -> ForWhom] /\ batch' \in [Workers -> SUBSET Raws]
        /\ order' \in [Workers -> Raws \cup {NoRaw}] /\ raw' \in [Workers -> Raws \cup {NoRaw}]
    BY DEF IInv, TypeOK, PCs, ForWhom
  <2>3. /\ \A q \in Workers : pc'[q] \notin {"idle", "replies", "next"} => raw'[q] \in Raws
        /\ \A q \in Workers : pc'[q] \in {"submit", "create", "write"} => order'[q] \in Raws
    BY DEF IInv, TypeOK
  <2>4. crashes' \in 0..MaxCrashes
    BY FaultAssumption DEF IInv, TypeOK
  <2> QED
    BY <1>0, <2>1, <2>2, <2>3, <2>4 DEF IInv, TypeOK
<1>2. FreshOnly'
  BY RawsAssumption, KeysAreFresh DEF IInv, TypeOK, FreshOnly, StaleNeverBought
<1>3. (RoutedOrLogged /\ MarkedIsRouted)'
  BY RawsAssumption DEF IInv, TypeOK, RoutedOrLogged, MarkedIsRouted, Entry
<1> QED
  BY <1>1, <1>2, <1>3 DEF IInv

LEMMA ApproveStep == \A p \in Workers, e \in Entries : IInv /\ Approve(p, e) => IInv'
<1> SUFFICES ASSUME NEW p \in Workers, NEW e \in Entries, IInv, Approve(p, e) PROVE IInv'
  OBVIOUS
<1> USE DEF Approve, Goto, Share, rawVars, shadowVars, doneVars, buyVars, procVars, faultVars
<1>1. TypeOK'
  BY RawsAssumption, FaultAssumption, KeysAreFresh DEF IInv, TypeOK, FreshOnly, PCs, ForWhom, Entry
<1>2. FreshOnly'
  BY RawsAssumption, KeysAreFresh DEF IInv, TypeOK, FreshOnly, StaleNeverBought
<1>3. (RoutedOrLogged /\ MarkedIsRouted)'
  BY RawsAssumption DEF IInv, TypeOK, RoutedOrLogged, MarkedIsRouted, Entry
<1> QED
  BY <1>1, <1>2, <1>3 DEF IInv

LEMMA SkipCardStep == \A p \in Workers, e \in Entries : IInv /\ SkipCard(p, e) => IInv'
<1> SUFFICES ASSUME NEW p \in Workers, NEW e \in Entries, IInv, SkipCard(p, e) PROVE IInv'
  OBVIOUS
<1> USE DEF SkipCard, Goto, rawVars, shadowVars, doneVars, buyVars, procVars, faultVars
<1>1. TypeOK'
  BY RawsAssumption, FaultAssumption, KeysAreFresh DEF IInv, TypeOK, FreshOnly, PCs, ForWhom, Entry
<1>2. FreshOnly'
  BY RawsAssumption, KeysAreFresh DEF IInv, TypeOK, FreshOnly, StaleNeverBought
<1>3. (RoutedOrLogged /\ MarkedIsRouted)'
  BY RawsAssumption DEF IInv, TypeOK, RoutedOrLogged, MarkedIsRouted, Entry
<1> QED
  BY <1>1, <1>2, <1>3 DEF IInv

LEMMA StutterStep == IInv /\ UNCHANGED vars => IInv'
<1> SUFFICES ASSUME IInv, UNCHANGED vars PROVE IInv'
  OBVIOUS
<1> USE DEF vars, rawVars, shadowVars, doneVars, buyVars, procVars, faultVars
<1>1. TypeOK'
  BY DEF IInv, TypeOK
<1>2. (FreshOnly /\ RoutedOrLogged /\ MarkedIsRouted)'
  BY DEF IInv, FreshOnly, StaleNeverBought, RoutedOrLogged, MarkedIsRouted, Entry
<1> QED
  BY <1>1, <1>2 DEF IInv

LEMMA NextIInv == IInv /\ [Next]_vars => IInv'
BY CaptureStep, StartBatchStep, TakeStaleStep, TakeFreshStep, HandlerFailsStep, MarkProcessedStep,
   EndBatchStep, EndRepliesStep, FindShadowStep, AppendShadowStep, GuardStep, FindCardStep,
   AppendCardStep, CheckAutoStep, SubmitBuyStep, LookForPositionStep, WritePositionStep,
   SendReportStep, AppendActionStep, CrashStep, ApproveStep, SkipCardStep, StutterStep
   DEF Next, Work, Batch, Route, PlaceBuy

LEMMA InvariantHolds == Spec => []IInv
<1>1. Init => IInv
  BY InitIInv
<1>2. IInv /\ [Next]_vars => IInv'
  BY NextIInv
<1> QED
  BY <1>1, <1>2, PTL DEF Spec

\* Every process that handles a raw knows it, and its order's key (run_pipeline_once.py,
\* steve_trade_bot.py), for any processes, captures and faults.
THEOREM TypeCorrect == Spec => []TypeOK
<1>1. IInv => TypeOK
  BY DEF IInv
<1> QED
  BY <1>1, InvariantHolds, PTL

\* A fresh raw marked processed has its action, its card or its error row, also with two
\* processes over the same files.
THEOREM FreshIsRoutedOrLogged == Spec => []RoutedOrLogged
<1>1. IInv => RoutedOrLogged
  BY DEF IInv
<1> QED
  BY <1>1, InvariantHolds, PTL

\* A stale capture never leaves an order, whoever buys the alert and from which capture.
THEOREM StaleIsNeverBought == Spec => []StaleNeverBought
<1>1. IInv => StaleNeverBought
  BY DEF IInv, FreshOnly
<1> QED
  BY <1>1, InvariantHolds, PTL

-----------------------------------------------------------------------------
(* Alerts that no two processes have in hand at the same time              *)

\* An entry in the hands of two processes is on record as shared.
OverlapIsShared ==
  \A p, q \in Workers :
    p # q /\ raw[p] # NoRaw /\ InHand(q, Entry(p)) => Entry(p) \in shared

\* Cards and positions are of their entry, a position's order has its verdict, and there is
\* one shadow and one position of an entry that is not shared.
RowsOwn ==
  /\ \A e \in Entries : cards[e] # NoRaw => EntryOf[cards[e]] = e /\ shadowRows[e] # <<>>
  /\ \A e \in Entries : positions[e] # <<>> =>
       EntryOf[Head(positions[e])] = e /\ orders[Head(positions[e])] # "none"
  /\ \A e \in Entries \ shared : Len(shadowRows[e]) <= 1

Shadowed == {"guard", "card", "append card", "auto", "submit", "create", "write", "report", "action"}

\* What a process has looked up still holds when it acts on it, unless its entry is shared.
LookedUpBy(p) ==
  /\ pc[p] = "shadow" /\ Entry(p) \notin shared => shadowRows[Entry(p)] = <<>>
  /\ pc[p] \in Shadowed => shadowRows[Entry(p)] # <<>>
  /\ pc[p] \in {"submit", "create", "write"} => EntryOf[order[p]] = Entry(p)
  /\ pc[p] = "submit" /\ orders[order[p]] = "none" /\ Entry(p) \notin shared =>
       positions[Entry(p)] = <<>>
  /\ pc[p] \in {"create", "write"} =>
       /\ orders[order[p]] # "none" /\ order[p] \in broker
       /\ Entry(p) \notin shared => positions[Entry(p)] = <<>>

LookedUp == \A p \in Workers : LookedUpBy(p)

BuysOf(e) == {r \in broker : EntryOf[r] = e}
Recording(e) == \E p \in Workers : pc[p] \in {"create", "write"} /\ Entry(p) = e

\* Without a fault a buy has its position or is about to get it.
BuysAreRecorded ==
  /\ IsFiniteSet(broker)
  /\ crashes = 0 /\ losses = 0 => \A e \in Entries \ shared :
       /\ Cardinality(BuysOf(e)) <= 1
       /\ BuysOf(e) # {} => positions[e] # <<>> \/ Recording(e)

Held == OverlapIsShared /\ RowsOwn /\ LookedUp /\ BuysAreRecorded
SInv == IInv /\ Held

LEMMA InitSInv == Init => SInv
<1> SUFFICES ASSUME Init PROVE SInv
  OBVIOUS
<1>1. IInv
  BY InitIInv
<1>2. Len(<<>>) = 0
  BY EmptySeq
<1>3. OverlapIsShared /\ RowsOwn /\ LookedUp
  BY <1>2 DEF Init, OverlapIsShared, RowsOwn, LookedUp, LookedUpBy, Shadowed
<1>4. \A e \in Entries : BuysOf(e) = {}
  BY DEF Init, BuysOf
<1>5. BuysAreRecorded
  <2>1. IsFiniteSet({}) /\ Cardinality({}) = 0
    BY FS_EmptySet
  <2>2. \A e \in Entries : Cardinality(BuysOf(e)) = 0
    BY <1>4, <2>1, Zenon
  <2>3. broker = {}
    BY DEF Init
  <2> QED
    BY <1>4, <2>1, <2>2, <2>3 DEF BuysAreRecorded
<1> QED
  BY <1>1, <1>3, <1>5 DEF SInv, Held

\* What a process handles, and for which entry.
LEMMA Handling ==
  ASSUME IInv, NEW p \in Workers, pc[p] \notin {"idle", "replies", "next"}
  PROVE  raw[p] \in Raws \ Stale /\ raw[p] # NoRaw /\ Entry(p) \in Entries
BY RawsAssumption DEF IInv, TypeOK, FreshOnly, Entry

\* No other process has an entry in hand that is not shared.
LEMMA NobodyElse ==
  ASSUME SInv, NEW p \in Workers, NEW q \in Workers, p # q,
         pc[p] \notin {"idle", "replies", "next"}, pc[q] \notin {"idle", "replies", "next"},
         Entry(q) = Entry(p)
  PROVE  Entry(p) \in shared
<1>1. raw[p] # NoRaw /\ raw[q] # NoRaw
  BY Handling DEF SInv
<1> QED
  BY <1>1 DEF SInv, Held, OverlapIsShared, InHand

\* A step that writes no ledger of the alerts: what the other processes have looked up stays.
LEMMA QuietKeeps ==
  ASSUME SInv, NEW p \in Workers,
         UNCHANGED <<shadowRows, cards, orders, broker, positions, crashes, losses>>,
         shared \subseteq shared',
         \A q \in Workers \ {p} : pc'[q] = pc[q] /\ raw'[q] = raw[q] /\ order'[q] = order[q],
         \/ raw'[p] \in {raw[p], NoRaw}
         \/ \A q \in Workers \ {p} : InHand(q, EntryOf[raw'[p]]) => EntryOf[raw'[p]] \in shared',
         LookedUpBy(p)',
         pc[p] \in {"create", "write"} =>
           \/ Entry(p) \in shared
           \/ pc'[p] \in {"create", "write"} /\ raw'[p] = raw[p]
  PROVE  Held'
<1>1. OverlapIsShared'
  BY DEF SInv, Held, OverlapIsShared, InHand, Entry
<1>2. RowsOwn'
  BY DEF SInv, Held, RowsOwn
<1>3. LookedUp'
  <2>1. \A q \in Workers \ {p} : LookedUpBy(q)'
    BY DEF SInv, Held, LookedUp, LookedUpBy, Entry
  <2> QED
    BY <2>1 DEF LookedUp
<1>4. BuysAreRecorded'
  <2>1. \A e \in Entries : BuysOf(e)' = BuysOf(e)
    BY DEF BuysOf
  <2>2. \A e \in Entries \ shared : Recording(e) => Recording(e)'
    BY DEF Recording, Entry
  <2> QED
    BY <2>1, <2>2 DEF SInv, Held, BuysAreRecorded
<1> QED
  BY <1>1, <1>2, <1>3, <1>4 DEF Held

\* A step that writes a ledger for the entry in hand: what the others have looked up stays,
\* or their entry is shared.
LEMMA OthersKeep ==
  ASSUME SInv, NEW p \in Workers, pc[p] \notin {"idle", "replies", "next"},
         NEW q \in Workers \ {p},
         pc'[q] = pc[q], raw'[q] = raw[q], order'[q] = order[q], shared' = shared,
         \A e \in Entries : shadowRows[e] # <<>> => shadowRows'[e] # <<>>,
         \A k \in Raws : orders[k] # "none" => orders'[k] # "none",
         broker \subseteq broker',
         \A e \in Entries : e # Entry(p) => shadowRows'[e] = shadowRows[e] /\ positions'[e] = positions[e]
  PROVE  LookedUpBy(q)'
<1>1. CASE pc[q] \in {"idle", "replies", "next"}
  BY <1>1 DEF LookedUpBy, Shadowed
<1>2. CASE pc[q] \notin {"idle", "replies", "next"}
  <2>1. Entry(q) \in Entries /\ Entry(q)' = Entry(q)
    BY <1>2, Handling DEF SInv, Entry
  <2>2. Entry(q) = Entry(p) => Entry(q) \in shared
    BY <1>2, NobodyElse
  <2>3. pc[q] \in {"submit", "create", "write"} => order[q] \in Raws
    BY DEF SInv, IInv, TypeOK
  <2>4. LookedUpBy(q)
    BY DEF SInv, Held, LookedUp
  <2> QED
    BY <2>1, <2>2, <2>3, <2>4 DEF LookedUpBy
<1> QED
  BY <1>1, <1>2

LEMMA StartBatchKeeps == \A p \in Workers : SInv /\ StartBatch(p) => Held'
<1> SUFFICES ASSUME NEW p \in Workers, SInv, StartBatch(p) PROVE Held'
  OBVIOUS
<1> USE DEF StartBatch, Unseen, Goto, shadowVars, buyVars, procVars, faultVars
<1>1. LookedUpBy(p)'
  BY RawsAssumption DEF SInv, Held, IInv, TypeOK, LookedUp, LookedUpBy, Shadowed, Entry
<1> QED
  BY <1>1, QuietKeeps DEF SInv, Held, IInv, TypeOK, LookedUp, LookedUpBy

LEMMA TakeStaleKeeps == \A p \in Workers : SInv /\ TakeStale(p) => Held'
<1> SUFFICES ASSUME NEW p \in Workers, SInv, TakeStale(p) PROVE Held'
  OBVIOUS
<1> USE DEF TakeStale, IsFirst, Goto, shadowVars, buyVars, procVars, faultVars
<1>1. LookedUpBy(p)'
  BY RawsAssumption DEF SInv, Held, IInv, TypeOK, LookedUp, LookedUpBy, Shadowed, Entry
<1> QED
  BY <1>1, QuietKeeps DEF SInv, Held, IInv, TypeOK, LookedUp, LookedUpBy

LEMMA HandlerFailsKeeps == \A p \in Workers : SInv /\ HandlerFails(p) => Held'
<1> SUFFICES ASSUME NEW p \in Workers, SInv, HandlerFails(p) PROVE Held'
  OBVIOUS
<1> USE DEF HandlerFails, Goto, shadowVars, buyVars, procVars, faultVars
<1>1. LookedUpBy(p)'
  BY RawsAssumption DEF SInv, Held, IInv, TypeOK, LookedUp, LookedUpBy, Shadowed, Entry
<1> QED
  BY <1>1, QuietKeeps DEF SInv, Held, IInv, TypeOK, LookedUp, LookedUpBy

LEMMA MarkProcessedKeeps == \A p \in Workers : SInv /\ MarkProcessed(p) => Held'
<1> SUFFICES ASSUME NEW p \in Workers, SInv, MarkProcessed(p) PROVE Held'
  OBVIOUS
<1> USE DEF MarkProcessed, Goto, shadowVars, buyVars, procVars, faultVars
<1>1. LookedUpBy(p)'
  BY RawsAssumption DEF SInv, Held, IInv, TypeOK, LookedUp, LookedUpBy, Shadowed, Entry
<1> QED
  BY <1>1, QuietKeeps DEF SInv, Held, IInv, TypeOK, LookedUp, LookedUpBy

LEMMA EndBatchKeeps == \A p \in Workers : SInv /\ EndBatch(p) => Held'
<1> SUFFICES ASSUME NEW p \in Workers, SInv, EndBatch(p) PROVE Held'
  OBVIOUS
<1> USE DEF EndBatch, Goto, shadowVars, buyVars, procVars, faultVars
<1>1. LookedUpBy(p)'
  BY RawsAssumption DEF SInv, Held, IInv, TypeOK, LookedUp, LookedUpBy, Shadowed, Entry
<1> QED
  BY <1>1, QuietKeeps DEF SInv, Held, IInv, TypeOK, LookedUp, LookedUpBy

LEMMA EndRepliesKeeps == \A p \in Workers : SInv /\ EndReplies(p) => Held'
<1> SUFFICES ASSUME NEW p \in Workers, SInv, EndReplies(p) PROVE Held'
  OBVIOUS
<1> USE DEF EndReplies, Goto, shadowVars, buyVars, procVars, faultVars
<1>1. LookedUpBy(p)'
  BY RawsAssumption DEF SInv, Held, IInv, TypeOK, LookedUp, LookedUpBy, Shadowed, Entry
<1> QED
  BY <1>1, QuietKeeps DEF SInv, Held, IInv, TypeOK, LookedUp, LookedUpBy

LEMMA FindShadowKeeps == \A p \in Workers : SInv /\ FindShadow(p) => Held'
<1> SUFFICES ASSUME NEW p \in Workers, SInv, FindShadow(p) PROVE Held'
  OBVIOUS
<1> USE DEF FindShadow, Goto, shadowVars, buyVars, procVars, faultVars
<1>1. LookedUpBy(p)'
  BY RawsAssumption DEF SInv, Held, IInv, TypeOK, LookedUp, LookedUpBy, Shadowed, Entry
<1> QED
  BY <1>1, QuietKeeps DEF SInv, Held, IInv, TypeOK, LookedUp, LookedUpBy

LEMMA GuardKeeps == \A p \in Workers : SInv /\ Guard(p) => Held'
<1> SUFFICES ASSUME NEW p \in Workers, SInv, Guard(p) PROVE Held'
  OBVIOUS
<1> USE DEF Guard, Goto, shadowVars, buyVars, procVars, faultVars
<1>1. LookedUpBy(p)'
  BY RawsAssumption DEF SInv, Held, IInv, TypeOK, LookedUp, LookedUpBy, Shadowed, Entry
<1> QED
  BY <1>1, QuietKeeps DEF SInv, Held, IInv, TypeOK, LookedUp, LookedUpBy

LEMMA FindCardKeeps == \A p \in Workers : SInv /\ FindCard(p) => Held'
<1> SUFFICES ASSUME NEW p \in Workers, SInv, FindCard(p) PROVE Held'
  OBVIOUS
<1> USE DEF FindCard, Goto, shadowVars, buyVars, procVars, faultVars
<1>1. LookedUpBy(p)'
  BY RawsAssumption DEF SInv, Held, IInv, TypeOK, LookedUp, LookedUpBy, Shadowed, Entry
<1> QED
  BY <1>1, QuietKeeps DEF SInv, Held, IInv, TypeOK, LookedUp, LookedUpBy

LEMMA SendReportKeeps == \A p \in Workers : SInv /\ SendReport(p) => Held'
<1> SUFFICES ASSUME NEW p \in Workers, SInv, SendReport(p) PROVE Held'
  OBVIOUS
<1> USE DEF SendReport, Goto, shadowVars, buyVars, procVars, faultVars
<1>1. LookedUpBy(p)'
  BY RawsAssumption DEF SInv, Held, IInv, TypeOK, LookedUp, LookedUpBy, Shadowed, Entry
<1> QED
  BY <1>1, QuietKeeps DEF SInv, Held, IInv, TypeOK, LookedUp, LookedUpBy

LEMMA AppendActionKeeps == \A p \in Workers : SInv /\ AppendAction(p) => Held'
<1> SUFFICES ASSUME NEW p \in Workers, SInv, AppendAction(p) PROVE Held'
  OBVIOUS
<1> USE DEF AppendAction, Goto, shadowVars, buyVars, procVars, faultVars
<1>1. LookedUpBy(p)'
  BY RawsAssumption DEF SInv, Held, IInv, TypeOK, LookedUp, LookedUpBy, Shadowed, Entry
<1> QED
  BY <1>1, QuietKeeps DEF SInv, Held, IInv, TypeOK, LookedUp, LookedUpBy

LEMMA SkipCardKeeps == \A p \in Workers, e \in Entries : SInv /\ SkipCard(p, e) => Held'
<1> SUFFICES ASSUME NEW p \in Workers, NEW e \in Entries, SInv, SkipCard(p, e) PROVE Held'
  OBVIOUS
<1> USE DEF SkipCard, Goto, shadowVars, buyVars, procVars, faultVars
<1>1. LookedUpBy(p)'
  BY RawsAssumption DEF SInv, Held, IInv, TypeOK, LookedUp, LookedUpBy, Shadowed, Entry
<1> QED
  BY <1>1, QuietKeeps DEF SInv, Held, IInv, TypeOK, LookedUp, LookedUpBy

LEMMA LookForPositionKeeps == \A p \in Workers : SInv /\ LookForPosition(p) => Held'
<1> SUFFICES ASSUME NEW p \in Workers, SInv, LookForPosition(p) PROVE Held'
  OBVIOUS
<1> USE DEF LookForPosition, Goto, shadowVars, buyVars, procVars, faultVars
<1>1. LookedUpBy(p)'
  BY RawsAssumption DEF SInv, Held, IInv, TypeOK, LookedUp, LookedUpBy, Shadowed, Entry
<1> QED
  BY <1>1, QuietKeeps DEF SInv, Held, IInv, TypeOK, LookedUp, LookedUpBy

LEMMA TakeFreshKeeps == \A p \in Workers : SInv /\ TakeFresh(p) => Held'
<1> SUFFICES ASSUME NEW p \in Workers, SInv, TakeFresh(p) PROVE Held'
  OBVIOUS
<1> USE DEF TakeFresh, Goto, Share, shadowVars, buyVars, procVars
<1>1. LookedUpBy(p)'
  BY DEF SInv, IInv, TypeOK, LookedUpBy, Shadowed
<1>2. PICK r \in Raws : raw' = [raw EXCEPT ![p] = r] /\ Share(p, EntryOf[r])
  OBVIOUS
<1>3. raw'[p] = r
  BY <1>2 DEF SInv, IInv, TypeOK
<1> QED
  BY <1>1, <1>2, <1>3, QuietKeeps DEF SInv, IInv, TypeOK

LEMMA OrderKeyOfEntry ==
  ASSUME SInv, NEW r \in Raws \ Stale
  PROVE  /\ OrderKey(r) \in Raws /\ EntryOf[OrderKey(r)] = EntryOf[r]
         /\ orders[OrderKey(r)] = "none" => positions[EntryOf[r]] = <<>>
BY KeysAreFresh DEF SInv, Held, RowsOwn, OrderKey

LEMMA CheckAutoKeeps == \A p \in Workers : SInv /\ CheckAuto(p) => Held'
<1> SUFFICES ASSUME NEW p \in Workers, SInv, CheckAuto(p) PROVE Held'
  OBVIOUS
<1> USE DEF CheckAuto, Goto, shadowVars, buyVars, procVars, faultVars
<1>1. LookedUpBy(p)'
  <2>1. raw[p] \in Raws \ Stale /\ shadowRows[Entry(p)] # <<>>
    BY Handling DEF SInv, Held, LookedUp, LookedUpBy, Shadowed
  <2>2. /\ order'[p] = OrderKey(raw[p]) /\ Entry(p)' = Entry(p)
        /\ pc'[p] \in {"action", "submit"}
    BY DEF SInv, IInv, TypeOK, Entry
  <2>3. EntryOf[order'[p]] = Entry(p) /\ (orders[order'[p]] = "none" => positions[Entry(p)] = <<>>)
    BY <2>1, <2>2, OrderKeyOfEntry DEF Entry
  <2> QED
    BY <2>1, <2>2, <2>3 DEF LookedUpBy, Shadowed
<1> QED
  BY <1>1, QuietKeeps DEF SInv, IInv, TypeOK

LEMMA ApproveKeeps == \A p \in Workers, e \in Entries : SInv /\ Approve(p, e) => Held'
<1> SUFFICES ASSUME NEW p \in Workers, NEW e \in Entries, SInv, Approve(p, e) PROVE Held'
  OBVIOUS
<1> USE DEF Approve, Goto, Share, shadowVars, buyVars, procVars
<1>1. cards[e] \in Raws \ Stale /\ EntryOf[cards[e]] = e /\ shadowRows[e] # <<>>
  BY DEF SInv, Held, IInv, FreshOnly, RowsOwn
<1>2. raw'[p] = cards[e] /\ EntryOf[raw'[p]] = e
  BY <1>1 DEF SInv, IInv, TypeOK
<1>3. LookedUpBy(p)'
  <2>1. order'[p] = OrderKey(cards[e]) /\ Entry(p)' = e /\ pc'[p] = "submit"
    BY <1>1, <1>2 DEF SInv, IInv, TypeOK, Entry
  <2>2. EntryOf[order'[p]] = e /\ (orders[order'[p]] = "none" => positions[e] = <<>>)
    BY <1>1, <2>1, OrderKeyOfEntry
  <2> QED
    BY <1>1, <2>1, <2>2 DEF LookedUpBy
<1> QED
  BY <1>2, <1>3, QuietKeeps DEF SInv, IInv, TypeOK

LEMMA AppendShadowKeeps == \A p \in Workers : SInv /\ AppendShadow(p) => Held'
<1> SUFFICES ASSUME NEW p \in Workers, SInv, AppendShadow(p) PROVE Held'
  OBVIOUS
<1>1. /\ pc[p] = "shadow" /\ pc' = [pc EXCEPT ![p] = "guard"]
      /\ shadowRows' = [shadowRows EXCEPT ![Entry(p)] = Append(@, raw[p])]
      /\ UNCHANGED <<cards, orders, broker, positions, raw, order, crashes, losses, shared>>
  BY DEF AppendShadow, Goto, buyVars, faultVars
<1>2. /\ raw[p] \in Raws /\ Entry(p) \in Entries /\ Entry(p)' = Entry(p)
      /\ shadowRows \in [Entries -> Seq(Raws)] /\ pc \in [Workers -> PCs]
      /\ Entry(p) \notin shared => shadowRows[Entry(p)] = <<>>
  BY <1>1, Handling DEF SInv, Held, IInv, TypeOK, LookedUp, LookedUpBy, Entry
<1>3. /\ Len(Append(<<>>, raw[p])) = 1
      /\ \A rows \in Seq(Raws) : Append(rows, raw[p]) # <<>>
  BY <1>2, EmptySeq, AppendProperties
<1>4. /\ shadowRows'[Entry(p)] = Append(shadowRows[Entry(p)], raw[p]) /\ shadowRows'[Entry(p)] # <<>>
      /\ \A e \in Entries : e # Entry(p) => shadowRows'[e] = shadowRows[e]
  BY <1>1, <1>2, <1>3
<1>5. OverlapIsShared'
  BY <1>1 DEF SInv, Held, OverlapIsShared, InHand, Entry
<1>6. RowsOwn'
  BY <1>1, <1>2, <1>3, <1>4 DEF SInv, Held, RowsOwn
<1>7. LookedUp'
  <2>1. LookedUpBy(p)'
    BY <1>1, <1>2, <1>4 DEF LookedUpBy
  <2>2. \A q \in Workers \ {p} : LookedUpBy(q)'
    BY <1>1, <1>2, <1>4, OthersKeep
  <2> QED
    BY <2>1, <2>2 DEF LookedUp
<1>8. BuysAreRecorded'
  <2>1. \A e \in Entries : BuysOf(e)' = BuysOf(e) /\ (Recording(e) => Recording(e)')
    BY <1>1, <1>2 DEF BuysOf, Recording, Entry
  <2> QED
    BY <1>1, <2>1 DEF SInv, Held, BuysAreRecorded
<1> QED
  BY <1>5, <1>6, <1>7, <1>8 DEF Held

LEMMA AppendCardKeeps == \A p \in Workers : SInv /\ AppendCard(p) => Held'
<1> SUFFICES ASSUME NEW p \in Workers, SInv, AppendCard(p) PROVE Held'
  OBVIOUS
<1>1. /\ pc[p] = "append card" /\ pc' = [pc EXCEPT ![p] = "mark"]
      /\ cards' = [cards EXCEPT ![Entry(p)] = raw[p]]
      /\ UNCHANGED <<shadowRows, orders, broker, positions, raw, order, crashes, losses, shared>>
  BY DEF AppendCard, Goto, buyVars, faultVars
<1>2. /\ raw[p] \in Raws /\ Entry(p) \in Entries /\ shadowRows[Entry(p)] # <<>>
      /\ EntryOf[raw[p]] = Entry(p) /\ cards \in [Entries -> Raws \cup {NoRaw}] /\ pc \in [Workers -> PCs]
  BY <1>1, Handling DEF SInv, Held, IInv, TypeOK, LookedUp, LookedUpBy, Shadowed, Entry
<1>3. OverlapIsShared'
  BY <1>1 DEF SInv, Held, OverlapIsShared, InHand, Entry
<1>4. RowsOwn'
  BY <1>1, <1>2 DEF SInv, Held, RowsOwn
<1>5. LookedUp'
  <2>1. LookedUpBy(p)'
    BY <1>1, <1>2 DEF LookedUpBy, Shadowed
  <2>2. \A q \in Workers \ {p} : LookedUpBy(q)'
    BY <1>1, <1>2, OthersKeep
  <2> QED
    BY <2>1, <2>2 DEF LookedUp
<1>6. BuysAreRecorded'
  <2>1. \A e \in Entries : BuysOf(e)' = BuysOf(e) /\ (Recording(e) => Recording(e)')
    BY <1>1, <1>2 DEF BuysOf, Recording, Entry
  <2> QED
    BY <1>1, <2>1 DEF SInv, Held, BuysAreRecorded
<1> QED
  BY <1>3, <1>4, <1>5, <1>6 DEF Held

\* Where the broker takes an order nobody hears of, or the ledger of orders alone is written,
\* there is a fault on record.
LEMMA UnheardKeeps ==
  ASSUME SInv, NEW p \in Workers, pc[p] = "submit",
         UNCHANGED <<shadowRows, cards, positions, shared>>,
         \A q \in Workers \ {p} : pc'[q] = pc[q] /\ raw'[q] = raw[q] /\ order'[q] = order[q],
         raw'[p] \in {raw[p], NoRaw}, pc'[p] \in {"idle", "report", "action"},
         pc'[p] \in Shadowed => raw'[p] = raw[p],
         orders' \in {orders, [orders EXCEPT ![order[p]] = "blocked"]},
         \/ UNCHANGED <<broker, crashes, losses>>
         \/ broker' \in {broker, broker \cup {order[p]}} /\ (crashes' # 0 \/ losses' # 0)
  PROVE  Held'
<1>1. /\ order[p] \in Raws /\ orders \in [Raws -> {"none", "submitted", "blocked"}]
      /\ \A k \in Raws : orders[k] # "none" => orders'[k] # "none"
  BY DEF SInv, IInv, TypeOK
<1>2. OverlapIsShared'
  BY DEF SInv, Held, OverlapIsShared, InHand, Entry
<1>3. RowsOwn'
  <2>1. \A e \in Entries : positions[e] # <<>> => Head(positions[e]) \in Raws
    BY HeadTailProperties DEF SInv, IInv, TypeOK
  <2> QED
    BY <1>1, <2>1 DEF SInv, Held, RowsOwn
<1>4. LookedUp'
  <2>1. LookedUpBy(p)'
    BY DEF SInv, Held, LookedUp, LookedUpBy, Shadowed, Entry
  <2>2. \A q \in Workers \ {p} : LookedUpBy(q)'
    BY <1>1, OthersKeep
  <2> QED
    BY <2>1, <2>2 DEF LookedUp
<1>5. BuysAreRecorded'
  <2>1. CASE UNCHANGED <<broker, crashes, losses>>
    <3>1. \A e \in Entries : BuysOf(e)' = BuysOf(e) /\ (Recording(e) => Recording(e)')
      BY <2>1 DEF BuysOf, Recording, Entry
    <3> QED
      BY <2>1, <3>1 DEF SInv, Held, BuysAreRecorded
  <2>2. CASE broker' \in {broker, broker \cup {order[p]}} /\ (crashes' # 0 \/ losses' # 0)
    <3>1. IsFiniteSet(broker')
      BY <2>2, FS_AddElement DEF SInv, Held, BuysAreRecorded
    <3> QED
      BY <2>2, <3>1 DEF BuysAreRecorded
  <2> QED
    BY <2>1, <2>2
<1> QED
  BY <1>2, <1>3, <1>4, <1>5 DEF Held

\* An order taken and answered: with no fault it is the only one of an entry not shared.
LEMMA TakenKeeps ==
  ASSUME SInv, NEW p \in Workers, pc[p] = "submit", NEW key, key = order[p],
         orders[key] = "none", broker' = broker \cup {key},
         orders' = [orders EXCEPT ![key] = "submitted"], pc' = [pc EXCEPT ![p] = "create"],
         UNCHANGED <<shadowRows, cards, positions, raw, order, crashes, losses, shared>>
  PROVE  Held'
<1>1. /\ pc \in [Workers -> PCs] /\ orders \in [Raws -> {"none", "submitted", "blocked"}]
      /\ key \in Raws /\ EntryOf[key] = Entry(p) /\ Entry(p) \in Entries
      /\ shadowRows[Entry(p)] # <<>> /\ (Entry(p) \notin shared => positions[Entry(p)] = <<>>)
  <2>1. pc \in [Workers -> PCs] /\ orders \in [Raws -> {"none", "submitted", "blocked"}] /\ key \in Raws
    BY DEF SInv, IInv, TypeOK
  <2>2. Entry(p) \in Entries
    BY Handling DEF SInv
  <2>3. /\ EntryOf[key] = Entry(p) /\ shadowRows[Entry(p)] # <<>>
        /\ Entry(p) \notin shared => positions[Entry(p)] = <<>>
    BY DEF SInv, Held, LookedUp, LookedUpBy, Shadowed
  <2> QED
    BY <2>1, <2>2, <2>3
<1>2. /\ pc'[p] = "create" /\ orders'[key] # "none" /\ Entry(p)' = Entry(p)
      /\ \A k \in Raws : orders[k] # "none" => orders'[k] # "none"
  BY <1>1 DEF Entry
<1>3. OverlapIsShared'
  BY DEF SInv, Held, OverlapIsShared, InHand, Entry
<1>4. RowsOwn'
  <2>1. \A e \in Entries : positions[e] # <<>> => Head(positions[e]) \in Raws
    BY HeadTailProperties DEF SInv, IInv, TypeOK
  <2> QED
    BY <1>2, <2>1 DEF SInv, Held, RowsOwn
<1>5. LookedUp'
  <2>1. LookedUpBy(p)'
    BY <1>1, <1>2 DEF LookedUpBy
  <2>2. \A q \in Workers \ {p} : LookedUpBy(q)'
    BY <1>1, <1>2, OthersKeep
  <2> QED
    BY <2>1, <2>2 DEF LookedUp
<1>6. BuysAreRecorded'
  <2>1. \A e \in Entries : e = Entry(p) => BuysOf(e)' = BuysOf(e) \cup {key}
    BY <1>1 DEF BuysOf
  <2>2. \A e \in Entries : e # Entry(p) => BuysOf(e)' = BuysOf(e)
    BY <1>1 DEF BuysOf
  <2>3. \A e \in Entries : Recording(e) => Recording(e)'
    BY <1>1 DEF Recording, Entry
  <2>4. \A e \in Entries : e = Entry(p) => Recording(e)'
    BY <1>2 DEF Recording
  <2>5. Entry(p) \notin shared => ~Recording(Entry(p))
    <3>1. ASSUME NEW q \in Workers, pc[q] \in {"create", "write"}, Entry(q) = Entry(p)
          PROVE  Entry(p) \in shared
      BY <3>1, NobodyElse
    <3> QED
      BY <3>1 DEF Recording
  <2>6. IsFiniteSet(broker')
    BY FS_AddElement DEF SInv, Held, BuysAreRecorded
  <2>7. ASSUME crashes = 0, losses = 0, NEW e \in Entries \ shared
        PROVE  /\ Cardinality(BuysOf(e)') <= 1
               /\ BuysOf(e)' # {} => positions[e] # <<>> \/ Recording(e)'
    <3>1. Cardinality(BuysOf(e)) <= 1 /\ (BuysOf(e) # {} => positions[e] # <<>> \/ Recording(e))
      BY <2>7 DEF SInv, Held, BuysAreRecorded
    <3>2. CASE e # Entry(p)
      BY <2>2, <2>3, <3>1, <3>2
    <3>3. CASE e = Entry(p)
      <4>1. BuysOf(e)' = {key}
        BY <1>1, <2>1, <2>5, <3>1, <3>3
      <4>2. Cardinality({key}) = 1
        BY FS_Singleton
      <4>3. Cardinality(BuysOf(e)') <= 1
        BY <4>1, <4>2
      <4> QED
        BY <2>4, <3>3, <4>3
    <3> QED
      BY <3>2, <3>3
  <2> QED
    BY <2>6, <2>7 DEF BuysAreRecorded
<1> QED
  BY <1>3, <1>4, <1>5, <1>6 DEF Held

LEMMA SubmitBuyKeeps == \A p \in Workers : SInv /\ SubmitBuy(p) => Held'
<1> SUFFICES ASSUME NEW p \in Workers, SInv, SubmitBuy(p) PROVE Held'
  OBVIOUS
<1>1. /\ pc[p] = "submit" /\ pc \in [Workers -> PCs] /\ losses \in Nat /\ crashes \in Nat
      /\ UNCHANGED <<shadowRows, cards, positions, raw, order, crashes, shared>>
  BY FaultAssumption DEF SubmitBuy, shadowVars, SInv, IInv, TypeOK
<1>2. CASE /\ orders[order[p]] = "none" /\ broker' = broker \cup {order[p]}
           /\ orders' = [orders EXCEPT ![order[p]] = "submitted"] /\ pc' = [pc EXCEPT ![p] = "create"]
           /\ losses' = losses
  BY <1>1, <1>2, TakenKeeps
<1>3. CASE /\ orders' \in {orders, [orders EXCEPT ![order[p]] = "blocked"]}
           /\ pc' \in {[pc EXCEPT ![p] = "report"], [pc EXCEPT ![p] = "action"]}
           /\ \/ UNCHANGED <<broker, losses>>
              \/ broker' = broker \cup {order[p]} /\ losses' = losses + 1
  <2>1. pc'[p] \in {"report", "action"} /\ \A q \in Workers \ {p} : pc'[q] = pc[q]
    BY <1>1, <1>3
  <2>2. UNCHANGED <<broker, crashes, losses>> \/ (broker' = broker \cup {order[p]} /\ losses' # 0)
    BY <1>1, <1>3
  <2> QED
    BY <1>1, <1>3, <2>1, <2>2, UnheardKeeps
<1> QED
  BY <1>2, <1>3 DEF SubmitBuy, BrokerTakes, BrokerTakesUnheard, Goto

LEMMA WritePositionKeeps == \A p \in Workers : SInv /\ WritePosition(p) => Held'
<1> SUFFICES ASSUME NEW p \in Workers, SInv, WritePosition(p) PROVE Held'
  OBVIOUS
<1>1. /\ pc[p] = "write" /\ pc \in [Workers -> PCs]
      /\ order[p] \in Raws /\ EntryOf[order[p]] = Entry(p) /\ Entry(p) \in Entries
      /\ shadowRows[Entry(p)] # <<>> /\ orders[order[p]] # "none"
      /\ positions \in [Entries -> Seq(Raws)]
  <2>1. pc[p] = "write"
    BY DEF WritePosition
  <2>2. pc \in [Workers -> PCs] /\ positions \in [Entries -> Seq(Raws)] /\ order[p] \in Raws
    BY <2>1 DEF SInv, IInv, TypeOK
  <2>3. Entry(p) \in Entries
    BY <2>1, Handling DEF SInv
  <2>4. /\ EntryOf[order[p]] = Entry(p) /\ shadowRows[Entry(p)] # <<>>
        /\ orders[order[p]] # "none"
    BY <2>1 DEF SInv, Held, LookedUp, LookedUpBy, Shadowed
  <2> QED
    BY <2>1, <2>2, <2>3, <2>4
<1>2. /\ UNCHANGED <<shadowRows, cards, orders, broker, raw, order, crashes, losses, shared>>
      /\ Entry(p)' = Entry(p)
      /\ positions' = [positions EXCEPT ![Entry(p)] = Append(@, order[p])]
      /\ pc'[p] \in {"report", "action"} /\ \A q \in Workers \ {p} : pc'[q] = pc[q]
  BY <1>1 DEF WritePosition, Goto, shadowVars, faultVars, Entry
<1>3. /\ positions'[Entry(p)] = Append(positions[Entry(p)], order[p]) /\ positions'[Entry(p)] # <<>>
      /\ Head(positions'[Entry(p)]) =
           IF positions[Entry(p)] = <<>> THEN order[p] ELSE Head(positions[Entry(p)])
      /\ \A e \in Entries : e # Entry(p) => positions'[e] = positions[e]
  <2>1. positions'[Entry(p)] = Append(positions[Entry(p)], order[p]) /\ positions[Entry(p)] \in Seq(Raws)
    BY <1>1, <1>2
  <2>2. \A rows \in Seq(Raws) :
          /\ Append(rows, order[p]) # <<>>
          /\ Head(Append(rows, order[p])) = IF rows = <<>> THEN order[p] ELSE Head(rows)
    BY <1>1, AppendProperties, HeadTailProperties
  <2> QED
    BY <1>1, <1>2, <2>1, <2>2
<1>4. OverlapIsShared'
  BY <1>2 DEF SInv, Held, OverlapIsShared, InHand, Entry
<1>5. RowsOwn'
  BY <1>1, <1>2, <1>3 DEF SInv, Held, RowsOwn
<1>6. LookedUp'
  <2>1. LookedUpBy(p)'
    BY <1>1, <1>2 DEF LookedUpBy
  <2>2. \A q \in Workers \ {p} : LookedUpBy(q)'
    BY <1>1, <1>2, <1>3, OthersKeep
  <2> QED
    BY <2>1, <2>2 DEF LookedUp
<1>7. BuysAreRecorded'
  <2>1. \A e \in Entries : BuysOf(e)' = BuysOf(e)
    BY <1>2 DEF BuysOf
  <2>2. \A e \in Entries : positions[e] # <<>> => positions'[e] # <<>>
    BY <1>3
  <2>3. \A e \in Entries : e # Entry(p) => (Recording(e) => Recording(e)')
    BY <1>2 DEF Recording, Entry
  <2> QED
    BY <1>2, <1>3, <2>1, <2>2, <2>3 DEF SInv, Held, BuysAreRecorded
<1> QED
  BY <1>4, <1>5, <1>6, <1>7 DEF Held

LEMMA CrashKeeps == \A p \in Workers : SInv /\ Crash(p) => Held'
<1> SUFFICES ASSUME NEW p \in Workers, SInv, Crash(p) PROVE Held'
  OBVIOUS
<1>1. /\ pc'[p] = "idle" /\ raw'[p] = NoRaw
      /\ \A q \in Workers \ {p} : pc'[q] = pc[q] /\ raw'[q] = raw[q] /\ order'[q] = order[q]
      /\ UNCHANGED <<shadowRows, cards, orders, positions, shared>>
      /\ crashes' = crashes + 1 /\ crashes \in Nat
      /\ broker' \in {broker, broker \cup {order[p]}}
  BY FaultAssumption DEF Crash, Goto, BrokerTakesUnheard, BrokerTakes, shadowVars, SInv, IInv, TypeOK
<1>2. crashes' # 0 /\ IsFiniteSet(broker')
  <2>1. \A n \in Nat : n + 1 # 0
    OBVIOUS
  <2>2. IsFiniteSet(broker')
    BY <1>1, FS_AddElement DEF SInv, Held, BuysAreRecorded
  <2> QED
    BY <1>1, <2>1, <2>2
<1>3. OverlapIsShared' /\ RowsOwn'
  BY <1>1 DEF SInv, Held, OverlapIsShared, InHand, Entry, RowsOwn
<1>4. LookedUp'
  <2>1. LookedUpBy(p)'
    BY <1>1 DEF LookedUpBy, Shadowed
  <2>2. \A q \in Workers \ {p} : LookedUpBy(q)'
    BY <1>1 DEF SInv, Held, LookedUp, LookedUpBy, Entry
  <2> QED
    BY <2>1, <2>2 DEF LookedUp
<1>5. BuysAreRecorded'
  BY <1>2 DEF BuysAreRecorded
<1> QED
  BY <1>3, <1>4, <1>5 DEF Held

LEMMA RestKeeps == SInv /\ (UNCHANGED vars \/ \E r \in Raws : Capture(r)) => Held'
<1> SUFFICES ASSUME SInv, UNCHANGED <<shadowRows, cards, orders, broker, positions, pc, raw, order,
                                      crashes, losses, shared>>
             PROVE  Held'
  BY DEF vars, Capture, shadowVars, buyVars, procVars, faultVars
<1>1. OverlapIsShared' /\ RowsOwn' /\ LookedUp'
  BY DEF SInv, Held, OverlapIsShared, InHand, RowsOwn, LookedUp, LookedUpBy, Entry
<1>2. BuysAreRecorded'
  BY DEF SInv, Held, BuysAreRecorded, BuysOf, Recording, Entry
<1> QED
  BY <1>1, <1>2 DEF Held

LEMMA NextSInv == SInv /\ [Next]_vars => SInv'
<1> SUFFICES ASSUME SInv, [Next]_vars PROVE SInv'
  OBVIOUS
<1>1. IInv'
  BY NextIInv DEF SInv
<1>2. Held'
  BY StartBatchKeeps, TakeStaleKeeps, TakeFreshKeeps, HandlerFailsKeeps, MarkProcessedKeeps,
     EndBatchKeeps, EndRepliesKeeps, FindShadowKeeps, AppendShadowKeeps, GuardKeeps, FindCardKeeps,
     AppendCardKeeps, CheckAutoKeeps, SubmitBuyKeeps, LookForPositionKeeps, WritePositionKeeps,
     SendReportKeeps, AppendActionKeeps, CrashKeeps, ApproveKeeps, SkipCardKeeps, RestKeeps
     DEF Next, Work, Batch, Route, PlaceBuy
<1> QED
  BY <1>1, <1>2 DEF SInv

LEMMA SharedInvariant == Spec => []SInv
<1>1. Init => SInv
  BY InitSInv
<1>2. SInv /\ [Next]_vars => SInv'
  BY NextSInv
<1> QED
  BY <1>1, <1>2, PTL DEF Spec

\* Two processes that do not have an alert in hand at the same time buy it once where no
\* answer is lost and no crash comes between, whatever they captured and however they take
\* turns: card and auto buy, and the keys of all captures, lead to one order.
THEOREM BoughtOnceUnlessShared == Spec => []OneBuyUnlessFault
<1>1. SInv => OneBuyUnlessFault
  BY DEF SInv, Held, BuysAreRecorded, BuysOf, OneBuyUnlessFault
<1> QED
  BY <1>1, SharedInvariant, PTL

-----------------------------------------------------------------------------
(* The processes together implement EntryOnce                              *)

bars == <<[e \in Entries |-> Len(shadowRows[e])],
          [e \in Entries |-> Cardinality({r \in broker : EntryOf[r] = e})],
          [e \in Entries |-> Len(positions[e])],
          shared>>

LEMMA OnceInit == Init => Once!Init
<1> SUFFICES ASSUME Init PROVE Once!Init
  OBVIOUS
<1>1. Len(<<>>) = 0 /\ Cardinality({}) = 0
  BY EmptySeq, FS_EmptySet
<1>2. \A e \in Entries : shadowRows[e] = <<>> /\ positions[e] = <<>> /\ {r \in broker : EntryOf[r] = e} = {}
  BY DEF Init
<1>3. \A e \in Entries : Cardinality({r \in broker : EntryOf[r] = e}) = 0
  BY <1>1, <1>2
<1>4. shared = {}
  BY DEF Init
<1> QED
  BY <1>1, <1>2, <1>3, <1>4 DEF Once!Init

\* The order of an entry that is shadowed and, unless it is shared, has no position: Buy.
LEMMA TakenIsBought ==
  ASSUME SInv, NEW key \in Raws, key \notin broker, broker' = broker \cup {key},
         shadowRows[EntryOf[key]] # <<>>,
         EntryOf[key] \in shared \/ positions[EntryOf[key]] = <<>>,
         UNCHANGED <<shadowRows, positions, shared>>
  PROVE  Once!Next
<1> DEFINE en == EntryOf[key]
<1>1. en \in Entries
  BY RawsAssumption
<1>2. en \in shared \/ (Len(shadowRows[en]) = 1 /\ Len(positions[en]) = 0)
  <2> SUFFICES ASSUME en \notin shared PROVE Len(shadowRows[en]) = 1 /\ Len(positions[en]) = 0
    OBVIOUS
  <2>1. shadowRows[en] \in Seq(Raws) /\ Len(shadowRows[en]) <= 1
    BY <1>1 DEF SInv, Held, IInv, TypeOK, RowsOwn
  <2>2. Len(shadowRows[en]) \in Nat /\ Len(shadowRows[en]) # 0
    BY <2>1, EmptySeq, LenProperties
  <2>3. Len(shadowRows[en]) = 1
    <3>1. \A n \in Nat : n # 0 /\ n <= 1 => n = 1
      OBVIOUS
    <3> QED
      BY <2>1, <2>2, <3>1, Zenon
  <2>4. Len(positions[en]) = 0
    BY EmptySeq
  <2> QED
    BY <2>3, <2>4
<1>3. \A e \in Entries : e # en => BuysOf(e)' = BuysOf(e)
  BY DEF BuysOf
<1>4. Cardinality(BuysOf(en)') = Cardinality(BuysOf(en)) + 1
  <2>1. IsFiniteSet(BuysOf(en)) /\ key \notin BuysOf(en)
    BY FS_Subset DEF SInv, Held, BuysAreRecorded, BuysOf
  <2>2. BuysOf(en)' = BuysOf(en) \cup {key}
    BY DEF BuysOf
  <2> QED
    BY <2>1, <2>2, FS_AddElement
<1>5. [e \in Entries |-> Cardinality(BuysOf(e)')]
        = [[e \in Entries |-> Cardinality(BuysOf(e))] EXCEPT ![en] = @ + 1]
  BY <1>1, <1>3, <1>4
<1>6. Once!Buy(en)
  BY <1>1, <1>2, <1>5 DEF Once!Buy, BuysOf
<1> QED
  BY <1>1, <1>6 DEF Once!Next

LEMMA OnceActions ==
  \A e \in Entries : Once!Shadow(e) \/ Once!Buy(e) \/ Once!Record(e) \/ Once!Share(e) => Once!Next
BY DEF Once!Next

LEMMA OnceStep == SInv /\ [Next]_vars => [Once!Next]_bars
<1> SUFFICES ASSUME SInv, [Next]_vars, ~(UNCHANGED <<shadowRows, broker, positions, shared>>)
             PROVE  Once!Next
  BY DEF bars
<1>1. CASE \E p \in Workers : AppendShadow(p)
  <2>1. PICK p \in Workers : AppendShadow(p)
    BY <1>1
  <2>2. /\ raw[p] \in Raws /\ Entry(p) \in Entries
        /\ Entry(p) \in shared \/ shadowRows[Entry(p)] = <<>>
        /\ shadowRows \in [Entries -> Seq(Raws)]
        /\ shadowRows' = [shadowRows EXCEPT ![Entry(p)] = Append(@, raw[p])]
        /\ UNCHANGED <<broker, positions, shared>>
    BY <2>1, Handling DEF AppendShadow, SInv, Held, IInv, TypeOK, LookedUp, LookedUpBy, buyVars, faultVars
  <2>3. Len(<<>>) = 0 /\ Len(Append(shadowRows[Entry(p)], raw[p])) = Len(shadowRows[Entry(p)]) + 1
    BY <2>2, EmptySeq, AppendProperties
  <2>4. [e \in Entries |-> Len(shadowRows'[e])]
          = [[e \in Entries |-> Len(shadowRows[e])] EXCEPT ![Entry(p)] = @ + 1]
    BY <2>2, <2>3
  <2>5. PICK e \in Entries : e = Entry(p)
    BY <2>2
  <2>6. Once!Shadow(e)
    BY <2>2, <2>3, <2>4, <2>5 DEF Once!Shadow
  <2> QED
    BY <2>6, OnceActions
<1>2. CASE \E p \in Workers : WritePosition(p)
  <2>1. PICK p \in Workers : WritePosition(p)
    BY <1>2
  <2>2. /\ order[p] \in Raws /\ Entry(p) \in Entries
        /\ Entry(p) \in shared \/ positions[Entry(p)] = <<>>
        /\ order[p] \in broker /\ EntryOf[order[p]] = Entry(p)
        /\ positions' = [positions EXCEPT ![Entry(p)] = Append(@, order[p])]
        /\ positions \in [Entries -> Seq(Raws)]
        /\ UNCHANGED <<broker, shadowRows, shared>>
    BY <2>1, Handling DEF WritePosition, SInv, Held, IInv, TypeOK, LookedUp, LookedUpBy, shadowVars, faultVars
  <2>3. Len(<<>>) = 0 /\ Len(Append(positions[Entry(p)], order[p])) = Len(positions[Entry(p)]) + 1
    BY <2>2, EmptySeq, AppendProperties
  <2>4. [e \in Entries |-> Len(positions'[e])]
          = [[e \in Entries |-> Len(positions[e])] EXCEPT ![Entry(p)] = @ + 1]
    BY <2>2, <2>3
  <2>5. Cardinality({r \in broker : EntryOf[r] = Entry(p)}) > 0
    <3>1. IsFiniteSet({r \in broker : EntryOf[r] = Entry(p)}) /\ {r \in broker : EntryOf[r] = Entry(p)} # {}
      BY <2>2, FS_Subset DEF SInv, Held, BuysAreRecorded
    <3> QED
      BY <3>1, FS_EmptySet, FS_CardinalityType
  <2>6. PICK e \in Entries : e = Entry(p)
    BY <2>2
  <2>7. Once!Record(e)
    BY <2>2, <2>3, <2>4, <2>5, <2>6 DEF Once!Record
  <2> QED
    BY <2>7, OnceActions
<1>3. CASE \E p \in Workers : SubmitBuy(p) \/ Crash(p)
  <2>1. PICK p \in Workers : SubmitBuy(p) \/ Crash(p)
    BY <1>3
  <2>2. /\ pc[p] = "submit" /\ orders[order[p]] = "none"
        /\ order[p] \notin broker /\ broker' = broker \cup {order[p]}
        /\ UNCHANGED <<shadowRows, positions, shared>>
    BY <2>1 DEF SubmitBuy, Crash, BrokerTakes, BrokerTakesUnheard, shadowVars
  <2>3. /\ order[p] \in Raws /\ shadowRows[EntryOf[order[p]]] # <<>>
        /\ EntryOf[order[p]] \in shared \/ positions[EntryOf[order[p]]] = <<>>
    BY <2>2 DEF SInv, Held, IInv, TypeOK, LookedUp, LookedUpBy, Shadowed
  <2> QED
    BY <2>2, <2>3, TakenIsBought
<1>4. CASE UNCHANGED vars \/ (\E r \in Raws : Capture(r))
  BY <1>4 DEF vars, Capture, shadowVars, buyVars, faultVars
<1>5. ASSUME NEW p \in Workers, TakeFresh(p) \/ \E e \in Entries : Approve(p, e)
      PROVE  Once!Next
  <2>1. UNCHANGED <<shadowRows, broker, positions>> /\ \E e \in Entries : Share(p, e)
    BY <1>5, RawsAssumption DEF TakeFresh, Approve, shadowVars, buyVars
  <2>2. PICK e \in Entries : shared' = shared \cup {e}
    BY <2>1 DEF Share
  <2>3. Once!Share(e)
    BY <2>1, <2>2 DEF Once!Share
  <2> QED
    BY <2>3, OnceActions
<1>6. ASSUME NEW p \in Workers,
             \/ StartBatch(p) \/ TakeStale(p) \/ HandlerFails(p) \/ MarkProcessed(p) \/ EndBatch(p)
             \/ EndReplies(p) \/ FindShadow(p) \/ Guard(p) \/ FindCard(p) \/ AppendCard(p)
             \/ CheckAuto(p) \/ LookForPosition(p) \/ SendReport(p) \/ AppendAction(p)
             \/ \E e \in Entries : SkipCard(p, e)
      PROVE  UNCHANGED <<shadowRows, broker, positions, shared>>
  BY <1>6 DEF StartBatch, TakeStale, HandlerFails, MarkProcessed, EndBatch, EndReplies,
              FindShadow, Guard, FindCard, AppendCard, CheckAuto, LookForPosition, SendReport,
              AppendAction, SkipCard, shadowVars, buyVars, faultVars
<1> QED
  BY <1>1, <1>2, <1>3, <1>4, <1>5, <1>6 DEF Next, Work, Batch, Route, PlaceBuy

\* Any processes, however they crash, lose answers and hear from the owner, give an alert
\* that no two of them have in hand at the same time one shadow position, one local
\* position after a buy, and no buy after that.
THEOREM RoutingImplementsEntryOnce == Spec => OnceSpec
<1>1. Init => Once!Init
  BY OnceInit
<1>2. SInv /\ [Next]_vars => [Once!Next]_bars
  BY OnceStep
<1> QED
  BY <1>1, <1>2, SharedInvariant, PTL DEF Spec, OnceSpec, Once!Spec, Once!entryVars, bars

\* Fresh captures are routed or logged and stale ones never bought, for any processes,
\* captures and faults.
THEOREM CapturesAreHandledByAge == Spec => []HandledByAge
<1>1. RoutedOrLogged /\ StaleNeverBought => HandledByAge
  BY DEF HandledByAge
<1> QED
  BY <1>1, FreshIsRoutedOrLogged, StaleIsNeverBought, PTL

=============================================================================
