--------------------------- MODULE Capture_proofs ---------------------------
(* Proofs about Capture, for any page, wordings, edits and faults. *)
EXTENDS Capture, TLAPS

\* A posted message has a text.
PostedHasText == \A m \in 1..posted : text[m] # Unseen

\* During a pass the copy of the raw file's keys is what the file holds.
RawSeenCurrent ==
  pc \in {"message", "records"} => rawSeen = {k \in Keys : rows[k] > 0}

\* During a pass the copy of the state differs from the file only in messages that
\* are captured by now, or that a marking pass marks when it saves.
KnownIsCaptured ==
  pc \in {"message", "records"} =>
    \A m \in Messages :
      known[m] # Unseen => known[m] = seen[m] \/ mode = "mark" \/ Captured(m, known[m])

\* The message in hand is in the ledger, and its records are written but for todo.
InHand ==
  pc = "records" =>
    /\ mode = "live"
    /\ <<message, page[message]>> \in ledger
    /\ \A i \in Records(page[message]) \ todo : rows[Key(message, page[message], i)] > 0

IInv ==
  /\ TypeOK
  /\ PostedHasText
  /\ RawSeenCurrent
  /\ KnownIsCaptured
  /\ InHand
  /\ RawOnce
  /\ SeenIsCaptured
  /\ EveryRawIsAudited

-----------------------------------------------------------------------------
(* Lemmas                                                                  *)

\* The records of a message in one of its wordings have keys of the raw file.
LEMMA KeyIsKey ==
  ASSUME NEW m \in Messages, NEW t \in Wordings[m], NEW i \in Records(t)
  PROVE  Key(m, t, i) \in Keys
BY DEF Keys

\* An unposted text has no records.
LEMMA UnseenIsNoWording ==
  ASSUME NEW m \in Messages
  PROVE  Unseen \notin Wordings[m]
BY CaptureAssumption

\* A text of a message that is not the empty one is one of its wordings.
LEMMA SeenTextIsWording ==
  ASSUME NEW f, PerMessage(f), NEW m \in Messages, f[m] # Unseen
  PROVE  f[m] \in Wordings[m]
BY DEF PerMessage, TextsOf

\* Changing one message's text to one of its own leaves a text per message.
LEMMA PerMessageUpdate ==
  ASSUME NEW f, PerMessage(f), NEW m \in Messages, NEW t \in TextsOf(m)
  PROVE  /\ PerMessage([f EXCEPT ![m] = t])
         /\ [f EXCEPT ![m] = t][m] = t
         /\ \A n \in Messages \ {m} : [f EXCEPT ![m] = t][n] = f[n]
BY DEF PerMessage, Texts

\* Nothing read is a text per message.
LEMMA PerMessageBlank == PerMessage([m \in Messages |-> Unseen])
BY DEF PerMessage, Texts, TextsOf

\* Rows are never taken back, so what is captured stays captured.
LEMMA CapturedStays ==
  ASSUME TypeOK, NEW m \in Messages, NEW t \in Wordings[m], Captured(m, t),
         NEW k \in Keys, rows' = [rows EXCEPT ![k] = @ + 1]
  PROVE  Captured(m, t)'
<1>1. \A j \in Keys : rows'[j] >= rows[j]
  BY DEF TypeOK
<1> SUFFICES ASSUME NEW i \in Records(t) PROVE rows'[Key(m, t, i)] > 0
  BY DEF Captured
<1>2. Key(m, t, i) \in Keys
  BY KeyIsKey
<1> QED
  BY <1>1, <1>2 DEF Captured, TypeOK

-----------------------------------------------------------------------------
(* The invariant                                                           *)

LEMMA InitIInv == Init => IInv
<1> SUFFICES ASSUME Init PROVE IInv
  OBVIOUS
<1>1. TypeOK
  BY PerMessageBlank, CaptureAssumption DEF Init, TypeOK
<1>2. PostedHasText /\ RawSeenCurrent /\ KnownIsCaptured /\ InHand
  BY DEF Init, PostedHasText, RawSeenCurrent, KnownIsCaptured, InHand
<1>3. RawOnce /\ SeenIsCaptured /\ EveryRawIsAudited
  BY DEF Init, RawOnce, SeenIsCaptured, EveryRawIsAudited
<1> QED
  BY <1>1, <1>2, <1>3 DEF IInv

\* What a step that leaves files and memory alone keeps.
LEMMA FilesAndMemoryAlone ==
  ASSUME IInv, UNCHANGED <<fileVars, pc, mode, memoVars>>
  PROVE  /\ (RawSeenCurrent /\ KnownIsCaptured /\ InHand)'
         /\ (RawOnce /\ SeenIsCaptured /\ EveryRawIsAudited)'
<1> USE DEF fileVars, memoVars
<1>1. RawSeenCurrent'
  BY DEF IInv, RawSeenCurrent
<1>2. KnownIsCaptured'
  BY DEF IInv, KnownIsCaptured, Captured
<1>3. InHand'
  BY DEF IInv, InHand
<1>4. (RawOnce /\ SeenIsCaptured /\ EveryRawIsAudited)'
  BY DEF IInv, RawOnce, SeenIsCaptured, EveryRawIsAudited, Captured
<1> QED
  BY <1>1, <1>2, <1>3, <1>4

\* What a step that leaves the files alone and drops or keeps no pass keeps.
LEMMA FilesAloneOffPass ==
  ASSUME IInv, UNCHANGED fileVars, pc' \in {"down", "idle"}
  PROVE  /\ (RawSeenCurrent /\ KnownIsCaptured /\ InHand)'
         /\ (RawOnce /\ SeenIsCaptured /\ EveryRawIsAudited)'
<1> USE DEF fileVars
<1>1. (RawSeenCurrent /\ KnownIsCaptured /\ InHand)'
  BY DEF RawSeenCurrent, KnownIsCaptured, InHand
<1>2. (RawOnce /\ SeenIsCaptured /\ EveryRawIsAudited)'
  BY DEF IInv, RawOnce, SeenIsCaptured, EveryRawIsAudited, Captured
<1> QED
  BY <1>1, <1>2

LEMMA PostStep == IInv /\ Post => IInv'
<1> SUFFICES ASSUME IInv, Post PROVE IInv'
  OBVIOUS
<1> USE DEF pageVars, fileVars, memoVars
<1>1. PICK t \in Wordings[posted + 1] : text' = [text EXCEPT ![posted + 1] = t]
  BY DEF Post
<1>2. posted + 1 \in Messages /\ posted' = posted + 1
  BY CaptureAssumption DEF IInv, TypeOK, Post, Messages
<1>3. TypeOK'
  <2>1. PerMessage(text)'
    <3>1. t \in TextsOf(posted + 1)
      BY DEF TextsOf
    <3> QED
      BY <1>1, <1>2, <3>1, PerMessageUpdate DEF IInv, TypeOK, PerMessage
  <2>2. posted' \in 0..LastMessage /\ aged' \in 0..posted'
    BY CaptureAssumption DEF IInv, TypeOK, Post
  <2> QED
    BY <2>1, <2>2 DEF IInv, TypeOK, Post, PerMessage
<1>4. PostedHasText'
  BY <1>1, <1>2, UnseenIsNoWording DEF IInv, TypeOK, PostedHasText, PerMessage, Messages
<1> QED
  BY <1>3, <1>4, FilesAndMemoryAlone DEF IInv, Post

LEMMA EditStep == ASSUME NEW m \in Messages PROVE IInv /\ Edit(m) => IInv'
<1> SUFFICES ASSUME IInv, Edit(m) PROVE IInv'
  OBVIOUS
<1> USE DEF pageVars, fileVars, memoVars
<1>1. PICK t \in Wordings[m] : text' = [text EXCEPT ![m] = t]
  BY DEF Edit
<1>2. TypeOK'
  <2>1. PerMessage(text)'
    <3>1. t \in TextsOf(m)
      BY DEF TextsOf
    <3> QED
      BY <1>1, <3>1, PerMessageUpdate DEF IInv, TypeOK, PerMessage
  <2> QED
    BY <2>1, CaptureAssumption DEF IInv, TypeOK, Edit, PerMessage
<1>3. PostedHasText'
  BY <1>1, UnseenIsNoWording DEF IInv, TypeOK, PostedHasText, PerMessage, Edit
<1> QED
  BY <1>2, <1>3, FilesAndMemoryAlone DEF IInv, Edit

LEMMA GrowOldStep == IInv /\ GrowOld => IInv'
<1> SUFFICES ASSUME IInv, GrowOld PROVE IInv'
  OBVIOUS
<1> USE DEF pageVars, fileVars, memoVars
<1>1. TypeOK'
  BY DEF IInv, TypeOK, GrowOld, PerMessage
<1>2. PostedHasText'
  BY DEF IInv, PostedHasText, GrowOld
<1> QED
  BY <1>1, <1>2, FilesAndMemoryAlone DEF IInv, GrowOld

LEMMA ForgetTypes ==
  ASSUME IInv, Forget, UNCHANGED pageVars, UNCHANGED fileVars, pc' \in {"down", "idle"},
         mode' \in {"mark", "live"}, faults' \in 0..MaxFaults
  PROVE  TypeOK' /\ PostedHasText'
<1> USE DEF pageVars, fileVars
<1>1. PerMessage(page)' /\ PerMessage(known)'
  BY PerMessageBlank DEF Forget
<1> QED
  BY <1>1 DEF IInv, TypeOK, Forget, PostedHasText, PerMessage

LEMMA OffPassStep == IInv /\ (Start \/ MarkFails \/ ChannelFails \/ Crash) => IInv'
<1> SUFFICES ASSUME IInv, Start \/ MarkFails \/ ChannelFails \/ Crash PROVE IInv'
  OBVIOUS
<1>1. CASE Start \/ MarkFails
  <2> USE <1>1 DEF pageVars, fileVars, memoVars
  <2>1. TypeOK' /\ PostedHasText'
    BY CaptureAssumption DEF IInv, TypeOK, Start, MarkFails, PostedHasText, PerMessage
  <2>2. pc' \in {"down", "idle"} /\ UNCHANGED fileVars
    BY DEF Start, MarkFails
  <2> QED
    BY <2>1, <2>2, FilesAloneOffPass DEF IInv
<1>2. CASE ChannelFails \/ Crash
  <2>1. /\ pc' \in {"down", "idle"} /\ UNCHANGED <<pageVars, fileVars>> /\ Forget
        /\ mode' \in {"mark", "live"} /\ faults' \in 0..MaxFaults
    BY <1>2, CaptureAssumption DEF IInv, TypeOK, ChannelFails, Crash
  <2> QED
    BY <2>1, ForgetTypes, FilesAloneOffPass DEF IInv
<1> QED
  BY <1>1, <1>2

\* What a step of a pass that leaves the files alone keeps.
LEMMA FilesAlone ==
  ASSUME IInv, UNCHANGED fileVars
  PROVE  (RawOnce /\ SeenIsCaptured /\ EveryRawIsAudited)'
BY DEF fileVars, IInv, RawOnce, SeenIsCaptured, EveryRawIsAudited, Captured

LEMMA ReadPageStep == IInv /\ ReadPage => IInv'
<1> SUFFICES ASSUME IInv, ReadPage PROVE IInv'
  OBVIOUS
<1> USE DEF pageVars, fileVars
<1>1. \A m \in Candidates \cup LateEdits : m \in 1..posted /\ m \in Messages
  BY CaptureAssumption DEF Candidates, LateEdits, Changed, IInv, TypeOK, Messages
<1>2. TypeOK'
  <2>1. queue' \subseteq Messages /\ \A m \in queue' : page'[m] # Unseen
    BY <1>1 DEF ReadPage, IInv, PostedHasText
  <2> QED
    BY <2>1 DEF IInv, TypeOK, ReadPage, PerMessage
<1>3. PostedHasText' /\ RawSeenCurrent' /\ InHand'
  BY DEF IInv, TypeOK, ReadPage, PostedHasText, RawSeenCurrent, InHand
<1>4. KnownIsCaptured'
  BY DEF ReadPage, KnownIsCaptured
<1> QED
  BY <1>2, <1>3, <1>4, FilesAlone DEF IInv, ReadPage

LEMMA PassOverStep == ASSUME NEW m \in Messages PROVE IInv /\ PassOver(m) => IInv'
<1> SUFFICES ASSUME IInv, PassOver(m) PROVE IInv'
  OBVIOUS
<1> USE DEF pageVars, fileVars
<1>1. TypeOK'
  BY DEF IInv, TypeOK, PassOver, PerMessage
<1>2. PostedHasText' /\ RawSeenCurrent' /\ InHand'
  BY DEF IInv, PassOver, PostedHasText, RawSeenCurrent, InHand
<1>3. KnownIsCaptured'
  BY DEF IInv, PassOver, KnownIsCaptured, Captured
<1> QED
  BY <1>1, <1>2, <1>3, FilesAlone DEF IInv, PassOver

LEMMA MarkMessageStep == ASSUME NEW m \in Messages PROVE IInv /\ MarkMessage(m) => IInv'
<1> SUFFICES ASSUME IInv, MarkMessage(m) PROVE IInv'
  OBVIOUS
<1> USE DEF pageVars, fileVars
<1>1. TypeOK'
  <2>1. PerMessage(known)'
    <3>1. page[m] \in TextsOf(m) /\ PerMessage(known)
      BY DEF IInv, TypeOK, PerMessage
    <3>2. known' = [known EXCEPT ![m] = page[m]]
      BY DEF MarkMessage
    <3> QED
      BY <3>1, <3>2, PerMessageUpdate DEF PerMessage
  <2> QED
    BY <2>1 DEF IInv, TypeOK, MarkMessage, PerMessage
<1>2. PostedHasText' /\ RawSeenCurrent' /\ InHand'
  BY DEF IInv, MarkMessage, PostedHasText, RawSeenCurrent, InHand
<1>3. KnownIsCaptured'
  BY DEF MarkMessage, KnownIsCaptured
<1> QED
  BY <1>1, <1>2, <1>3, FilesAlone DEF IInv, MarkMessage

LEMMA TakeMessageStep == ASSUME NEW m \in Messages PROVE IInv /\ TakeMessage(m) => IInv'
<1> SUFFICES ASSUME IInv, TakeMessage(m) PROVE IInv'
  OBVIOUS
<1> USE DEF pageVars
<1>1. page[m] \in Wordings[m]
  BY SeenTextIsWording DEF IInv, TypeOK, TakeMessage
<1>2. TypeOK'
  <2>1. ledger' \subseteq Readings
    BY <1>1 DEF IInv, TypeOK, TakeMessage, Readings, TextsOf
  <2> QED
    BY <2>1 DEF IInv, TypeOK, TakeMessage, PerMessage
<1>3. PostedHasText' /\ RawSeenCurrent' /\ InHand'
  BY DEF IInv, TakeMessage, PostedHasText, RawSeenCurrent, InHand
<1>4. KnownIsCaptured'
  BY DEF IInv, TakeMessage, KnownIsCaptured, Captured
<1>5. (RawOnce /\ SeenIsCaptured)'
  BY DEF IInv, TakeMessage, RawOnce, SeenIsCaptured, Captured
<1>6. EveryRawIsAudited'
  BY DEF IInv, TakeMessage, EveryRawIsAudited
<1> QED
  BY <1>2, <1>3, <1>4, <1>5, <1>6 DEF IInv

LEMMA AppendRawStep == ASSUME NEW i \in todo PROVE IInv /\ AppendRaw(i) => IInv'
<1> SUFFICES ASSUME IInv, AppendRaw(i) PROVE IInv'
  OBVIOUS
<1> USE DEF pageVars
<1> DEFINE t == page[message]
           key == Key(message, t, i)
<1>1. pc = "records" /\ message \in Messages /\ i \in Records(t) /\ t \in Wordings[message]
  BY SeenTextIsWording DEF IInv, TypeOK, AppendRaw
<1>2. key \in Keys
  BY <1>1, KeyIsKey
<1>3. /\ key \in rawSeen <=> rows[key] > 0
      /\ rows' = IF key \in rawSeen THEN rows ELSE [rows EXCEPT ![key] = @ + 1]
      /\ rawSeen' = rawSeen \cup {key}
      /\ todo' = todo \ {i}
  BY <1>1, <1>2 DEF IInv, RawSeenCurrent, AppendRaw
<1>4. rows \in [Keys -> Nat] /\ rows' \in [Keys -> Nat]
  BY <1>2, <1>3 DEF IInv, TypeOK
<1>5. /\ rows'[key] > 0
      /\ \A k \in Keys : rows[k] > 0 => rows'[k] > 0
      /\ \A k \in Keys \ {key} : rows'[k] = rows[k]
      /\ rows'[key] = 1 \/ rows'[key] = rows[key]
  BY <1>2, <1>3, <1>4
<1>6. TypeOK'
  BY <1>1, <1>2, <1>3, <1>4 DEF IInv, TypeOK, AppendRaw, PerMessage
<1>7. PostedHasText'
  BY DEF IInv, PostedHasText, AppendRaw
<1>8. RawSeenCurrent'
  BY <1>1, <1>2, <1>3, <1>5 DEF IInv, RawSeenCurrent, AppendRaw
<1>9. \A n \in Messages : \A u \in Wordings[n] : Captured(n, u) => Captured(n, u)'
  BY <1>5, KeyIsKey DEF Captured
<1>10. KnownIsCaptured'
  <2>1. \A n \in Messages : known[n] # Unseen => known[n] \in Wordings[n]
    BY SeenTextIsWording DEF IInv, TypeOK
  <2> QED
    BY <1>1, <1>9, <2>1 DEF IInv, KnownIsCaptured, AppendRaw, Captured
<1>11. InHand'
  <2>1. \A j \in Records(t) \ todo' : rows'[Key(message, t, j)] > 0
    <3> SUFFICES ASSUME NEW j \in Records(t) \ todo' PROVE rows'[Key(message, t, j)] > 0
      OBVIOUS
    <3>1. CASE j = i
      BY <3>1, <1>5
    <3>2. CASE j # i
      BY <3>2, <1>1, <1>3, <1>5, KeyIsKey DEF IInv, InHand
    <3> QED
      BY <3>1, <3>2
  <2> QED
    BY <2>1, <1>1 DEF IInv, InHand, AppendRaw
<1>12. RawOnce'
  BY <1>2, <1>5 DEF IInv, RawOnce
<1>13. SeenIsCaptured'
  <2>1. \A n \in Messages : seen[n] # Unseen => seen[n] \in Wordings[n]
    BY SeenTextIsWording DEF IInv, TypeOK
  <2> QED
    BY <1>9, <2>1 DEF IInv, SeenIsCaptured, AppendRaw, Captured
<1>14. EveryRawIsAudited'
  <2>1. <<message, t>> \in ledger /\ ledger' = ledger
    BY <1>1 DEF IInv, InHand, AppendRaw
  <2> SUFFICES ASSUME NEW k \in Keys, rows'[k] > 0
               PROVE  \E entry \in ledger : \E j \in Records(entry[2]) : k = Key(entry[1], entry[2], j)
    BY <2>1 DEF EveryRawIsAudited
  <2>2. CASE k = key
    BY <2>1, <2>2, <1>1
  <2>3. CASE k # key
    BY <2>3, <1>5 DEF IInv, EveryRawIsAudited
  <2> QED
    BY <2>2, <2>3
<1> QED
  BY <1>6, <1>7, <1>8, <1>10, <1>11, <1>12, <1>13, <1>14 DEF IInv

LEMMA FinishMessageStep == IInv /\ FinishMessage => IInv'
<1> SUFFICES ASSUME IInv, FinishMessage PROVE IInv'
  OBVIOUS
<1> USE DEF pageVars, fileVars
<1>1. /\ pc = "records" /\ message \in Messages /\ PerMessage(known)
      /\ page[message] \in TextsOf(message)
      /\ known' = [known EXCEPT ![message] = page[message]]
  BY DEF IInv, TypeOK, FinishMessage, PerMessage
<1>2. /\ PerMessage(known')
      /\ known'[message] = page[message]
      /\ \A n \in Messages \ {message} : known'[n] = known[n]
  BY <1>1, PerMessageUpdate DEF PerMessage
<1>3. TypeOK'
  BY <1>1, <1>2 DEF IInv, TypeOK, FinishMessage, PerMessage
<1>4. PostedHasText' /\ RawSeenCurrent' /\ InHand'
  BY DEF IInv, FinishMessage, PostedHasText, RawSeenCurrent, InHand
<1>5. Captured(message, page[message])
  BY <1>1 DEF IInv, InHand, FinishMessage, Captured
<1>6. KnownIsCaptured'
  BY <1>1, <1>2, <1>5 DEF IInv, FinishMessage, KnownIsCaptured, Captured
<1> QED
  BY <1>3, <1>4, <1>6, FilesAlone DEF IInv, FinishMessage

LEMMA SaveStateStep == IInv /\ SaveState => IInv'
<1> SUFFICES ASSUME IInv, SaveState PROVE IInv'
  OBVIOUS
<1> USE DEF pageVars
<1>1. TypeOK'
  <2>1. PerMessage(page)' /\ PerMessage(known)' /\ PerMessage(seen)'
    BY PerMessageBlank DEF IInv, TypeOK, SaveState, Forget, PerMessage
  <2>2. marked' \subseteq Readings
    <3>1. \A m \in Messages : <<m, known[m]>> \in Readings
      BY DEF IInv, TypeOK, PerMessage, Readings
    <3> QED
      BY <3>1 DEF IInv, TypeOK, SaveState
  <2> QED
    BY <2>1, <2>2 DEF IInv, TypeOK, SaveState, Forget, PerMessage
<1>2. (PostedHasText /\ RawSeenCurrent /\ KnownIsCaptured /\ InHand)'
  BY DEF IInv, SaveState, PostedHasText, RawSeenCurrent, KnownIsCaptured, InHand
<1>3. (RawOnce /\ EveryRawIsAudited)'
  BY DEF IInv, SaveState, RawOnce, EveryRawIsAudited
<1>4. SeenIsCaptured'
  <2> SUFFICES ASSUME NEW m \in Messages, seen'[m] # Unseen, <<m, seen'[m]>> \notin marked'
               PROVE  Captured(m, seen[m])'
    BY DEF SeenIsCaptured
  <2>1. seen' = known /\ rows' = rows /\ marked \subseteq marked' /\ pc = "message"
    BY DEF SaveState
  <2>2. CASE known[m] = seen[m]
    BY <2>1, <2>2 DEF IInv, SeenIsCaptured, Captured
  <2>3. CASE known[m] # seen[m]
    <3>1. mode # "mark"
      BY <2>1, <2>3 DEF SaveState
    <3> QED
      BY <3>1, <2>1, <2>3 DEF IInv, KnownIsCaptured, Captured
  <2> QED
    BY <2>2, <2>3
<1> QED
  BY <1>1, <1>2, <1>3, <1>4 DEF IInv

-----------------------------------------------------------------------------
(* Theorems                                                                *)

LEMMA NextIInv == IInv /\ [Next]_vars => IInv'
<1> SUFFICES ASSUME IInv, [Next]_vars PROVE IInv'
  OBVIOUS
<1>1. CASE Post \/ GrowOld \/ \E m \in Messages : Edit(m)
  BY <1>1, PostStep, GrowOldStep, EditStep
<1>2. CASE Start \/ MarkFails \/ ChannelFails \/ Crash
  BY <1>2, OffPassStep
<1>3. CASE ReadPage \/ FinishMessage \/ SaveState
  BY <1>3, ReadPageStep, FinishMessageStep, SaveStateStep
<1>4. CASE \E m \in Messages : PassOver(m) \/ MarkMessage(m) \/ TakeMessage(m)
  BY <1>4, PassOverStep, MarkMessageStep, TakeMessageStep
<1>5. CASE \E i \in todo : AppendRaw(i)
  BY <1>5, AppendRawStep
<1>6. CASE UNCHANGED vars
  <2> USE <1>6 DEF vars, pageVars, fileVars, memoVars
  <2>1. TypeOK' /\ PostedHasText'
    BY DEF IInv, TypeOK, PerMessage, PostedHasText
  <2> QED
    BY <2>1, FilesAndMemoryAlone DEF IInv
<1> QED
  BY <1>1, <1>2, <1>3, <1>4, <1>5, <1>6 DEF Next, Pass

\* In every behaviour the invariant holds in every state.
LEMMA InvariantHolds == Spec => []IInv
<1> QED
  BY InitIInv, NextIInv, PTL DEF Spec

\* Types, for every page, wordings and number of faults.
THEOREM TypeCorrect == Spec => []TypeOK
<1>1. IInv => TypeOK
  BY DEF IInv
<1> QED
  BY <1>1, InvariantHolds, PTL

\* No record is written twice, however often the watcher dies or a text goes back.
THEOREM RecordsAreUnique == Spec => []RawOnce
<1>1. IInv => RawOnce
  BY DEF IInv
<1> QED
  BY <1>1, InvariantHolds, PTL

\* The state file never runs ahead of the raw file, but by a marking pass.
THEOREM StateFollowsRecords == Spec => []SeenIsCaptured
<1>1. IInv => SeenIsCaptured
  BY DEF IInv
<1> QED
  BY <1>1, InvariantHolds, PTL

\* Every record is explained by the ledger of messages.
THEOREM RecordsAreExplained == Spec => []EveryRawIsAudited
<1>1. IInv => EveryRawIsAudited
  BY DEF IInv
<1> QED
  BY <1>1, InvariantHolds, PTL

\* Every browser record is written once and explained by the ledger of messages, for any
\* page, edits and faults.
THEOREM RecordsStaySound == Spec => []RecordsAreSound
<1>1. RawOnce /\ EveryRawIsAudited => RecordsAreSound
  BY DEF RecordsAreSound
<1> QED
  BY <1>1, RecordsAreUnique, RecordsAreExplained, PTL

=============================================================================
