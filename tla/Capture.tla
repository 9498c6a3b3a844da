------------------------------ MODULE Capture ------------------------------
(***************************************************************************)
(* The browser watcher as a writer of raw_notifications.jsonl              *)
(* (scripts/discord_browser_channel_watcher.py): one pass over a channel   *)
(* reads the page, picks the messages to look at, writes their records and *)
(* saves what it has seen.  Steve edits messages at any time, messages     *)
(* leave the age window, the watcher dies anywhere and is started again,   *)
(* with a marking pass (run_browser_watcher_foreground.sh) or without one  *)
(* (the launch agent).                                                     *)
(*                                                                         *)
(* Messages are numbered as they stand on the page.  A text is a sequence  *)
(* of lines, as useful_lines and the parser sort them; its fingerprint is  *)
(* the text.  A record is identified by its message and its body, which    *)
(* are what its dedupe key hashes.  The channels are read one after the    *)
(* other and share only the files, so one channel is modelled.             *)
(* Processing of the raws is EntryRouting.                                 *)
(***************************************************************************)
EXTENDS Naturals, Sequences

CONSTANTS
  LastMessage,  \* the page has messages 1 to LastMessage
  Wordings,     \* the texts a message may have
  Named,        \* messages whose text names the author that is followed
  MayLackTime,  \* messages whose text may show no time
  StartModes,   \* how the watcher is started: "mark" first, or "live" at once
  MaxEdits,     \* bound: edits in a behaviour
  MaxFaults     \* bound: crashes of the watcher and passes that end in an exception

Messages == 1..LastMessage
Line == [kind : {"entry", "exit", "add", "talk"}, what : Nat]
Unseen == <<>>   \* no text: not posted, or not seen

ASSUME CaptureAssumption ==
  /\ LastMessage \in Nat
  /\ Wordings \in [Messages -> SUBSET (Seq(Line) \ {Unseen})]
  /\ Named \subseteq Messages /\ MayLackTime \subseteq Messages
  /\ StartModes \subseteq {"mark", "live"}
  /\ MaxEdits \in Nat /\ MaxFaults \in Nat

-----------------------------------------------------------------------------
(* build_raw_records: which lines become records, and with what body       *)

EntriesBefore(t, i) == {j \in 1..(i - 1) : t[j].kind = "entry"}

\* The contract of an exit or an addition is that of the last entry above it.
Body(t, i) ==
  IF t[i].kind = "entry" \/ EntriesBefore(t, i) = {}
  THEN <<t[i]>>
  ELSE LET above == CHOOSE j \in EntriesBefore(t, i) : \A k \in EntriesBefore(t, i) : k <= j
       IN  <<t[above], t[i]>>

HasExit(t) == \E i \in DOMAIN t : t[i].kind = "exit"

\* An entry beside an exit is the message that is replied to, and not sent again.
IsRecord(t, i) ==
  \/ t[i].kind = "entry" /\ ~HasExit(t)
  \/ t[i].kind = "exit"
  \/ t[i].kind = "add" /\ EntriesBefore(t, i) # {}

Records(t) ==
  {i \in DOMAIN t : IsRecord(t, i) /\ \A j \in 1..(i - 1) : IsRecord(t, j) => Body(t, j) # Body(t, i)}

Key(m, t, i) == <<m, Body(t, i)>>
Keys == UNION {UNION {{Key(m, t, i) : i \in Records(t)} : t \in Wordings[m]} : m \in Messages}

VARIABLES
  posted,    \* messages 1..posted are on the page
  aged,      \* messages 1..aged have left the age window
  timeless,  \* messages whose text shows no time
  text,      \* what each message says now
  edits,
  rows,      \* raw_notifications.jsonl: how many rows have this key
  ledger,    \* discord_browser_messages.jsonl: messages with their text
  seen,      \* the state file: the text each message was last seen with
  marked,    \* history: texts set down as seen by a marking pass
  pc,        \* where the watcher is
  mode,      \* "mark" or "live"
  page,      \* its snapshot of the page
  known,     \* its copy of the state
  rawSeen,   \* its copy of the keys in the raw file
  queue,     \* messages it still has to look at
  message,   \* the message whose records it is writing
  todo,      \* the records it still has to write
  faults

pageVars  == <<posted, aged, timeless, text, edits>>
fileVars  == <<rows, ledger, seen, marked>>
memoVars  == <<page, known, rawSeen, queue, message, todo>>
vars == <<pageVars, fileVars, pc, mode, memoVars, faults>>

Captured(m, t) == \A i \in Records(t) : rows[Key(m, t, i)] > 0

-----------------------------------------------------------------------------
(* Steve and the clock                                                     *)

Post ==
  /\ posted < LastMessage
  /\ posted' = posted + 1
  /\ \E t \in Wordings[posted + 1] : text' = [text EXCEPT ![posted + 1] = t]
  /\ UNCHANGED <<aged, timeless, edits, fileVars, pc, mode, memoVars, faults>>

Edit(m) ==
  /\ edits < MaxEdits
  /\ m <= posted
  /\ \E t \in Wordings[m] \ {text[m]} : text' = [text EXCEPT ![m] = t]
  /\ edits' = edits + 1
  /\ UNCHANGED <<posted, aged, timeless, fileVars, pc, mode, memoVars, faults>>

GrowOld ==
  /\ aged < posted
  /\ aged' = aged + 1
  /\ UNCHANGED <<posted, timeless, text, edits, fileVars, pc, mode, memoVars, faults>>

-----------------------------------------------------------------------------
(* One pass                                                                *)

\* A message without a time is of unknown age: only the marking pass allows it.
InWindow(m) == mode = "mark" \/ (m > aged /\ m \notin timeless)

\* filter_candidate_messages: an author holds for the messages below, until the
\* next one that is followed.
Candidates ==
  {m \in 1..posted : InWindow(m) /\ \E n \in 1..m : n \in Named}

\* include_changed_seen_messages: messages seen before that read differently now.
\* Here the author is looked for among the changed messages only.
Changed == {m \in (1..posted) \ Candidates : seen[m] \notin {Unseen, text[m]}}
\* (slip: no message is looked at again)
NoLateEdits == {}
LateEdits == {m \in Changed : \E n \in Changed : n <= m /\ n \in Named}

Forget ==
  /\ page' = [m \in Messages |-> Unseen]
  /\ known' = [m \in Messages |-> Unseen]
  /\ rawSeen' = {}
  /\ queue' = {}
  /\ message' = 0
  /\ todo' = {}

Start ==
  /\ pc = "down"
  /\ mode' \in StartModes
  /\ pc' = "idle"
  /\ UNCHANGED <<pageVars, fileVars, memoVars, faults>>

ReadPage ==
  /\ pc = "idle"
  /\ page' = text
  /\ known' = seen
  /\ rawSeen' = {k \in Keys : rows[k] > 0}
  /\ queue' = Candidates \cup LateEdits
  /\ pc' = "message"
  /\ UNCHANGED <<pageVars, fileVars, mode, message, todo, faults>>

\* The marking pass is not repeated when the page cannot be read.
MarkFails ==
  /\ pc = "idle" /\ mode = "mark"
  /\ mode' = "live"
  /\ UNCHANGED <<pageVars, fileVars, pc, memoVars, faults>>

\* The candidates come in page order, then the late edits; any order is allowed here.
PassOver(m) ==
  /\ pc = "message"
  /\ m \in queue
  /\ known[m] = page[m]
  /\ queue' = queue \ {m}
  /\ UNCHANGED <<pageVars, fileVars, pc, mode, page, known, rawSeen, message, todo, faults>>

MarkMessage(m) ==
  /\ pc = "message" /\ mode = "mark"
  /\ m \in queue
  /\ known[m] # page[m]
  /\ known' = [known EXCEPT ![m] = page[m]]
  /\ queue' = queue \ {m}
  /\ UNCHANGED <<pageVars, fileVars, pc, mode, page, rawSeen, message, todo, faults>>

\* (slip: the state is saved before the records are written)
TakeMessageSaved(m) ==
  /\ pc = "message" /\ mode = "live"
  /\ m \in queue
  /\ known[m] # page[m]
  /\ ledger' = ledger \cup {<<m, page[m]>>}
  /\ seen' = [seen EXCEPT ![m] = page[m]]
  /\ message' = m
  /\ todo' = Records(page[m])
  /\ pc' = "records"
  /\ UNCHANGED <<pageVars, rows, marked, mode, page, known, rawSeen, queue, faults>>

TakeMessage(m) ==
  /\ pc = "message" /\ mode = "live"
  /\ m \in queue
  /\ known[m] # page[m]
  /\ ledger' = ledger \cup {<<m, page[m]>>}
  /\ message' = m
  /\ todo' = Records(page[m])
  /\ pc' = "records"
  /\ UNCHANGED <<pageVars, rows, seen, marked, mode, page, known, rawSeen, queue, faults>>

\* (slip: what the state file says is thought to be enough)
AppendRawAgain(i) ==
  /\ pc = "records"
  /\ i \in todo /\ \A j \in todo : i <= j
  /\ rows' = [rows EXCEPT ![Key(message, page[message], i)] = @ + 1]
  /\ rawSeen' = rawSeen \cup {Key(message, page[message], i)}
  /\ todo' = todo \ {i}
  /\ UNCHANGED <<pageVars, ledger, seen, marked, pc, mode, page, known, queue, message, faults>>
AppendRaw(i) ==
  LET key == Key(message, page[message], i)
  IN  /\ pc = "records"
      /\ i \in todo /\ \A j \in todo : i <= j
      /\ rows' = IF key \in rawSeen THEN rows ELSE [rows EXCEPT ![key] = @ + 1]
      /\ rawSeen' = rawSeen \cup {key}
      /\ todo' = todo \ {i}
      /\ UNCHANGED <<pageVars, ledger, seen, marked, pc, mode, page, known, queue, message, faults>>

FinishMessage ==
  /\ pc = "records"
  /\ todo = {}
  /\ known' = [known EXCEPT ![message] = page[message]]
  /\ queue' = queue \ {message}
  /\ message' = 0
  /\ pc' = "message"
  /\ UNCHANGED <<pageVars, fileVars, mode, page, rawSeen, todo, faults>>

\* Written to a temporary file and moved into place.
SaveState ==
  /\ pc = "message"
  /\ queue = {}
  /\ seen' = known
  /\ marked' = IF mode = "mark"
               THEN marked \cup {<<m, known[m]>> : m \in {n \in Messages : known[n] # seen[n]}}
               ELSE marked
  /\ mode' = "live"
  /\ pc' = "idle"
  /\ Forget
  /\ UNCHANGED <<pageVars, rows, ledger, faults>>

\* An exception ends the pass over the channel; the state is not saved.
ChannelFails ==
  /\ faults < MaxFaults
  /\ pc \in {"message", "records"}
  /\ pc' = "idle"
  /\ mode' = "live"
  /\ Forget
  /\ faults' = faults + 1
  /\ UNCHANGED <<pageVars, fileVars>>

Crash ==
  /\ faults < MaxFaults
  /\ pc # "down"
  /\ pc' = "down"
  /\ mode' = "live"
  /\ Forget
  /\ faults' = faults + 1
  /\ UNCHANGED <<pageVars, fileVars>>

-----------------------------------------------------------------------------
(* The specification                                                       *)

Init ==
  /\ posted = 0
  /\ aged = 0
  /\ timeless \in SUBSET MayLackTime
  /\ text = [m \in Messages |-> Unseen]
  /\ edits = 0
  /\ rows = [k \in Keys |-> 0]
  /\ ledger = {}
  /\ seen = [m \in Messages |-> Unseen]
  /\ marked = {}
  /\ pc = "down"
  /\ mode = "live"
  /\ page = [m \in Messages |-> Unseen]
  /\ known = [m \in Messages |-> Unseen]
  /\ rawSeen = {}
  /\ queue = {}
  /\ message = 0
  /\ todo = {}
  /\ faults = 0

Pass ==
  \/ ReadPage \/ FinishMessage \/ SaveState
  \/ \E m \in Messages : PassOver(m) \/ MarkMessage(m) \/ TakeMessage(m)
  \/ \E i \in todo : AppendRaw(i)

Next ==
  \/ Post \/ GrowOld \/ \E m \in Messages : Edit(m)
  \/ Start \/ Pass \/ MarkFails \/ ChannelFails \/ Crash

Spec == Init /\ [][Next]_vars

\* The watcher loops, and is started again when it is down; page reads succeed
\* if tried for ever.  Nobody need post, edit or wait.
FairSpec == Spec /\ WF_vars(Pass) /\ WF_vars(Start)

-----------------------------------------------------------------------------
(* Properties                                                              *)

TextsOf(m) == Wordings[m] \cup {Unseen}
Readings == UNION {{m} \X TextsOf(m) : m \in Messages}   \* a message with a text
Texts == UNION {TextsOf(m) : m \in Messages}
PerMessage(f) == f \in [Messages -> Texts] /\ \A m \in Messages : f[m] \in TextsOf(m)

\* Every variable has its type; between passes nothing is left in memory.
TypeOK ==
  /\ posted \in 0..LastMessage
  /\ aged \in 0..posted
  /\ timeless \subseteq MayLackTime
  /\ PerMessage(text)
  /\ edits \in 0..MaxEdits
  /\ rows \in [Keys -> Nat]
  /\ ledger \subseteq Readings
  /\ PerMessage(seen)
  /\ marked \subseteq Readings
  /\ pc \in {"down", "idle", "message", "records"}
  /\ mode \in {"mark", "live"}
  /\ PerMessage(page)
  /\ PerMessage(known)
  /\ rawSeen \subseteq Keys
  /\ queue \subseteq Messages
  /\ \A m \in queue : page[m] # Unseen
  /\ message \in Messages \cup {0}
  /\ faults \in 0..MaxFaults
  /\ pc = "records" => message \in queue /\ todo \subseteq Records(page[message])
  /\ pc # "records" => message = 0 /\ todo = {}
  /\ pc \in {"down", "idle"} => queue = {}

\* No record is written twice: not after a crash or an exception between a record
\* and the state, nor when a message is edited there and back.
RawOnce == \A k \in Keys : rows[k] <= 1

\* What the state file says has been seen has all its records in the raw file,
\* unless a marking pass put it there, however a pass was cut short.
SeenIsCaptured ==
  \A m \in Messages :
    seen[m] # Unseen /\ <<m, seen[m]>> \notin marked => Captured(m, seen[m])

\* The ledger of browser messages, from which the monitor and the nightly review
\* start, explains every record, wherever a pass was cut short: the message is
\* there with a text that yields it.
EveryRawIsAudited ==
  \A k \in Keys : rows[k] > 0 =>
    \E entry \in ledger : \E i \in Records(entry[2]) : k = Key(entry[1], entry[2], i)

\* Every record is written once, and the ledger of messages explains it.
RecordsAreSound == RawOnce /\ EveryRawIsAudited

\* What a message that names its author says is captured, marked, or edited again,
\* unless the message left the age window, or was never in it, before it was ever seen.
WordingIsHandled(m, t) ==
  \/ Captured(m, t)
  \/ <<m, t>> \in marked
  \/ text[m] # t
  \/ (m <= aged \/ m \in timeless) /\ seen[m] = Unseen
NamedWordingsAreCaptured ==
  \A m \in Named : \A t \in Wordings[m] : (text[m] = t) ~> WordingIsHandled(m, t)

\* The same of every message of the author's, with its name or in a group below one:
\* "do not miss late edits to seen messages" (no: see the README on groups).
EveryWordingIsCaptured ==
  \A m \in Messages : \A t \in Wordings[m] :
    (text[m] = t /\ \E n \in 1..m : n \in Named) ~> WordingIsHandled(m, t)

=============================================================================
