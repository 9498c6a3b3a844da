--------------------------- MODULE QuoteTracking ----------------------------
(***************************************************************************)
(* The quote tracker of option_validation.py: track_open_positions_once    *)
(* quotes every open shadow position that is due, appends a snapshot row   *)
(* only when the quote is news, keeps latest, highest and lowest price and *)
(* the milestones in a state file that it saves at the end of the cycle,   *)
(* and lets the exit rules judge the local positions by what both files    *)
(* then hold.  A cycle that is cut off (killed, or ended by an exception   *)
(* that the live loop catches) loses what it had not appended.             *)
(*                                                                         *)
(* One day; a tick is the time between two quotes of a position.  A cycle  *)
(* is shorter than that.  Test positions and those whose option expired on *)
(* an earlier date are passed over in every cycle of the day: they are not *)
(* among the Positions.                                                    *)
(***************************************************************************)
EXTENDS Integers, FiniteSets

CONSTANTS
  Positions,    \* shadow positions, numbered in the order of opened_at
  Prices,       \* of the option
  EntryPrice,
  SellsAt,      \* prices at which the local position's stop or targets sell
  Milestones,   \* TRACKING_MILESTONE_PCTS
  MovePct,      \* OPENCLAW_QUOTE_SNAPSHOT_MIN_MOVE_PCT
  Checkpoint,   \* ticks after which a row is due, whatever the quote
  StaleAfter,   \* ticks after which a position nobody holds is not quoted
  Close, Midnight,
  MaxCuts       \* bound: cycles cut off

None == 0       \* the quote has no price: its status is "unavailable"
Quotes == Prices \cup {None}

ASSUME TrackingAssumption ==
  /\ Positions \subseteq Nat
  /\ Prices \subseteq Nat \ {0}
  /\ EntryPrice \in [Positions -> Prices]
  /\ SellsAt \in [Positions -> SUBSET Prices]
  /\ Milestones \subseteq Int \ {0}
  /\ MovePct \in Nat \ {0} /\ Checkpoint \in Nat \ {0} /\ StaleAfter \in Nat
  /\ Close \in Nat /\ Midnight \in Nat /\ Close < Midnight
  /\ MaxCuts \in Nat

VARIABLES
  clock,
  shadow,    \* "none", "open" or "closed": does Steve hold the position
  opened,    \* when it was opened
  held,      \* is there an open local position
  rows,      \* option_quote_snapshots.jsonl
  state,     \* option_tracking_state.json, per position
  at,        \* step of the tracker
  todo,      \* positions this cycle has still to look at
  copy,      \* the state in memory
  exits,     \* what the exit rules sold, and at which price
  newest,    \* the last quote taken of a position ...
  lost,      \* ... which a cut-off cycle took without saving it
  observed,  \* all prices taken
  bought,    \* "new": bought since the last quote in the files; "seen": quoted since
  cuts

vars == <<clock, shadow, opened, held, rows, state, at, todo, copy, exits,
               newest, lost, observed, bought, cuts>>

Row == [pos : Positions, price : Quotes, at : 0..Midnight, marks : SUBSET Milestones]

\* An entry of the state file: the latest quote, the extremes and when they were met,
\* the milestones hit, and the last row appended.
Watch == [at : 0..Midnight, price : Quotes,
          max : Quotes, maxAt : 0..Midnight, min : Quotes, minAt : 0..Midnight,
          hits : SUBSET Milestones, rowAt : 0..Midnight, rowPrice : Quotes]

Unwatched == [at |-> 0, price |-> None, max |-> None, maxAt |-> 0, min |-> None,
              minAt |-> 0, hits |-> {}, rowAt |-> 0, rowPrice |-> None]

-----------------------------------------------------------------------------
(* What is news.                                                           *)

\* percent_move is None from or to no price.
Rise(from, to) == from # None /\ to # None /\ (to - from) * 100 >= MovePct * from
Fall(from, to) == from # None /\ to # None /\ (from - to) * 100 >= MovePct * from
Moved(from, to) == Rise(from, to) \/ Fall(from, to)

\* (slip: a loss is tested the wrong way round)
SlipCrossed(p, q) ==
  {IF m < 0 THEN -m ELSE m :
     m \in {n \in Milestones : q # None /\ (q - EntryPrice[p]) * 100 <= n * EntryPrice[p]}}

Crossed(p, q) ==
  {m \in Milestones :
     LET gain == (q - EntryPrice[p]) * 100
     IN  q # None /\ IF m < 0 THEN gain <= m * EntryPrice[p] ELSE gain >= m * EntryPrice[p]}

AtBoundary(p, q) == held[p] /\ q \in SellsAt[p]

\* (slip: a target or stop that is met is no news)
SlipNews(p, q, w) ==
  \/ w.rowAt = 0
  \/ (w.price = None) # (q = None)
  \/ Moved(w.rowPrice, q) \/ Rise(w.max, q) \/ Fall(w.min, q)
  \/ Crossed(p, q) \ w.hits # {}
  \/ clock - w.rowAt >= Checkpoint

\* tracking_decision_for_snapshot, from the entry w of the state.
News(p, q, w) ==
  \/ w.rowAt = 0
  \/ (w.price = None) # (q = None)
  \/ AtBoundary(p, q)
  \/ Moved(w.rowPrice, q) \/ Rise(w.max, q) \/ Fall(w.min, q)
  \/ Crossed(p, q) \ w.hits # {}
  \/ clock - w.rowAt >= Checkpoint

\* update_tracking_state_for_snapshot.
Higher(w, q) == q # None /\ (w.max = None \/ q > w.max)
Lower(w, q) == q # None /\ (w.min = None \/ q < w.min)

\* (slip: the price of the last row moves with every quote)
SlipNote(p, q, w, append) ==
  [at |-> clock, price |-> q,
   max |-> IF Higher(w, q) THEN q ELSE w.max, maxAt |-> IF Higher(w, q) THEN clock ELSE w.maxAt,
   min |-> IF Lower(w, q) THEN q ELSE w.min,  minAt |-> IF Lower(w, q) THEN clock ELSE w.minAt,
   hits |-> w.hits \cup Crossed(p, q),
   rowAt |-> IF append THEN clock ELSE w.rowAt,
   rowPrice |-> q]

\* (slip: only a row is the latest quote)
SlipNoteLatest(p, q, w, append) ==
  [at |-> IF append THEN clock ELSE w.at, price |-> q,
   max |-> IF Higher(w, q) THEN q ELSE w.max, maxAt |-> IF Higher(w, q) THEN clock ELSE w.maxAt,
   min |-> IF Lower(w, q) THEN q ELSE w.min,  minAt |-> IF Lower(w, q) THEN clock ELSE w.minAt,
   hits |-> w.hits \cup Crossed(p, q),
   rowAt |-> IF append THEN clock ELSE w.rowAt,
   rowPrice |-> IF append THEN q ELSE w.rowPrice]

\* (slip: milestones passed before are forgotten)
SlipNoteHits(p, q, w, append) ==
  [at |-> clock, price |-> q,
   max |-> IF Higher(w, q) THEN q ELSE w.max, maxAt |-> IF Higher(w, q) THEN clock ELSE w.maxAt,
   min |-> IF Lower(w, q) THEN q ELSE w.min,  minAt |-> IF Lower(w, q) THEN clock ELSE w.minAt,
   hits |-> Crossed(p, q),
   rowAt |-> IF append THEN clock ELSE w.rowAt,
   rowPrice |-> IF append THEN q ELSE w.rowPrice]

Note(p, q, w, append) ==
  [at |-> clock, price |-> q,
   max |-> IF Higher(w, q) THEN q ELSE w.max, maxAt |-> IF Higher(w, q) THEN clock ELSE w.maxAt,
   min |-> IF Lower(w, q) THEN q ELSE w.min,  minAt |-> IF Lower(w, q) THEN clock ELSE w.minAt,
   hits |-> w.hits \cup Crossed(p, q),
   rowAt |-> IF append THEN clock ELSE w.rowAt,
   rowPrice |-> IF append THEN q ELSE w.rowPrice]

-----------------------------------------------------------------------------
(* What the files say of a position.                                       *)

RowsOf(p) == {r \in rows : r.pos = p}

LatestRows(p) == {r \in RowsOf(p) : \A s \in RowsOf(p) : s.at <= r.at}

\* tracking_state_snapshots: the state file read as rows.
StateRows(p) ==
  LET w == state[p]
  IN  {x \in {[price |-> w.price, at |-> w.at], [price |-> w.max, at |-> w.maxAt],
              [price |-> w.min, at |-> w.minAt]} : x.at > 0}

\* What metrics_for_position reports: the extremes of both files.
Reported(p) == {r.price : r \in RowsOf(p)} \cup {x.price : x \in StateRows(p)}

\* latest_snapshot_for_human_position: the newest by its time, the ledger before the
\* state and the state's latest quote before its extremes.
LatestQuote(p) ==
  LET times == {r.at : r \in RowsOf(p)} \cup {x.at : x \in StateRows(p)}
  IN  CHOOSE q \in Quotes :
        /\ times # {}
        /\ \E t \in times :
             /\ \A u \in times : u <= t
             /\ IF \E r \in RowsOf(p) : r.at = t
                THEN \E r \in RowsOf(p) : r.at = t /\ r.price = q
                ELSE IF state[p].at = t THEN q = state[p].price
                ELSE \E x \in StateRows(p) : x.at = t /\ x.price = q

-----------------------------------------------------------------------------
(* The tracker.                                                            *)

MarketOpen == clock <= Close

\* Nothing of an old cycle is in memory between cycles.
Idle == at = "idle"

StartCycle ==
  /\ Idle
  /\ MarketOpen
  /\ at' = "quoting"
  /\ copy' = state
  /\ todo' = {p \in Positions : shadow[p] = "open"}
  /\ UNCHANGED <<clock, shadow, opened, held, rows, state, exits, newest, lost, observed, bought, cuts>>

\* With the market closed the rules run all the same, on the quotes there are.
StartClosed ==
  /\ Idle
  /\ ~MarketOpen
  /\ at' = "rules"
  /\ UNCHANGED <<clock, shadow, opened, held, rows, state, todo, copy, exits, newest, lost, observed, bought, cuts>>

Stale(p) == clock - opened[p] > StaleAfter /\ ~held[p]

Due(p) ==
  /\ copy[p].at < clock
  /\ \A r \in LatestRows(p) : r.at < clock

Next1(p) == at = "quoting" /\ p \in todo /\ \A o \in todo : p <= o

Skip(p) ==
  /\ Next1(p)
  /\ Stale(p) \/ ~Due(p)
  /\ todo' = todo \ {p}
  /\ UNCHANGED <<clock, shadow, opened, held, rows, state, at, copy, exits, newest, lost, observed, bought, cuts>>

\* Ghosts of a quote.
Seen(p, q) ==
  /\ newest' = [newest EXCEPT ![p] = q]
  /\ lost' = lost \ {p}
  /\ observed' = IF q = None THEN observed ELSE observed \cup {[pos |-> p, price |-> q]}

\* The quote is that of the last row, with the same timestamp if it has one.
QuoteAgain(p) ==
  /\ Next1(p) /\ ~Stale(p) /\ Due(p)
  /\ \E r \in LatestRows(p) :
       /\ copy' = [copy EXCEPT ![p] = Note(p, r.price, @, FALSE)]
       /\ Seen(p, r.price)
  /\ todo' = todo \ {p}
  /\ UNCHANGED <<clock, shadow, opened, held, rows, state, at, exits, bought, cuts>>

Quote(p, q) ==
  /\ Next1(p) /\ ~Stale(p) /\ Due(p)
  /\ ~(q = None /\ \E r \in LatestRows(p) : r.price = None)
  /\ LET w == copy[p]
         news == News(p, q, w)
     IN  /\ copy' = [copy EXCEPT ![p] = Note(p, q, w, news)]
         /\ rows' = IF news
                    THEN rows \cup {[pos |-> p, price |-> q, at |-> clock,
                                     marks |-> Crossed(p, q) \ w.hits]}
                    ELSE rows
         /\ bought' = [bought EXCEPT ![p] = IF news \/ @ = "no" THEN "no" ELSE "seen"]
  /\ Seen(p, q)
  /\ todo' = todo \ {p}
  /\ UNCHANGED <<clock, shadow, opened, held, state, at, exits, cuts>>

\* write_tracking_state replaces the file.
Save ==
  /\ at = "quoting" /\ todo = {}
  /\ state' = copy
  /\ at' = "rules"
  /\ bought' = [p \in Positions |-> IF bought[p] = "seen" THEN "no" ELSE bought[p]]
  /\ UNCHANGED <<clock, shadow, opened, held, rows, todo, copy, exits, newest, lost, observed, cuts>>

\* apply_human_exit_rules_once; module PaperExits has its steps.
ApplyRules ==
  LET sold == {p \in Positions : held[p] /\ LatestQuote(p) \in SellsAt[p]}
  IN  /\ at = "rules"
      /\ held' = [p \in Positions |-> held[p] /\ p \notin sold]
      /\ exits' = exits \cup {[pos |-> p, price |-> LatestQuote(p), early |-> bought[p] # "no"] : p \in sold}
      /\ at' = "idle"
      /\ copy' = [p \in Positions |-> Unwatched]
      /\ UNCHANGED <<clock, shadow, opened, rows, state, todo, newest, lost, observed, bought, cuts>>

\* Killed, or ended by an exception.
Cut ==
  /\ ~Idle
  /\ cuts < MaxCuts
  /\ cuts' = cuts + 1
  /\ at' = "idle"
  /\ lost' = IF at = "rules" THEN lost
             ELSE lost \cup {p \in Positions : copy[p] # state[p] /\ copy[p].rowAt # copy[p].at}
  /\ bought' = [p \in Positions |-> IF bought[p] = "seen" THEN "new" ELSE bought[p]]
  /\ copy' = [p \in Positions |-> Unwatched]
  /\ todo' = {}
  /\ UNCHANGED <<clock, shadow, opened, held, rows, state, exits, newest, observed>>

Track ==
  \/ StartCycle \/ StartClosed \/ Save \/ ApplyRules \/ Cut
  \/ \E p \in Positions : Skip(p) \/ QuoteAgain(p) \/ \E q \in Quotes : Quote(p, q)

-----------------------------------------------------------------------------
(* What happens around it.                                                 *)

\* handle_option_entry: the entry's snapshot, then the shadow position.
OpenShadow(p, q) ==
  /\ shadow[p] = "none" /\ MarketOpen
  /\ shadow' = [shadow EXCEPT ![p] = "open"]
  /\ opened' = [opened EXCEPT ![p] = clock]
  /\ rows' = rows \cup {[pos |-> p, price |-> q, at |-> clock, marks |-> {}]}
  /\ Seen(p, q)
  /\ UNCHANGED <<clock, held, state, at, todo, copy, exits, bought, cuts>>

\* Steve sells.
CloseShadow(p) ==
  /\ shadow[p] = "open"
  /\ shadow' = [shadow EXCEPT ![p] = "closed"]
  /\ UNCHANGED <<clock, opened, held, rows, state, at, todo, copy, exits, newest, lost, observed, bought, cuts>>

\* A local position is created, once.
Buy(p) ==
  /\ shadow[p] = "open" /\ MarketOpen
  /\ ~held[p] /\ \A e \in exits : e.pos # p
  /\ held' = [held EXCEPT ![p] = TRUE]
  /\ bought' = [bought EXCEPT ![p] = "new"]
  /\ UNCHANGED <<clock, shadow, opened, rows, state, at, todo, copy, exits, newest, lost, observed, cuts>>

Tick ==
  /\ Idle
  /\ clock < Midnight
  /\ clock' = clock + 1
  /\ UNCHANGED <<shadow, opened, held, rows, state, at, todo, copy, exits, newest, lost, observed, bought, cuts>>

\* compact_option_snapshots: rows with one signature become one, with the time of the
\* last.  Quotes with a price carry a timestamp and are not repeated by the tracker.
Merged ==
  {r \in rows : r.price = None => \A s \in RowsOf(r.pos) : s.price = None => s.at <= r.at}

\* Module LedgerFile has the steps, and what they do to rows appended meanwhile.
Compact ==
  /\ Merged # rows
  /\ rows' = Merged
  /\ UNCHANGED <<clock, shadow, opened, held, state, at, todo, copy, exits, newest, lost, observed, bought, cuts>>

Around ==
  \/ Tick \/ Compact
  \/ \E p \in Positions : CloseShadow(p) \/ Buy(p) \/ \E q \in Quotes : OpenShadow(p, q)

Init ==
  /\ clock = 1
  /\ shadow = [p \in Positions |-> "none"]
  /\ opened = [p \in Positions |-> 0]
  /\ held = [p \in Positions |-> FALSE]
  /\ rows = {}
  /\ state = [p \in Positions |-> Unwatched]
  /\ at = "idle" /\ todo = {}
  /\ copy = [p \in Positions |-> Unwatched]
  /\ exits = {}
  /\ newest = [p \in Positions |-> None]
  /\ bought = [p \in Positions |-> "no"]
  /\ lost = {} /\ observed = {} /\ cuts = 0

Next == Track \/ Around

Spec == Init /\ [][Next]_vars

-----------------------------------------------------------------------------

\* The variables have the values declared above.
TypeOK ==
  /\ clock \in 0..Midnight
  /\ shadow \in [Positions -> {"none", "open", "closed"}]
  /\ opened \in [Positions -> 0..Midnight]
  /\ held \in [Positions -> BOOLEAN]
  /\ rows \subseteq Row
  /\ state \in [Positions -> Watch] /\ copy \in [Positions -> Watch]
  /\ at \in {"idle", "quoting", "rules"}
  /\ todo \subseteq Positions /\ lost \subseteq Positions
  /\ exits \subseteq [pos : Positions, price : Prices, early : BOOLEAN]
  /\ bought \in [Positions -> {"no", "new", "seen"}]
  /\ newest \in [Positions -> Quotes]
  /\ observed \subseteq [pos : Positions, price : Prices]
  /\ cuts \in 0..MaxCuts

\* The price is nearer to some row of p than a move worth a row.
NearARow(p, q) == \E r \in RowsOf(p) : r.price # None /\ ~Moved(r.price, q)

\* Thin storage loses no move: every price that was ever taken is near a row of its
\* position, also one that a cut-off cycle took.  The exception is a position that was
\* once quoted without a price, after a cycle was cut off: moves are measured from the
\* last row that the state file knows of, and there is none from a row without a price.
EveryPriceNearARow ==
  \A o \in observed :
    \/ NearARow(o.pos, o.price)
    \/ cuts > 0 /\ \E r \in RowsOf(o.pos) : r.price = None

\* A price a move away from every row gets a row of its own (no: see EveryPriceNearARow).
MoveGetsARow == \A o \in observed : NearARow(o.pos, o.price)

\* Without a cut the last row itself is that near to the latest quote: read as a
\* series, the rows never leave the price by a whole move.
LastRowIsNear ==
  cuts = 0 =>
    \A p \in Positions : \A r \in LatestRows(p) :
      (r.price = None <=> newest[p] = None) /\ ~Moved(r.price, newest[p])

\* The thinned rows stand for the price, taken as a set and read as a series.
RowsFollowThePrice == EveryPriceNearARow /\ LastRowIsNear

\* A milestone that the state file counts as hit has its row, and a milestone gets a
\* second row only because a cycle was cut off after the first.
MilestonesOnRecord ==
  \A p \in Positions, m \in Milestones :
    /\ m \in state[p].hits => \E r \in RowsOf(p) : m \in Crossed(p, r.price)
    /\ Cardinality({r \in RowsOf(p) : m \in r.marks}) <= 1 + cuts

\* The highest and the lowest price that were taken are reported, except those a
\* cut-off cycle took; of them EveryPriceNearARow holds.
ExtremesAreReported ==
  cuts = 0 /\ at # "quoting" =>
    \A o \in observed :
      \E lo \in Reported(o.pos), hi \in Reported(o.pos) :
        lo # None /\ lo <= o.price /\ o.price <= hi

\* The state file agrees with the rows about milestones and with the prices about extremes.
StateFollowsThePrice == MilestonesOnRecord /\ ExtremesAreReported

\* Between two rounds of quotes, when the exit rules judge the positions and the daily
\* P/L marks them, both find the last quote that was taken, never an older one or an
\* extreme, unless a cut-off cycle took the last one.
JudgedIsNewest ==
  at # "quoting" =>
    \A p \in Positions \ lost : shadow[p] # "none" => LatestQuote(p) = newest[p]

\* A price that made the rules sell is in the ledger, unless the quote is older than
\* the local position.
ExitIsOnRecord ==
  \A e \in exits : e.early \/ \E r \in RowsOf(e.pos) : r.price = e.price

\* A local position is judged by quotes taken since it was bought (no: the rules may run
\* before the next quote).
NoQuoteBeforePurchase ==
  \A e \in exits : ~e.early

=============================================================================
