------------------------ MODULE QuoteTracking_proofs ------------------------
(***************************************************************************)
(* Theorems about QuoteTracking, for any positions, prices, milestones and *)
(* intervals, and any number of cycles cut off: its types, and that the    *)
(* thinned rows, the state file, the judged quote and the sales agree with *)
(* the prices that were taken.                                             *)
(***************************************************************************)
EXTENDS QuoteTracking, FiniteSetTheorems, TLAPS

-----------------------------------------------------------------------------
(* The invariant.                                                          *)

\* The entry of p that counts: the one in memory while a cycle is quoting.
Entry(p) == IF at = "quoting" THEN copy[p] ELSE state[p]

Entries(p) == {state[p], copy[p]}

\* Rows are of the past, the last of them and the last without a price are never
\* compacted away, and no two of a position are of one time.
RowsInOrder ==
  /\ clock >= 1
  /\ IsFiniteSet(rows)
  /\ \A r \in rows : r.at <= clock
  /\ \A r, s \in rows : r.pos = s.pos /\ r.at = s.at => r = s
  /\ \A p \in Positions :
       /\ RowsOf(p) # {} => LatestRows(p) # {}
       /\ (\E r \in RowsOf(p) : r.price = None) =>
            \E r \in RowsOf(p) :
              r.price = None /\ \A s \in RowsOf(p) : s.price = None => s.at <= r.at

\* Nothing is known of a position before it is opened.
OpenedFirst ==
  \A p \in Positions :
    /\ shadow[p] = "none" =>
         RowsOf(p) = {} /\ state[p] = Unwatched /\ copy[p] = Unwatched /\ ~held[p] /\ p \notin todo
    /\ shadow[p] # "none" => RowsOf(p) # {}

\* What an entry says of the rows: when it was made, that the last row it counts exists,
\* and that a milestone counted as hit has its row.
EntryHolds(p, w) ==
  /\ w.at <= clock
  /\ w.rowAt <= w.at /\ w.maxAt <= w.at /\ w.minAt <= w.at
  /\ w.max # None => w.maxAt > 0
  /\ w.min # None => w.minAt > 0
  /\ w.rowAt # 0 => \E r \in RowsOf(p) : r.price = w.rowPrice
  /\ w.rowAt = clock => \E r \in RowsOf(p) : r.at = clock
  /\ \A m \in w.hits : \E r \in RowsOf(p) : m \in Crossed(p, r.price)

EntriesHold == \A p \in Positions : \A w \in Entries(p) : EntryHolds(p, w)

\* The memory differs from the file only where this cycle has quoted.
CopiesAreFresh == at = "quoting" => \A p \in Positions : copy[p] = state[p] \/ copy[p].at = clock

\* The newest quote is the last row's, or the entry's that is younger than all rows.
Fresh(p, w) ==
  \/ \E r \in LatestRows(p) : r.at >= w.at /\ r.price = newest[p]
  \/ (\A r \in RowsOf(p) : r.at < w.at) /\ w.price = newest[p]

NewestKept == \A p \in Positions \ lost : shadow[p] # "none" => Fresh(p, Entry(p))

\* An entry younger than all rows, taken since p was bought, is no price that sells
\* unless there is a row of that price.
SellsByRow(p, w) ==
  (\A r \in RowsOf(p) : r.at < w.at) /\ w.price \in SellsAt[p] => \E r \in RowsOf(p) : r.price = w.price

SalesOnRecord ==
  \A p \in Positions :
    /\ bought[p] = "seen" => at = "quoting"
    /\ held[p] /\ bought[p] = "no" => SellsByRow(p, state[p])
    /\ held[p] /\ at = "quoting" /\ bought[p] # "new" => SellsByRow(p, copy[p])

\* Without a cut the last row is the one the entry counts, and near to the newest quote.
SeriesHolds ==
  cuts = 0 =>
    \A p \in Positions : \A r \in LatestRows(p) :
      /\ r.price = None <=> newest[p] = None
      /\ ~Moved(r.price, newest[p])
      /\ Entry(p).rowAt # 0 =>
           r.price = Entry(p).rowPrice /\ (Entry(p).price = None <=> newest[p] = None)

\* Without a cut a price taken is on a row, or between the extremes of the entry.
BetweenExtremes(w, q) ==
  w.min # None /\ w.max # None /\ w.min <= q /\ q <= w.max

ExtremesHold ==
  cuts = 0 =>
    \A o \in observed :
      \/ \E r \in RowsOf(o.pos) : r.price = o.price
      \/ BetweenExtremes(Entry(o.pos), o.price)

\* A milestone that is not counted as hit has a row for each cut at most.
Marks(p, m) == {r \in RowsOf(p) : m \in r.marks}

MarksCounted ==
  \A p \in Positions, m \in Milestones :
    /\ Cardinality(Marks(p, m)) <= 1 + cuts
    /\ m \notin Entry(p).hits => Cardinality(Marks(p, m)) <= cuts

-----------------------------------------------------------------------------
(* Types                                                                   *)

LEMMA CrossedTypes ==
  ASSUME NEW p, NEW q
  PROVE  Crossed(p, q) \subseteq Milestones /\ Crossed(p, None) = {}
  BY DEF Crossed, None

LEMMA UnwatchedTypes == Unwatched \in Watch
  BY TrackingAssumption DEF Unwatched, Watch, Quotes, None

LEMMA NoteTypes ==
  ASSUME clock \in 0..Midnight, NEW p \in Positions, NEW q \in Quotes, NEW w \in Watch,
         NEW append \in BOOLEAN
  PROVE  Note(p, q, w, append) \in Watch
<1>1. w.hits \cup Crossed(p, q) \in SUBSET Milestones
  BY CrossedTypes DEF Watch
<1> QED
  BY <1>1 DEF Note, Watch

LEMMA RowTypes ==
  ASSUME rows \subseteq Row, NEW p \in Positions, NEW r \in RowsOf(p)
  PROVE  r \in rows /\ r \in Row /\ r.price \in Quotes /\ r.at \in 0..Midnight /\ r.pos = p
  BY DEF RowsOf, Row

LEMMA InitTypes == Init => TypeOK
<1>1. 1 \in 0..Midnight /\ 0 \in 0..Midnight /\ 0 \in 0..MaxCuts /\ None \in Quotes
  BY TrackingAssumption DEF Quotes
<1> QED
  BY <1>1, UnwatchedTypes DEF Init, TypeOK

\* What taking a quote does.
LEMMA SeenTypes ==
  ASSUME TypeOK, NEW p \in Positions, NEW q \in Quotes, Seen(p, q)
  PROVE  /\ newest' \in [Positions -> Quotes] /\ lost' \subseteq Positions
         /\ observed' \subseteq [pos : Positions, price : Prices]
<1>1. q # None => q \in Prices
  BY DEF Quotes
<1> QED
  BY <1>1 DEF TypeOK, Seen

LEMMA QuoteAgainTypes ==
  ASSUME TypeOK, NEW p \in Positions, QuoteAgain(p)
  PROVE  TypeOK'
<1>1. PICK r \in LatestRows(p) :
        copy' = [copy EXCEPT ![p] = Note(p, r.price, @, FALSE)] /\ Seen(p, r.price)
  BY DEF QuoteAgain
<1>2. r \in RowsOf(p)
  BY DEF LatestRows
<1>3. r.price \in Quotes
  BY <1>2, RowTypes DEF TypeOK
<1>4. Note(p, r.price, copy[p], FALSE) \in Watch
  BY <1>3, NoteTypes DEF TypeOK
<1>5. copy' \in [Positions -> Watch]
  BY <1>1, <1>4 DEF TypeOK
<1>6. /\ newest' \in [Positions -> Quotes] /\ lost' \subseteq Positions
      /\ observed' \subseteq [pos : Positions, price : Prices]
  BY <1>1, <1>3, SeenTypes
<1> QED
  BY <1>5, <1>6 DEF QuoteAgain, TypeOK

LEMMA QuoteTypes ==
  ASSUME TypeOK, NEW p \in Positions, NEW q \in Quotes, Quote(p, q)
  PROVE  TypeOK'
<1> DEFINE news == News(p, q, copy[p])
           row == [pos |-> p, price |-> q, at |-> clock, marks |-> Crossed(p, q) \ copy[p].hits]
<1>1. /\ copy' = [copy EXCEPT ![p] = Note(p, q, copy[p], news)]
      /\ rows' = IF news THEN rows \cup {row} ELSE rows
      /\ bought' = [bought EXCEPT ![p] = IF news \/ @ = "no" THEN "no" ELSE "seen"]
      /\ Seen(p, q)
      /\ UNCHANGED <<clock, shadow, opened, held, state, at, exits, cuts>>
      /\ todo' = todo \ {p}
  BY DEF Quote
<1>2. news \in BOOLEAN
  BY DEF News
<1>3. Note(p, q, copy[p], news) \in Watch
  BY <1>2, NoteTypes DEF TypeOK
<1>4. copy' \in [Positions -> Watch]
  BY <1>1, <1>3 DEF TypeOK
<1>5. row \in Row
  <2>1. Crossed(p, q) \ copy[p].hits \in SUBSET Milestones
    BY CrossedTypes
  <2> QED
    BY <2>1 DEF Row, TypeOK
<1>6. rows' \subseteq Row
  BY <1>1, <1>5 DEF TypeOK
<1>7. /\ newest' \in [Positions -> Quotes] /\ lost' \subseteq Positions
      /\ observed' \subseteq [pos : Positions, price : Prices]
  BY <1>1, SeenTypes
<1>8. bought' \in [Positions -> {"no", "new", "seen"}]
  BY <1>1 DEF TypeOK
<1> HIDE DEF news, row
<1> QED
  BY <1>1, <1>4, <1>6, <1>7, <1>8 DEF TypeOK

LEMMA RulesTypes ==
  ASSUME TypeOK, ApplyRules
  PROVE  TypeOK'
<1> DEFINE sold == {p \in Positions : held[p] /\ LatestQuote(p) \in SellsAt[p]}
<1> DEFINE sale(p) == [pos |-> p, price |-> LatestQuote(p), early |-> bought[p] # "no"]
<1>1. exits' = exits \cup {sale(p) : p \in sold}
  BY DEF ApplyRules
<1>2. \A p \in sold : p \in Positions /\ LatestQuote(p) \in Prices
  BY TrackingAssumption
<1>3. exits' \subseteq [pos : Positions, price : Prices, early : BOOLEAN]
  <2>1. \A p \in sold : sale(p) \in [pos : Positions, price : Prices, early : BOOLEAN]
    BY <1>2
  <2>2. exits \subseteq [pos : Positions, price : Prices, early : BOOLEAN]
    BY DEF TypeOK
  <2> HIDE DEF sold, sale
  <2> QED
    BY <1>1, <2>1, <2>2
<1>4. held' \in [Positions -> BOOLEAN] /\ copy' \in [Positions -> Watch]
  BY UnwatchedTypes DEF ApplyRules, TypeOK
<1>5. UNCHANGED <<clock, shadow, opened, rows, state, todo, newest, lost, observed, bought, cuts>>
      /\ at' = "idle"
  BY DEF ApplyRules
<1> QED
  BY <1>3, <1>4, <1>5 DEF TypeOK

LEMMA TrackTypes ==
  ASSUME TypeOK, Track
  PROVE  TypeOK'
<1>1. CASE StartCycle
  BY <1>1 DEF StartCycle, TypeOK
<1>2. CASE StartClosed
  BY <1>2 DEF StartClosed, TypeOK
<1>3. CASE Save
  BY <1>3 DEF Save, TypeOK
<1>4. CASE ApplyRules
  BY <1>4, RulesTypes
<1>5. CASE Cut
  <2>1. cuts' \in 0..MaxCuts
    BY <1>5, TrackingAssumption DEF Cut, TypeOK
  <2>2. lost' \subseteq Positions /\ bought' \in [Positions -> {"no", "new", "seen"}]
    BY <1>5 DEF Cut, TypeOK
  <2>3. copy' \in [Positions -> Watch]
    BY <1>5, UnwatchedTypes DEF Cut
  <2> QED
    BY <1>5, <2>1, <2>2, <2>3 DEF Cut, TypeOK
<1>6. ASSUME NEW p \in Positions, Skip(p) PROVE TypeOK'
  BY <1>6 DEF Skip, TypeOK
<1> QED
  BY <1>1, <1>2, <1>3, <1>4, <1>5, <1>6, QuoteAgainTypes, QuoteTypes DEF Track

LEMMA AroundTypes ==
  ASSUME TypeOK, Around
  PROVE  TypeOK'
<1>1. CASE Tick
  BY <1>1, TrackingAssumption DEF Tick, TypeOK
<1>2. CASE Compact
  BY <1>2 DEF Compact, Merged, TypeOK
<1>3. ASSUME NEW p \in Positions, CloseShadow(p) PROVE TypeOK'
  BY <1>3 DEF CloseShadow, TypeOK
<1>4. ASSUME NEW p \in Positions, Buy(p) PROVE TypeOK'
  BY <1>4 DEF Buy, TypeOK
<1>5. ASSUME NEW p \in Positions, NEW q \in Quotes, OpenShadow(p, q) PROVE TypeOK'
  <2>1. /\ newest' \in [Positions -> Quotes] /\ lost' \subseteq Positions
        /\ observed' \subseteq [pos : Positions, price : Prices]
    BY <1>5, SeenTypes DEF OpenShadow
  <2>2. [pos |-> p, price |-> q, at |-> clock, marks |-> {}] \in Row
    BY DEF Row, TypeOK
  <2>3. rows' \subseteq Row
    BY <1>5, <2>2 DEF OpenShadow, TypeOK
  <2>4. shadow' \in [Positions -> {"none", "open", "closed"}] /\ opened' \in [Positions -> 0..Midnight]
    BY <1>5 DEF OpenShadow, TypeOK
  <2> QED
    BY <1>5, <2>1, <2>3, <2>4 DEF OpenShadow, TypeOK
<1> QED
  BY <1>1, <1>2, <1>3, <1>4, <1>5 DEF Around

LEMMA NextTypes == TypeOK /\ [Next]_vars => TypeOK'
<1>1. TypeOK /\ UNCHANGED vars => TypeOK'
  BY DEF TypeOK, vars
<1> QED
  BY <1>1, TrackTypes, AroundTypes DEF Next

\* The variables have the values declared for them.
THEOREM TypeCorrect == Spec => []TypeOK
  BY InitTypes, NextTypes, PTL DEF Spec

-----------------------------------------------------------------------------
(* The rows                                                                *)

\* What a row tells is never gone, and no row of this tick goes.
Kept(p) ==
  /\ \A r \in RowsOf(p) : \E s \in RowsOf(p)' : s.price = r.price
  /\ clock' = clock => \A r \in RowsOf(p) : r.at = clock => r \in RowsOf(p)'
  /\ clock' >= clock

LEMMA LatestRowIsOne ==
  ASSUME TypeOK, RowsInOrder, NEW p \in Positions, NEW r \in LatestRows(p), NEW s \in LatestRows(p)
  PROVE  r = s
<1>1. /\ r \in RowsOf(p) /\ s \in RowsOf(p) /\ r.at <= s.at /\ s.at <= r.at
  BY DEF LatestRows
<1>2. r.at = s.at
  BY <1>1, RowTypes DEF TypeOK
<1> QED
  BY <1>1, <1>2, RowTypes DEF TypeOK, RowsInOrder

\* When a position is due, all its rows are of an earlier tick.
LEMMA DueRows ==
  ASSUME TypeOK, RowsInOrder, NEW p \in Positions, Due(p)
  PROVE  copy[p].at < clock /\ \A r \in RowsOf(p) : r.at < clock
<1>1. SUFFICES ASSUME NEW r \in RowsOf(p) PROVE r.at < clock
  BY DEF Due
<1>2. PICK s \in LatestRows(p) : TRUE
  BY DEF RowsInOrder
<1>3. r.at <= s.at /\ s \in RowsOf(p)
  BY <1>2 DEF LatestRows
<1>4. s.at < clock
  BY <1>2 DEF Due
<1> QED
  BY <1>3, <1>4, RowTypes DEF TypeOK

LEMMA AppendRow ==
  ASSUME TypeOK, RowsInOrder, NEW p \in Positions, NEW row \in Row, row.pos = p, row.at = clock,
         \A r \in RowsOf(p) : r.at < clock, rows' = rows \cup {row}, clock' = clock
  PROVE  /\ RowsInOrder'
         /\ RowsOf(p)' = RowsOf(p) \cup {row} /\ LatestRows(p)' = {row}
         /\ \A d \in Positions \ {p} : RowsOf(d)' = RowsOf(d) /\ LatestRows(d)' = LatestRows(d)
         /\ \A d \in Positions : Kept(d)
<1>0. clock \in Nat /\ \A r \in rows : r \in Row /\ r.at \in Nat /\ r.pos \in Positions
  BY DEF TypeOK, Row
<1>1. RowsOf(p)' = RowsOf(p) \cup {row}
  BY DEF RowsOf
<1>2. \A d \in Positions \ {p} : RowsOf(d)' = RowsOf(d)
  BY DEF RowsOf
<1>3. \A r \in RowsOf(p)' : r.at <= row.at
  BY <1>0, <1>1 DEF RowsOf
<1>4. LatestRows(p)' = {row}
  <2>1. row \in LatestRows(p)'
    BY <1>1, <1>3 DEF LatestRows
  <2>2. ASSUME NEW r \in LatestRows(p)' PROVE r = row
    <3>1. r \in RowsOf(p)' /\ row.at <= r.at
      BY <1>1 DEF LatestRows
    <3> QED
      BY <3>1, <1>0, <1>1 DEF RowsOf
  <2> QED
    BY <2>1, <2>2
<1>5. \A d \in Positions \ {p} : LatestRows(d)' = LatestRows(d)
  BY <1>2 DEF LatestRows
<1>6. IsFiniteSet(rows')
  BY FS_AddElement DEF RowsInOrder
<1>7. \A r \in rows' : r.at <= clock'
  BY <1>0 DEF RowsInOrder
<1>8. \A r, s \in rows' : r.pos = s.pos /\ r.at = s.at => r = s
  <2>1. ASSUME NEW r \in rows, r.pos = p PROVE r.at # clock
    BY <2>1, <1>0 DEF RowsOf
  <2> QED
    BY <2>1 DEF RowsInOrder
<1>9. ASSUME NEW d \in Positions
      PROVE  /\ RowsOf(d)' # {} => LatestRows(d)' # {}
             /\ (\E r \in RowsOf(d)' : r.price = None) =>
                  \E r \in RowsOf(d)' :
                    r.price = None /\ \A s \in RowsOf(d)' : s.price = None => s.at <= r.at
  <2>1. CASE d # p
    BY <2>1, <1>2, <1>5 DEF RowsInOrder
  <2>2. CASE d = p /\ row.price = None
    BY <2>2, <1>1, <1>3, <1>4
  <2>3. CASE d = p /\ row.price # None
    BY <2>3, <1>1, <1>4 DEF RowsInOrder
  <2> QED
    BY <2>1, <2>2, <2>3
<1>10. clock' >= 1
  BY DEF RowsInOrder
<1>11. \A d \in Positions : Kept(d)
  BY <1>0, <1>1, <1>2 DEF Kept
<1> QED
  BY <1>1, <1>2, <1>4, <1>5, <1>6, <1>7, <1>8, <1>9, <1>10, <1>11 DEF RowsInOrder

\* Compaction takes rows without a price, and neither the last of those nor the last row.
LEMMA CompactRows ==
  ASSUME TypeOK, RowsInOrder, rows' = Merged, clock' = clock
  PROVE  /\ RowsInOrder'
         /\ \A d \in Positions : /\ RowsOf(d)' \subseteq RowsOf(d)
                                 /\ LatestRows(d)' = LatestRows(d)
                                 /\ RowsOf(d) # {} => RowsOf(d)' # {}
                                 /\ \A r \in RowsOf(d) : r.price # None => r \in RowsOf(d)'
                                 /\ Kept(d)
<1>0. clock \in Nat /\ \A r \in rows : r \in Row /\ r.at \in Nat /\ r.pos \in Positions
  BY DEF TypeOK, Row
<1>1. ASSUME NEW d \in Positions
      PROVE  RowsOf(d)' = {r \in RowsOf(d) :
               r.price = None => \A s \in RowsOf(d) : s.price = None => s.at <= r.at}
  BY DEF RowsOf, Merged
<1>2. ASSUME NEW d \in Positions
      PROVE  /\ LatestRows(d)' = LatestRows(d)
             /\ RowsOf(d) # {} => RowsOf(d)' # {} /\ LatestRows(d)' # {}
  <2>1. LatestRows(d) \subseteq LatestRows(d)'
    BY <1>1 DEF LatestRows
  <2>2. ASSUME NEW r \in LatestRows(d)' PROVE r \in LatestRows(d)
    <3>1. r \in RowsOf(d) /\ \A s \in RowsOf(d)' : s.at <= r.at
      BY <1>1 DEF LatestRows
    <3>2. PICK t \in LatestRows(d) : TRUE
      BY <3>1 DEF RowsInOrder
    <3>3. t \in RowsOf(d)' /\ \A s \in RowsOf(d) : s.at <= t.at
      BY <2>1, <3>2 DEF LatestRows
    <3>4. ASSUME NEW s \in RowsOf(d) PROVE s.at <= r.at
      <4>1. s.at <= t.at /\ t.at <= r.at
        BY <3>1, <3>3
      <4>2. s \in rows /\ t \in rows /\ r \in rows
        BY <3>1, <3>2 DEF RowsOf, LatestRows
      <4> QED
        BY <1>0, <4>1, <4>2
    <3> QED
      BY <3>1, <3>4 DEF LatestRows
  <2>3. RowsOf(d) # {} => LatestRows(d) # {} /\ LatestRows(d)' \subseteq RowsOf(d)'
    BY DEF RowsInOrder, LatestRows
  <2> QED
    BY <2>1, <2>2, <2>3
<1>3. ASSUME NEW d \in Positions, NEW r \in RowsOf(d), r.price = None
      PROVE  \E t \in RowsOf(d)' : t.price = None /\ \A s \in RowsOf(d)' : s.price = None => s.at <= t.at
  <2>1. PICK t \in RowsOf(d) :
          t.price = None /\ \A s \in RowsOf(d) : s.price = None => s.at <= t.at
    BY <1>3 DEF RowsInOrder
  <2> QED
    BY <2>1, <1>1
<1>4. \A d \in Positions : Kept(d)
  <2>1. ASSUME NEW d \in Positions, NEW r \in RowsOf(d)
        PROVE  \E s \in RowsOf(d)' : s.price = r.price
    BY <1>1, <1>3
  <2>2. ASSUME NEW d \in Positions, NEW r \in RowsOf(d), r.at = clock
        PROVE  r \in RowsOf(d)'
    BY <1>1, <2>2 DEF RowsInOrder, RowsOf
  <2> QED
    BY <1>0, <2>1, <2>2 DEF Kept
<1>5. rows' \subseteq rows
  BY DEF Merged
<1>6. RowsInOrder'
  <2>1. IsFiniteSet(rows')
    BY <1>5, FS_Subset DEF RowsInOrder
  <2>2. ASSUME NEW d \in Positions
        PROVE  /\ RowsOf(d)' # {} => LatestRows(d)' # {}
               /\ (\E r \in RowsOf(d)' : r.price = None) =>
                    \E r \in RowsOf(d)' :
                      r.price = None /\ \A s \in RowsOf(d)' : s.price = None => s.at <= r.at
    BY <1>1, <1>2, <1>3
  <2> QED
    BY <1>5, <2>1, <2>2 DEF RowsInOrder
<1> QED
  BY <1>1, <1>2, <1>4, <1>6

LEMMA SameRows ==
  ASSUME TypeOK, RowsInOrder, rows' = rows, clock' \in 0..Midnight, clock' >= clock
  PROVE  /\ RowsInOrder'
         /\ \A d \in Positions : /\ RowsOf(d)' = RowsOf(d) /\ LatestRows(d)' = LatestRows(d)
                                 /\ Kept(d)
<1>1. \A d \in Positions : RowsOf(d)' = RowsOf(d) /\ LatestRows(d)' = LatestRows(d)
  BY DEF RowsOf, LatestRows
<1>2. \A d \in Positions : Kept(d)
  BY <1>1 DEF Kept
<1>3. clock \in Nat /\ \A r \in rows : r.at \in Nat
  BY DEF TypeOK, Row
<1>4. clock' >= 1 /\ \A r \in rows' : r.at <= clock'
  BY <1>3 DEF RowsInOrder
<1> QED
  BY <1>1, <1>2, <1>4 DEF RowsInOrder

-----------------------------------------------------------------------------
(* What the steps do                                                       *)

LEMMA QuoteDoes ==
  ASSUME TypeOK, RowsInOrder, NEW p \in Positions, NEW q \in Quotes, Quote(p, q)
  PROVE  /\ at = "quoting" /\ p \in todo /\ todo' = todo \ {p}
         /\ copy' = [copy EXCEPT ![p] = Note(p, q, copy[p], News(p, q, copy[p]))]
         /\ \A r \in RowsOf(p) : r.at < clock
         /\ News(p, q, copy[p]) =>
              /\ \E row \in Row : /\ row.pos = p /\ row.price = q /\ row.at = clock
                                  /\ row.marks = Crossed(p, q) \ copy[p].hits
                                  /\ rows' = rows \cup {row}
              /\ bought' = [bought EXCEPT ![p] = "no"]
         /\ ~News(p, q, copy[p]) =>
              /\ rows' = rows
              /\ bought' = [bought EXCEPT ![p] = IF @ = "no" THEN "no" ELSE "seen"]
         /\ Seen(p, q)
         /\ UNCHANGED <<clock, shadow, opened, held, state, at, exits, cuts>>
<1>1. \A r \in RowsOf(p) : r.at < clock
  BY DueRows DEF Quote
<1>2. Crossed(p, q) \ copy[p].hits \in SUBSET Milestones
  BY CrossedTypes
<1>3. [pos |-> p, price |-> q, at |-> clock, marks |-> Crossed(p, q) \ copy[p].hits] \in Row
  BY <1>2 DEF Row, TypeOK
<1>4. News(p, q, copy[p]) =>
        \E row \in Row : /\ row.pos = p /\ row.price = q /\ row.at = clock
                         /\ row.marks = Crossed(p, q) \ copy[p].hits
                         /\ rows' = rows \cup {row}
  BY <1>3 DEF Quote
<1> QED
  BY <1>1, <1>4 DEF Quote, Next1

LEMMA QuoteAgainDoes ==
  ASSUME TypeOK, RowsInOrder, NEW p \in Positions, QuoteAgain(p)
  PROVE  /\ at = "quoting" /\ p \in todo /\ todo' = todo \ {p}
         /\ \A r \in RowsOf(p) : r.at < clock
         /\ \E r \in LatestRows(p) :
              /\ r \in RowsOf(p) /\ r.price \in Quotes
              /\ copy' = [copy EXCEPT ![p] = Note(p, r.price, copy[p], FALSE)]
              /\ Seen(p, r.price)
         /\ UNCHANGED <<clock, shadow, opened, held, rows, state, at, exits, bought, cuts>>
<1>1. \A r \in RowsOf(p) : r.at < clock
  BY DueRows DEF QuoteAgain
<1>2. \A r \in LatestRows(p) : r \in RowsOf(p) /\ r.price \in Quotes
  BY RowTypes DEF TypeOK, LatestRows
<1> QED
  BY <1>1, <1>2 DEF QuoteAgain, Next1

LEMMA OpenDoes ==
  ASSUME TypeOK, OpenedFirst, NEW p \in Positions, NEW q \in Quotes, OpenShadow(p, q)
  PROVE  /\ shadow[p] = "none" /\ shadow' = [shadow EXCEPT ![p] = "open"]
         /\ RowsOf(p) = {} /\ state[p] = Unwatched /\ copy[p] = Unwatched /\ ~held[p]
         /\ \E row \in Row : /\ row.pos = p /\ row.price = q /\ row.at = clock /\ row.marks = {}
                             /\ rows' = rows \cup {row}
         /\ Seen(p, q)
         /\ UNCHANGED <<clock, held, state, at, todo, copy, exits, bought, cuts>>
<1>1. [pos |-> p, price |-> q, at |-> clock, marks |-> {}] \in Row
  BY DEF Row, TypeOK
<1>2. \E row \in Row : /\ row.pos = p /\ row.price = q /\ row.at = clock /\ row.marks = {}
                       /\ rows' = rows \cup {row}
  BY <1>1 DEF OpenShadow
<1> QED
  BY <1>2 DEF OpenShadow, OpenedFirst

\* The steps that leave the rows alone, but for quotes that are no news.
Quiet ==
  \/ StartCycle \/ StartClosed \/ Save \/ ApplyRules \/ Cut \/ Tick
  \/ \E p \in Positions : Skip(p) \/ CloseShadow(p) \/ Buy(p)

LEMMA QuietRows ==
  ASSUME TypeOK, Quiet
  PROVE  /\ rows' = rows /\ observed' = observed /\ newest' = newest
         /\ clock' \in 0..Midnight /\ clock' >= clock
         /\ at # "idle" => clock' = clock
<1>1. CASE Tick
  BY <1>1, TrackingAssumption DEF Tick, Idle, TypeOK
<1>2. CASE StartCycle \/ StartClosed \/ Save \/ ApplyRules \/ Cut
  BY <1>2 DEF StartCycle, StartClosed, Save, ApplyRules, Cut, TypeOK
<1>3. ASSUME NEW p \in Positions, Skip(p) \/ CloseShadow(p) \/ Buy(p)
      PROVE  UNCHANGED <<rows, observed, newest, clock>>
  BY <1>3 DEF Skip, CloseShadow, Buy
<1> QED
  BY <1>1, <1>2, <1>3 DEF Quiet, TypeOK

LEMMA Steps ==
  ASSUME Next
  PROVE  \/ Quiet \/ Compact
         \/ \E p \in Positions : QuoteAgain(p)
         \/ \E p \in Positions, q \in Quotes : Quote(p, q)
         \/ \E p \in Positions, q \in Quotes : OpenShadow(p, q)
  BY DEF Next, Track, Around, Quiet

LEMMA RowsStep ==
  ASSUME TypeOK, RowsInOrder, OpenedFirst, Next
  PROVE  RowsInOrder' /\ \A d \in Positions : Kept(d)
<1>1. CASE Quiet
  BY <1>1, QuietRows, SameRows
<1>2. CASE Compact
  BY <1>2, CompactRows DEF Compact
<1>3. ASSUME NEW p \in Positions, QuoteAgain(p)
      PROVE  RowsInOrder' /\ \A d \in Positions : Kept(d)
  <2>1. rows' = rows /\ clock' = clock
    BY <1>3 DEF QuoteAgain
  <2>2. clock' \in 0..Midnight /\ clock' >= clock
    BY <2>1 DEF TypeOK
  <2> QED
    BY <2>1, <2>2, SameRows
<1>4. ASSUME NEW p \in Positions, NEW q \in Quotes, Quote(p, q)
      PROVE  RowsInOrder' /\ \A d \in Positions : Kept(d)
  <2>0. clock' = clock /\ clock' \in 0..Midnight /\ clock' >= clock
    BY <1>4 DEF Quote, TypeOK
  <2>1. CASE News(p, q, copy[p])
    <3>1. PICK row \in Row : row.pos = p /\ row.at = clock /\ rows' = rows \cup {row}
      BY <1>4, <2>1, QuoteDoes
    <3>2. \A r \in RowsOf(p) : r.at < clock
      BY <1>4, QuoteDoes
    <3> QED
      BY <2>0, <3>1, <3>2, AppendRow
  <2>2. CASE ~News(p, q, copy[p])
    <3>1. rows' = rows
      BY <1>4, <2>2, QuoteDoes
    <3> QED
      BY <2>0, <3>1, SameRows
  <2> QED
    BY <2>1, <2>2
<1>5. ASSUME NEW p \in Positions, NEW q \in Quotes, OpenShadow(p, q)
      PROVE  RowsInOrder' /\ \A d \in Positions : Kept(d)
  <2>1. PICK row \in Row : row.pos = p /\ row.at = clock /\ rows' = rows \cup {row}
    BY <1>5, OpenDoes
  <2>2. \A r \in RowsOf(p) : r.at < clock
    BY <1>5, OpenDoes
  <2>3. clock' = clock
    BY <1>5, OpenDoes
  <2> QED
    BY <2>1, <2>2, <2>3, AppendRow
<1> QED
  BY <1>1, <1>2, <1>3, <1>4, <1>5, Steps

LEMMA OpenedStep ==
  ASSUME TypeOK, RowsInOrder, OpenedFirst, Next
  PROVE  OpenedFirst'
<1>0. \A d \in Positions : RowsOf(d) # {} => RowsOf(d)' # {}
  BY RowsStep DEF Kept
<1>1. CASE Quiet
  <2>1. \A d \in Positions : RowsOf(d)' = RowsOf(d)
    BY <1>1, QuietRows DEF RowsOf
  <2>2. \A d \in Positions : shadow'[d] = "none" <=> shadow[d] = "none"
    BY <1>1 DEF Quiet, StartCycle, StartClosed, Save, ApplyRules, Cut, Tick, Skip, CloseShadow, Buy,
                TypeOK
  <2>3. ASSUME NEW d \in Positions, shadow[d] = "none"
        PROVE  state'[d] = Unwatched /\ copy'[d] = Unwatched /\ ~held'[d] /\ d \notin todo'
    <3>0. state[d] = Unwatched /\ copy[d] = Unwatched /\ ~held[d] /\ d \notin todo
      BY <2>3 DEF OpenedFirst
    <3>1. CASE StartCycle \/ StartClosed \/ Save \/ ApplyRules \/ Cut \/ Tick
      BY <2>3, <3>0, <3>1 DEF StartCycle, StartClosed, Save, ApplyRules, Cut, Tick
    <3>2. ASSUME NEW p \in Positions, Skip(p) \/ CloseShadow(p) \/ Buy(p)
          PROVE  state'[d] = Unwatched /\ copy'[d] = Unwatched /\ ~held'[d] /\ d \notin todo'
      BY <2>3, <3>0, <3>2 DEF Skip, CloseShadow, Buy, TypeOK
    <3> QED
      BY <1>1, <3>1, <3>2 DEF Quiet
  <2> QED
    BY <2>1, <2>2, <2>3 DEF OpenedFirst
<1>2. CASE Compact
  <2>1. UNCHANGED <<shadow, held, state, todo, copy>>
    BY <1>2 DEF Compact
  <2>2. \A d \in Positions : RowsOf(d)' \subseteq RowsOf(d)
    BY <1>2, CompactRows DEF Compact
  <2> QED
    BY <1>0, <2>1, <2>2 DEF OpenedFirst
<1>3. ASSUME NEW p \in Positions, QuoteAgain(p)
      PROVE  OpenedFirst'
  <2>1. p \in todo /\ todo' = todo \ {p} /\ UNCHANGED <<shadow, held, rows, state>>
        /\ \A d \in Positions \ {p} : copy'[d] = copy[d]
    BY <1>3, QuoteAgainDoes DEF TypeOK
  <2> QED
    BY <2>1 DEF OpenedFirst, RowsOf
<1>4. ASSUME NEW p \in Positions, NEW q \in Quotes, Quote(p, q)
      PROVE  OpenedFirst'
  <2>1. p \in todo /\ todo' = todo \ {p} /\ UNCHANGED <<shadow, held, state>>
        /\ \A d \in Positions \ {p} : copy'[d] = copy[d]
    BY <1>4, QuoteDoes DEF TypeOK
  <2>2. \A d \in Positions \ {p} : RowsOf(d)' = RowsOf(d)
    BY <1>4 DEF RowsOf, Quote
  <2> QED
    BY <1>0, <2>1, <2>2 DEF OpenedFirst
<1>5. ASSUME NEW p \in Positions, NEW q \in Quotes, OpenShadow(p, q)
      PROVE  OpenedFirst'
  <2>1. /\ shadow' = [shadow EXCEPT ![p] = "open"]
        /\ UNCHANGED <<held, state, todo, copy>>
    BY <1>5, OpenDoes
  <2>2. PICK row \in Row : row.pos = p /\ rows' = rows \cup {row}
    BY <1>5, OpenDoes
  <2>3. RowsOf(p)' # {} /\ \A d \in Positions \ {p} : RowsOf(d)' = RowsOf(d)
    BY <2>2 DEF RowsOf
  <2> QED
    BY <2>1, <2>3 DEF OpenedFirst, TypeOK
<1> QED
  BY <1>1, <1>2, <1>3, <1>4, <1>5, Steps

-----------------------------------------------------------------------------
(* The entries                                                             *)

LEMMA EntryKept ==
  ASSUME TypeOK, TypeOK', NEW p \in Positions, Kept(p),
         NEW w \in Watch, EntryHolds(p, w)
  PROVE  EntryHolds(p, w)'
<1>0. /\ clock \in Nat /\ clock' \in Nat /\ w.at \in Nat /\ w.rowAt \in Nat
      /\ clock' >= clock
  BY DEF TypeOK, Watch, Kept
<1>1. w.at <= clock' /\ w.rowAt <= w.at /\ w.maxAt <= w.at /\ w.minAt <= w.at
  BY <1>0 DEF EntryHolds
<1>2. w.rowAt # 0 => \E r \in RowsOf(p)' : r.price = w.rowPrice
  BY DEF EntryHolds, Kept
<1>3. w.rowAt = clock' => \E r \in RowsOf(p)' : r.at = clock'
  <2>1. w.rowAt = clock' => clock' = clock
    BY <1>0 DEF EntryHolds
  <2> QED
    BY <2>1 DEF EntryHolds, Kept
<1>4. \A m \in w.hits : \E r \in RowsOf(p)' : m \in Crossed(p, r.price)
  BY DEF EntryHolds, Kept
<1> QED
  BY <1>1, <1>2, <1>3, <1>4 DEF EntryHolds

LEMMA UnwatchedHolds ==
  ASSUME TypeOK', RowsInOrder', NEW p \in Positions
  PROVE  EntryHolds(p, Unwatched)'
<1>1. clock' >= 1
  BY DEF RowsInOrder
<1> QED
  BY <1>1 DEF EntryHolds, Unwatched, None, TypeOK

LEMMA NoteHolds ==
  ASSUME TypeOK, TypeOK', RowsInOrder, NEW p \in Positions, Kept(p), clock' = clock,
         NEW v \in Watch, EntryHolds(p, v), NEW q \in Quotes, NEW append \in BOOLEAN,
         NEW w, w = Note(p, q, v, append),
         append => \E r \in RowsOf(p)' : r.at = clock /\ r.price = q,
         \A m \in Crossed(p, q) :
           m \in v.hits \/ \E r \in RowsOf(p)' : m \in Crossed(p, r.price)
  PROVE  EntryHolds(p, w)'
<1>0. EntryHolds(p, v)'
  BY EntryKept
<1>1. /\ w.at = clock /\ w.hits = v.hits \cup Crossed(p, q)
      /\ append => w.rowAt = clock /\ w.rowPrice = q
      /\ ~append => w.rowAt = v.rowAt /\ w.rowPrice = v.rowPrice
      /\ w.max # v.max => w.maxAt = clock
      /\ w.max = v.max => w.maxAt \in {v.maxAt, clock}
      /\ w.min # v.min => w.minAt = clock
      /\ w.min = v.min => w.minAt \in {v.minAt, clock}
  BY DEF Note
<1>2. /\ clock \in Nat /\ clock >= 1
      /\ v.at \in Nat /\ v.rowAt \in Nat /\ v.maxAt \in Nat /\ v.minAt \in Nat
  BY DEF TypeOK, Watch, RowsInOrder
<1>3. /\ w.at <= clock' /\ w.rowAt <= w.at /\ w.maxAt <= w.at /\ w.minAt <= w.at
      /\ w.max # None => w.maxAt > 0
      /\ w.min # None => w.minAt > 0
  BY <1>1, <1>2 DEF EntryHolds
<1>4. /\ w.rowAt # 0 => \E r \in RowsOf(p)' : r.price = w.rowPrice
      /\ w.rowAt = clock' => \E r \in RowsOf(p)' : r.at = clock'
  BY <1>0, <1>1 DEF EntryHolds
<1>5. \A m \in w.hits : \E r \in RowsOf(p)' : m \in Crossed(p, r.price)
  BY <1>0, <1>1 DEF EntryHolds
<1> QED
  BY <1>3, <1>4, <1>5 DEF EntryHolds

\* News is what is new about milestones, too.
LEMMA NewsTypes ==
  ASSUME NEW p, NEW q, NEW w
  PROVE  /\ News(p, q, w) \in BOOLEAN
         /\ ~News(p, q, w) => Crossed(p, q) \subseteq w.hits
  BY DEF News

LEMMA QuoteNotes ==
  ASSUME TypeOK, TypeOK', RowsInOrder, OpenedFirst, EntriesHold, Next,
         NEW p \in Positions, NEW q \in Quotes, Quote(p, q), NEW w, w = copy'[p]
  PROVE  EntryHolds(p, w)'
<1>1. w = Note(p, q, copy[p], News(p, q, copy[p]))
  BY QuoteDoes DEF TypeOK
<1>3. clock' = clock /\ Kept(p) /\ copy[p] \in Watch
  BY QuoteDoes, RowsStep DEF TypeOK
<1>4. EntryHolds(p, copy[p])
  BY DEF EntriesHold, Entries
<1>5. News(p, q, copy[p]) => \E r \in RowsOf(p)' : r.at = clock /\ r.price = q
  BY QuoteDoes DEF RowsOf
<1>6. \A m \in Crossed(p, q) :
        m \in copy[p].hits \/ \E r \in RowsOf(p)' : m \in Crossed(p, r.price)
  BY <1>5, NewsTypes
<1> QED
  BY <1>1, <1>3, <1>4, <1>5, <1>6, NoteHolds, NewsTypes

LEMMA QuoteAgainNotes ==
  ASSUME TypeOK, TypeOK', RowsInOrder, OpenedFirst, EntriesHold, Next,
         NEW p \in Positions, QuoteAgain(p), NEW w, w = copy'[p]
  PROVE  EntryHolds(p, w)'
<1>0. PICK r \in RowsOf(p) :
        r.price \in Quotes /\ copy' = [copy EXCEPT ![p] = Note(p, r.price, copy[p], FALSE)]
  BY QuoteAgainDoes
<1>1. w = Note(p, r.price, copy[p], FALSE)
  BY <1>0 DEF TypeOK
<1>3. clock' = clock /\ Kept(p) /\ copy[p] \in Watch
  BY QuoteAgainDoes, RowsStep DEF TypeOK
<1>4. EntryHolds(p, copy[p])
  BY DEF EntriesHold, Entries
<1>5. \E s \in RowsOf(p)' : s.price = r.price
  BY <1>3 DEF Kept
<1>6. \A m \in Crossed(p, r.price) : \E s \in RowsOf(p)' : m \in Crossed(p, s.price)
  BY <1>5
<1> QED
  BY <1>0, <1>1, <1>3, <1>4, <1>6, NoteHolds

\* Where the entries of the next state come from.
LEMMA EntriesCome ==
  ASSUME TypeOK, OpenedFirst, Next, NEW d \in Positions,
         NEW w, w \in Entries(d)'
  PROVE  \/ w \in Entries(d)
         \/ w = Unwatched
         \/ w = copy'[d] /\ (QuoteAgain(d) \/ \E q \in Quotes : Quote(d, q))
<1>1. CASE Quiet
  <2>1. ASSUME NEW p \in Positions, Skip(p) \/ CloseShadow(p) \/ Buy(p)
        PROVE  UNCHANGED <<state, copy>>
    BY <2>1 DEF Skip, CloseShadow, Buy
  <2>2. CASE StartCycle \/ StartClosed \/ Save \/ ApplyRules \/ Cut \/ Tick
    BY <2>2 DEF StartCycle, StartClosed, Save, ApplyRules, Cut, Tick, Entries
  <2> QED
    BY <1>1, <2>1, <2>2 DEF Quiet, Entries
<1>2. CASE Compact
  BY <1>2 DEF Compact, Entries
<1>3. ASSUME NEW p \in Positions, QuoteAgain(p) \/ \E q \in Quotes : Quote(p, q), d # p
      PROVE  w \in Entries(d)
  BY <1>3 DEF QuoteAgain, Quote, Entries, TypeOK
<1>4. ASSUME QuoteAgain(d) \/ \E q \in Quotes : Quote(d, q)
      PROVE  w = copy'[d] \/ w \in Entries(d)
  BY <1>4 DEF QuoteAgain, Quote, Entries
<1>5. ASSUME NEW p \in Positions, NEW q \in Quotes, OpenShadow(p, q)
      PROVE  w \in Entries(d)
  BY <1>5 DEF OpenShadow, Entries
<1> QED
  BY <1>1, <1>2, <1>3, <1>4, <1>5, Steps

LEMMA EntriesStep ==
  ASSUME TypeOK, TypeOK', RowsInOrder, RowsInOrder', OpenedFirst, EntriesHold, Next
  PROVE  EntriesHold'
<1>1. SUFFICES ASSUME NEW d \in Positions, NEW w, w \in Entries(d)' PROVE EntryHolds(d, w)'
  BY DEF EntriesHold
<1>2. CASE w \in Entries(d)
  <2>1. w \in Watch /\ EntryHolds(d, w)
    BY <1>2 DEF EntriesHold, Entries, TypeOK
  <2> QED
    BY <2>1, RowsStep, EntryKept
<1>3. CASE w = Unwatched
  BY <1>3, UnwatchedHolds
<1>4. CASE w = copy'[d] /\ QuoteAgain(d)
  BY <1>4, QuoteAgainNotes
<1>5. ASSUME NEW q \in Quotes, w = copy'[d], Quote(d, q) PROVE EntryHolds(d, w)'
  BY <1>5, QuoteNotes
<1> QED
  BY <1>1, <1>2, <1>3, <1>4, <1>5, EntriesCome

-----------------------------------------------------------------------------
(* The rows of one position.                                               *)

LEMMA NewsRows ==
  ASSUME TypeOK, RowsInOrder, NEW p \in Positions, NEW q \in Quotes, Quote(p, q), News(p, q, copy[p])
  PROVE  /\ \E row \in Row : /\ row.pos = p /\ row.price = q /\ row.at = clock
                             /\ row.marks = Crossed(p, q) \ copy[p].hits
                             /\ RowsOf(p)' = RowsOf(p) \cup {row} /\ LatestRows(p)' = {row}
         /\ \A d \in Positions \ {p} : RowsOf(d)' = RowsOf(d) /\ LatestRows(d)' = LatestRows(d)
<1>1. PICK row \in Row : /\ row.pos = p /\ row.price = q /\ row.at = clock
                         /\ row.marks = Crossed(p, q) \ copy[p].hits
                         /\ rows' = rows \cup {row}
  BY QuoteDoes
<1>2. (\A r \in RowsOf(p) : r.at < clock) /\ clock' = clock
  BY QuoteDoes
<1> QED
  BY <1>1, <1>2, AppendRow

LEMMA OpenRows ==
  ASSUME TypeOK, RowsInOrder, OpenedFirst, NEW p \in Positions, NEW q \in Quotes, OpenShadow(p, q)
  PROVE  /\ \E row \in Row : /\ row.pos = p /\ row.price = q /\ row.at = clock /\ row.marks = {}
                             /\ RowsOf(p)' = {row} /\ LatestRows(p)' = {row}
         /\ \A d \in Positions \ {p} : RowsOf(d)' = RowsOf(d) /\ LatestRows(d)' = LatestRows(d)
<1>1. PICK row \in Row : /\ row.pos = p /\ row.price = q /\ row.at = clock /\ row.marks = {}
                         /\ rows' = rows \cup {row}
  BY OpenDoes
<1>2. RowsOf(p) = {} /\ clock' = clock
  BY OpenDoes
<1> QED
  BY <1>1, <1>2, AppendRow

LEMMA OtherRows ==
  ASSUME TypeOK, RowsInOrder, OpenedFirst, Next, NEW d \in Positions,
         ~\E q \in Quotes : OpenShadow(d, q),
         ~\E q \in Quotes : Quote(d, q) /\ News(d, q, copy[d])
  PROVE  RowsOf(d)' \subseteq RowsOf(d) /\ LatestRows(d)' = LatestRows(d)
<1>1. CASE rows' = rows
  BY <1>1 DEF RowsOf, LatestRows
<1>2. CASE Quiet
  BY <1>1, <1>2, QuietRows
<1>3. CASE Compact
  BY <1>3, CompactRows DEF Compact
<1>4. ASSUME NEW p \in Positions, QuoteAgain(p)
      PROVE  rows' = rows
  BY <1>4 DEF QuoteAgain
<1>5. ASSUME NEW p \in Positions, NEW q \in Quotes, Quote(p, q)
      PROVE  RowsOf(d)' \subseteq RowsOf(d) /\ LatestRows(d)' = LatestRows(d)
  <2>1. CASE News(p, q, copy[p])
    BY <1>5, <2>1, NewsRows
  <2>2. CASE ~News(p, q, copy[p])
    BY <1>1, <1>5, <2>2, QuoteDoes
  <2> QED
    BY <2>1, <2>2
<1>6. ASSUME NEW p \in Positions, NEW q \in Quotes, OpenShadow(p, q)
      PROVE  RowsOf(d)' \subseteq RowsOf(d) /\ LatestRows(d)' = LatestRows(d)
  BY <1>6, OpenRows
<1> QED
  BY <1>1, <1>2, <1>3, <1>4, <1>5, <1>6, Steps

\* What a quote of another position, or no quote, leaves alone.
LEMMA OthersStay ==
  ASSUME TypeOK, Next, NEW d \in Positions, ~QuoteAgain(d), ~\E q \in Quotes : Quote(d, q)
  PROVE  /\ ~Cut => Entry(d)' = Entry(d)
         /\ ~(\E q \in Quotes : OpenShadow(d, q)) =>
              /\ newest'[d] = newest[d]
              /\ d \notin lost' => d \notin lost
              /\ shadow'[d] = "none" <=> shadow[d] = "none"
<1>1. CASE Quiet
  <2>1. CASE StartCycle \/ StartClosed \/ Save \/ ApplyRules \/ Cut \/ Tick
    BY <2>1 DEF StartCycle, StartClosed, Save, ApplyRules, Cut, Tick, Idle, Entry
  <2>2. ASSUME NEW p \in Positions, Skip(p) \/ CloseShadow(p) \/ Buy(p)
        PROVE  /\ UNCHANGED <<at, state, copy, newest, lost>>
               /\ shadow'[d] = "none" <=> shadow[d] = "none"
    BY <2>2 DEF Skip, CloseShadow, Buy, TypeOK
  <2> QED
    BY <1>1, <2>1, <2>2 DEF Quiet, Entry
<1>2. CASE Compact
  BY <1>2 DEF Compact, Entry
<1>3. ASSUME NEW p \in Positions, QuoteAgain(p)
      PROVE  /\ Entry(d)' = Entry(d) /\ newest'[d] = newest[d] /\ (d \notin lost' => d \notin lost)
             /\ shadow' = shadow
  BY <1>3 DEF QuoteAgain, Seen, Entry, TypeOK
<1>4. ASSUME NEW p \in Positions, NEW q \in Quotes, Quote(p, q)
      PROVE  /\ Entry(d)' = Entry(d) /\ newest'[d] = newest[d] /\ (d \notin lost' => d \notin lost)
             /\ shadow' = shadow
  BY <1>4 DEF Quote, Seen, Entry, TypeOK
<1>5. ASSUME NEW p \in Positions, NEW q \in Quotes, OpenShadow(p, q)
      PROVE  Entry(d)' = Entry(d)
  BY <1>5 DEF OpenShadow, Entry
<1>6. ASSUME NEW p \in Positions, NEW q \in Quotes, OpenShadow(p, q), p # d
      PROVE  /\ newest'[d] = newest[d] /\ (d \notin lost' => d \notin lost)
             /\ shadow'[d] = "none" <=> shadow[d] = "none"
  BY <1>6 DEF OpenShadow, Seen, TypeOK
<1> QED
  BY <1>1, <1>2, <1>3, <1>4, <1>5, <1>6, Steps

-----------------------------------------------------------------------------
(* The quote that is judged                                                *)

LEMMA CopiesStep ==
  ASSUME TypeOK, CopiesAreFresh, Next
  PROVE  CopiesAreFresh'
<1>1. CASE Quiet
  <2>1. CASE StartCycle
    BY <2>1 DEF StartCycle, CopiesAreFresh
  <2>2. CASE StartClosed \/ Save \/ ApplyRules \/ Cut \/ Tick
    BY <2>2 DEF StartClosed, Save, ApplyRules, Cut, Tick, Idle, CopiesAreFresh
  <2>3. ASSUME NEW p \in Positions, Skip(p) \/ CloseShadow(p) \/ Buy(p)
        PROVE  UNCHANGED <<at, state, copy, clock>>
    BY <2>3 DEF Skip, CloseShadow, Buy
  <2> QED
    BY <1>1, <2>1, <2>2, <2>3 DEF Quiet, CopiesAreFresh
<1>2. CASE Compact
  BY <1>2 DEF Compact, CopiesAreFresh
<1>3. ASSUME NEW p \in Positions, QuoteAgain(p)
      PROVE  CopiesAreFresh'
  BY <1>3 DEF QuoteAgain, CopiesAreFresh, Note, TypeOK, Next1
<1>4. ASSUME NEW p \in Positions, NEW q \in Quotes, Quote(p, q)
      PROVE  CopiesAreFresh'
  <2>1. Note(p, q, copy[p], News(p, q, copy[p])).at = clock
    BY DEF Note
  <2>2. /\ copy'[p].at = clock' /\ \A d \in Positions \ {p} : copy'[d] = copy[d]
        /\ UNCHANGED <<at, state, clock>> /\ at = "quoting"
    BY <1>4, <2>1 DEF Quote, TypeOK, Next1
  <2> QED
    BY <2>2 DEF CopiesAreFresh
<1>5. ASSUME NEW p \in Positions, NEW q \in Quotes, OpenShadow(p, q)
      PROVE  CopiesAreFresh'
  BY <1>5 DEF OpenShadow, CopiesAreFresh
<1> QED
  BY <1>1, <1>2, <1>3, <1>4, <1>5, Steps

\* A cut cycle leaves the newest quote in the files, or counts it as lost.
LEMMA CutKeeps ==
  ASSUME TypeOK, RowsInOrder, EntriesHold, CopiesAreFresh, NewestKept, Cut,
         NEW d \in Positions, d \notin lost', shadow[d] # "none"
  PROVE  Fresh(d, state[d])
<1>1. d \notin lost /\ Fresh(d, Entry(d))
  BY DEF Cut, NewestKept
<1>2. CASE at = "rules"
  BY <1>1, <1>2 DEF Entry
<1>3. CASE at = "quoting" /\ copy[d] = state[d]
  BY <1>1, <1>3 DEF Entry
<1>4. CASE at = "quoting" /\ copy[d] # state[d]
  <2>1. copy[d].rowAt = copy[d].at /\ copy[d].at = clock
    BY <1>4 DEF Cut, CopiesAreFresh
  <2>2. EntryHolds(d, copy[d]) /\ EntryHolds(d, state[d])
    BY DEF EntriesHold, Entries
  <2>3. \E r \in RowsOf(d) : r.at = clock
    BY <2>1, <2>2 DEF EntryHolds
  <2>4. ~\A r \in RowsOf(d) : r.at < copy[d].at
    BY <2>1, <2>3 DEF TypeOK
  <2>5. PICK r \in LatestRows(d) : r.at >= copy[d].at /\ r.price = newest[d]
    BY <1>1, <1>4, <2>4 DEF Fresh, Entry
  <2>6. r.at >= state[d].at
    <3>1. state[d].at <= clock /\ state[d].at \in Nat /\ clock \in Nat
      BY <2>2 DEF EntryHolds, TypeOK, Watch
    <3>2. r.at \in Nat
      BY RowTypes DEF LatestRows, TypeOK
    <3> QED
      BY <2>1, <2>5, <3>1, <3>2
  <2> QED
    BY <2>5, <2>6 DEF Fresh
<1> QED
  BY <1>2, <1>3, <1>4 DEF TypeOK, Cut, Idle

LEMMA NewestStep ==
  ASSUME TypeOK, RowsInOrder, OpenedFirst, EntriesHold, CopiesAreFresh, NewestKept, Next
  PROVE  NewestKept'
<1>1. SUFFICES ASSUME NEW d \in Positions, d \notin lost', shadow'[d] # "none",
                      NEW w, w = Entry(d)'
               PROVE  Fresh(d, w)'
  BY DEF NewestKept, Fresh
<1>2. CASE QuoteAgain(d)
  <2>1. PICK r \in RowsOf(d) : /\ copy' = [copy EXCEPT ![d] = Note(d, r.price, copy[d], FALSE)]
                               /\ Seen(d, r.price)
    BY <1>2, QuoteAgainDoes
  <2>2. w = Note(d, r.price, copy[d], FALSE)
    BY <1>1, <1>2, <2>1, QuoteAgainDoes DEF Entry, TypeOK
  <2>3. w.at = clock /\ w.price = r.price /\ newest'[d] = r.price
    BY <2>1, <2>2 DEF Note, Seen, TypeOK
  <2>4. \A s \in RowsOf(d)' : s.at < clock
    BY <1>2, QuoteAgainDoes DEF RowsOf
  <2> QED
    BY <2>3, <2>4 DEF Fresh
<1>3. ASSUME NEW q \in Quotes, Quote(d, q)
      PROVE  Fresh(d, w)'
  <2>1. w = Note(d, q, copy[d], News(d, q, copy[d]))
    BY <1>1, <1>3, QuoteDoes DEF Entry, TypeOK
  <2>2. w.at = clock /\ w.price = q /\ newest'[d] = q
    BY <1>3, <2>1, QuoteDoes DEF Note, Seen, TypeOK
  <2>3. CASE News(d, q, copy[d])
    <3>1. \E row \in LatestRows(d)' : row.price = q /\ row.at = clock
      BY <1>3, <2>3, NewsRows
    <3> QED
      BY <2>2, <3>1 DEF Fresh, TypeOK
  <2>4. CASE ~News(d, q, copy[d])
    <3>1. \A s \in RowsOf(d)' : s.at < clock
      BY <1>3, <2>4, QuoteDoes DEF RowsOf
    <3> QED
      BY <2>2, <3>1 DEF Fresh
  <2> QED
    BY <2>3, <2>4
<1>4. ASSUME NEW q \in Quotes, OpenShadow(d, q)
      PROVE  Fresh(d, w)'
  <2>1. w.at = 0
    BY <1>1, <1>4, OpenDoes DEF Entry, Unwatched
  <2>2. \E row \in LatestRows(d)' : row.price = q /\ row.at = clock
    BY <1>4, OpenRows
  <2>3. newest'[d] = q
    BY <1>4, OpenDoes DEF Seen, TypeOK
  <2> QED
    BY <2>1, <2>2, <2>3 DEF Fresh, TypeOK
<1>5. CASE /\ ~QuoteAgain(d) /\ ~\E q \in Quotes : Quote(d, q)
           /\ ~\E q \in Quotes : OpenShadow(d, q)
  <2>1. /\ newest'[d] = newest[d] /\ d \notin lost /\ shadow[d] # "none"
        /\ ~Cut => Entry(d)' = Entry(d)
    BY <1>1, <1>5, OthersStay
  <2>2. RowsOf(d)' \subseteq RowsOf(d) /\ LatestRows(d)' = LatestRows(d)
    BY <1>5, OtherRows
  <2>3. Fresh(d, w)
    <3>1. CASE ~Cut
      BY <1>1, <2>1, <3>1 DEF NewestKept
    <3>2. CASE Cut
      <4>1. w = state[d]
        BY <1>1, <3>2 DEF Entry, Cut
      <4> QED
        BY <1>1, <2>1, <3>2, <4>1, CutKeeps
    <3> QED
      BY <3>1, <3>2
  <2> QED
    BY <2>1, <2>2, <2>3 DEF Fresh
<1> QED
  BY <1>2, <1>3, <1>4, <1>5

\* What latest_snapshot_for_human_position finds.
LEMMA LatestQuoteIs ==
  ASSUME TypeOK, RowsInOrder, NEW p \in Positions, RowsOf(p) # {}, EntryHolds(p, state[p]),
         NEW q \in Quotes,
         \/ \E r \in LatestRows(p) : r.at >= state[p].at /\ r.price = q
         \/ (\A r \in RowsOf(p) : r.at < state[p].at) /\ state[p].price = q
  PROVE  LatestQuote(p) = q
<1> DEFINE times == {r.at : r \in RowsOf(p)} \cup {x.at : x \in StateRows(p)}
           Newest(x, t) == IF \E r \in RowsOf(p) : r.at = t
                           THEN \E r \in RowsOf(p) : r.at = t /\ r.price = x
                           ELSE IF state[p].at = t THEN x = state[p].price
                           ELSE \E y \in StateRows(p) : y.at = t /\ y.price = x
           Good(x) == /\ times # {}
                      /\ \E t \in times : (\A u \in times : u <= t) /\ Newest(x, t)
<1>1. LatestQuote(p) = CHOOSE x \in Quotes : Good(x)
  BY DEF LatestQuote
<1>2. state[p].at \in Nat /\ \A r \in RowsOf(p) : r.at \in Nat
  BY RowTypes DEF TypeOK, Watch
<1>3. \A x \in StateRows(p) : x.at \in Nat /\ x.at <= state[p].at
  <2>1. state[p] \in Watch
    BY DEF TypeOK
  <2>2. \A x \in StateRows(p) : x.at \in {state[p].at, state[p].maxAt, state[p].minAt}
    BY DEF StateRows
  <2>3. state[p].maxAt <= state[p].at /\ state[p].minAt <= state[p].at
    BY DEF EntryHolds
  <2> QED
    BY <1>2, <2>1, <2>2, <2>3 DEF Watch
<1>4. \A t \in times : t \in Nat
  BY <1>2, <1>3
<1>5. ASSUME NEW r \in LatestRows(p), r.at >= state[p].at, r.price = q
      PROVE  \E t \in times : (\A u \in times : u <= t) /\ \A x \in Quotes : Newest(x, t) <=> x = q
  <2>1. r \in RowsOf(p) /\ \A s \in RowsOf(p) : s.at <= r.at
    BY <1>5 DEF LatestRows
  <2>2. r.at \in times /\ \A u \in times : u <= r.at
    BY <1>2, <1>3, <1>5, <2>1
  <2>3. \A s \in RowsOf(p) : s.at = r.at => s = r
    BY <2>1, RowTypes DEF RowsInOrder, TypeOK
  <2>4. \A x \in Quotes : Newest(x, r.at) <=> x = q
    BY <1>5, <2>1, <2>3
  <2> HIDE DEF times, Newest
  <2> QED
    BY <2>2, <2>4
<1>6. ASSUME \A r \in RowsOf(p) : r.at < state[p].at, state[p].price = q
      PROVE  \E t \in times : (\A u \in times : u <= t) /\ \A x \in Quotes : Newest(x, t) <=> x = q
  <2>1. state[p].at > 0
    BY <1>2, <1>6
  <2>2. [price |-> state[p].price, at |-> state[p].at] \in StateRows(p)
    BY <2>1 DEF StateRows
  <2>3. state[p].at \in times /\ \A u \in times : u <= state[p].at
    BY <1>2, <1>3, <1>6, <2>2
  <2>4. \A x \in Quotes : Newest(x, state[p].at) <=> x = q
    BY <1>2, <1>6
  <2> HIDE DEF times, Newest
  <2> QED
    BY <2>3, <2>4
<1>7. PICK t \in times : (\A u \in times : u <= t) /\ \A x \in Quotes : Newest(x, t) <=> x = q
  BY <1>5, <1>6
<1>8. \A u \in times : (\A v \in times : v <= u) => u = t
  <2> HIDE DEF times, Newest
  <2> QED
    BY <1>4, <1>7
<1>9. \A x \in Quotes : Good(x) <=> x = q
  <2> HIDE DEF times, Newest
  <2> QED
    BY <1>7, <1>8
<1> HIDE DEF Good
<1> QED
  BY <1>1, <1>9

LEMMA JudgedFollows ==
  ASSUME TypeOK, RowsInOrder, OpenedFirst, EntriesHold, NewestKept
  PROVE  JudgedIsNewest
<1>1. SUFFICES ASSUME at # "quoting", NEW p \in Positions \ lost, shadow[p] # "none"
               PROVE  LatestQuote(p) = newest[p]
  BY DEF JudgedIsNewest
<1>2. RowsOf(p) # {} /\ EntryHolds(p, state[p]) /\ newest[p] \in Quotes
  BY <1>1 DEF OpenedFirst, EntriesHold, Entries, TypeOK
<1>3. Fresh(p, state[p])
  BY <1>1 DEF NewestKept, Entry
<1> QED
  BY <1>2, <1>3, LatestQuoteIs DEF Fresh

-----------------------------------------------------------------------------
(* The prices that sold                                                    *)

LEMMA SellsKept ==
  ASSUME TypeOK, RowsInOrder, OpenedFirst, Next, NEW d \in Positions, shadow[d] # "none",
         NEW w \in Watch, EntryHolds(d, w), SellsByRow(d, w)
  PROVE  SellsByRow(d, w)'
<1>1. Kept(d) /\ RowsOf(d) # {}
  BY RowsStep DEF OpenedFirst
<1>2. ~\E q \in Quotes : OpenShadow(d, q)
  BY DEF OpenShadow
<1>3. CASE \E q \in Quotes : Quote(d, q) /\ News(d, q, copy[d])
  <2>1. \E row \in RowsOf(d)' : row.at = clock
    BY <1>3, NewsRows
  <2>2. ~\A r \in RowsOf(d)' : r.at < w.at
    BY <2>1 DEF EntryHolds, TypeOK, Watch
  <2> QED
    BY <2>2 DEF SellsByRow
<1>4. CASE ~\E q \in Quotes : Quote(d, q) /\ News(d, q, copy[d])
  <2>1. LatestRows(d)' = LatestRows(d) /\ LatestRows(d)' \subseteq RowsOf(d)'
    BY <1>2, <1>4, OtherRows DEF LatestRows
  <2>2. ASSUME \A r \in RowsOf(d)' : r.at < w.at
        PROVE  \A r \in RowsOf(d) : r.at < w.at
    <3>1. PICK t \in LatestRows(d) : TRUE
      BY <1>1 DEF RowsInOrder
    <3>2. t.at < w.at /\ t \in RowsOf(d) /\ \A r \in RowsOf(d) : r.at <= t.at
      BY <2>1, <2>2, <3>1 DEF LatestRows
    <3>3. w.at \in Nat /\ \A r \in RowsOf(d) : r.at \in Nat
      BY RowTypes DEF TypeOK, Watch
    <3> QED
      BY <3>2, <3>3
  <2> QED
    BY <1>1, <2>2 DEF SellsByRow, Kept
<1> QED
  BY <1>3, <1>4

LEMMA SalesStep ==
  ASSUME TypeOK, TypeOK', RowsInOrder, OpenedFirst, EntriesHold, SalesOnRecord, Next
  PROVE  SalesOnRecord'
<1>0. ASSUME NEW d \in Positions
      PROVE  /\ EntryHolds(d, state[d]) /\ EntryHolds(d, copy[d])
             /\ state[d] \in Watch /\ copy[d] \in Watch
  BY DEF EntriesHold, Entries, TypeOK
<1>1. SUFFICES ASSUME NEW d \in Positions, NEW v, v = state'[d], NEW w, w = copy'[d]
               PROVE  /\ bought'[d] = "seen" => at' = "quoting"
                      /\ held'[d] /\ bought'[d] = "no" => SellsByRow(d, v)'
                      /\ held'[d] /\ at' = "quoting" /\ bought'[d] # "new" => SellsByRow(d, w)'
  BY DEF SalesOnRecord, SellsByRow
<1>2. held[d] => shadow[d] # "none"
  BY DEF OpenedFirst
<1>3. held[d] /\ SellsByRow(d, state[d]) => \A x : x = state[d] => SellsByRow(d, x)'
  BY <1>0, <1>2, SellsKept
<1>4. held[d] /\ SellsByRow(d, copy[d]) => \A x : x = copy[d] => SellsByRow(d, x)'
  BY <1>0, <1>2, SellsKept
<1>5. CASE Quiet
  <2>1. CASE StartCycle
    <3>1. at = "idle" /\ v = state[d] /\ w = state[d] /\ UNCHANGED <<held, bought>>
      BY <1>1, <2>1 DEF StartCycle, Idle
    <3> QED
      BY <1>3, <2>1, <3>1 DEF SalesOnRecord, StartCycle, TypeOK
  <2>2. CASE StartClosed \/ Tick
    <3>1. at = "idle" /\ at' # "quoting" /\ v = state[d] /\ UNCHANGED <<held, bought>>
      BY <1>1, <2>2 DEF StartClosed, Tick, Idle
    <3> QED
      BY <1>3, <3>1 DEF SalesOnRecord
  <2>3. CASE Save
    <3>1. /\ at = "quoting" /\ at' = "rules" /\ v = copy[d] /\ held'[d] = held[d]
          /\ bought'[d] = IF bought[d] = "seen" THEN "no" ELSE bought[d]
      BY <1>1, <2>3 DEF Save
    <3> QED
      BY <1>4, <3>1 DEF SalesOnRecord
  <2>4. CASE ApplyRules
    <3>1. /\ at = "rules" /\ at' = "idle" /\ v = state[d] /\ bought'[d] = bought[d]
          /\ held'[d] => held[d]
      BY <1>1, <2>4 DEF ApplyRules
    <3> QED
      BY <1>3, <3>1 DEF SalesOnRecord
  <2>5. CASE Cut
    <3>1. /\ at' = "idle" /\ v = state[d] /\ held'[d] = held[d]
          /\ bought'[d] = IF bought[d] = "seen" THEN "new" ELSE bought[d]
      BY <1>1, <2>5 DEF Cut
    <3> QED
      BY <1>3, <3>1 DEF SalesOnRecord
  <2>6. ASSUME NEW p \in Positions, Skip(p) \/ CloseShadow(p)
        PROVE  UNCHANGED <<at, held, state, copy, bought>>
    BY <2>6 DEF Skip, CloseShadow
  <2>7. ASSUME NEW p \in Positions, Buy(p)
        PROVE  /\ UNCHANGED <<at, state, copy>>
               /\ \/ held'[d] = held[d] /\ bought'[d] = bought[d]
                  \/ bought'[d] = "new"
    BY <2>7 DEF Buy, TypeOK
  <2>8. CASE \/ UNCHANGED <<at, held, state, copy, bought>>
             \/ /\ UNCHANGED <<at, state, copy>>
                /\ \/ held'[d] = held[d] /\ bought'[d] = bought[d]
                   \/ bought'[d] = "new"
    BY <1>1, <1>3, <1>4, <2>8 DEF SalesOnRecord
  <2> QED
    BY <1>5, <2>1, <2>2, <2>3, <2>4, <2>5, <2>6, <2>7, <2>8 DEF Quiet
<1>6. CASE UNCHANGED <<at, held, state, copy, bought>>
  BY <1>1, <1>3, <1>4, <1>6 DEF SalesOnRecord
<1>7. CASE QuoteAgain(d)
  <2>1. PICK r \in RowsOf(d) : copy' = [copy EXCEPT ![d] = Note(d, r.price, copy[d], FALSE)]
    BY <1>7, QuoteAgainDoes
  <2>2. /\ w = Note(d, r.price, copy[d], FALSE) /\ v = state[d]
        /\ at = "quoting" /\ UNCHANGED <<at, held, bought, rows>>
    BY <1>1, <1>7, <2>1, QuoteAgainDoes DEF TypeOK
  <2>3. w.price = r.price /\ r \in RowsOf(d)'
    BY <2>2 DEF Note, RowsOf
  <2>4. SellsByRow(d, w)'
    BY <2>3 DEF SellsByRow
  <2> QED
    BY <1>3, <2>2, <2>4 DEF SalesOnRecord
<1>8. ASSUME NEW q \in Quotes, Quote(d, q)
      PROVE  /\ bought'[d] = "seen" => at' = "quoting"
             /\ held'[d] /\ bought'[d] = "no" => SellsByRow(d, v)'
             /\ held'[d] /\ at' = "quoting" /\ bought'[d] # "new" => SellsByRow(d, w)'
  <2>1. /\ w = Note(d, q, copy[d], News(d, q, copy[d])) /\ v = state[d]
        /\ at = "quoting" /\ at' = at /\ held'[d] = held[d]
    BY <1>1, <1>8, QuoteDoes DEF TypeOK
  <2>2. w.price = q /\ w.at = clock
    BY <2>1 DEF Note
  <2>3. CASE News(d, q, copy[d])
    <3>1. \E row \in RowsOf(d)' : row.at = clock
      BY <1>8, <2>3, NewsRows
    <3>2. v.at <= clock /\ v.at \in Nat /\ clock \in Nat
      BY <1>0, <2>1 DEF EntryHolds, TypeOK, Watch
    <3>3. SellsByRow(d, v)' /\ SellsByRow(d, w)'
      BY <2>2, <3>1, <3>2 DEF SellsByRow
    <3> QED
      BY <2>1, <3>3
  <2>4. CASE ~News(d, q, copy[d])
    <3>1. bought'[d] = IF bought[d] = "no" THEN "no" ELSE "seen"
      BY <1>8, <2>4, QuoteDoes DEF TypeOK
    <3>2. held[d] => q \notin SellsAt[d]
      BY <2>4 DEF News, AtBoundary
    <3>3. held[d] => SellsByRow(d, w)'
      BY <2>2, <3>2 DEF SellsByRow
    <3> QED
      BY <1>3, <2>1, <3>1, <3>3 DEF SalesOnRecord
  <2> QED
    BY <2>3, <2>4
<1>9. ASSUME NEW p \in Positions, p # d, QuoteAgain(p) \/ \E q \in Quotes : Quote(p, q)
      PROVE  /\ UNCHANGED <<at, held, state>>
             /\ copy'[d] = copy[d] /\ bought'[d] = bought[d]
  BY <1>9 DEF QuoteAgain, Quote, TypeOK
<1>10. CASE UNCHANGED <<at, held, state>> /\ copy'[d] = copy[d] /\ bought'[d] = bought[d]
  BY <1>1, <1>3, <1>4, <1>10 DEF SalesOnRecord
<1>11. ASSUME Compact \/ \E p \in Positions, q \in Quotes : OpenShadow(p, q)
       PROVE  UNCHANGED <<at, held, state, copy, bought>>
  BY <1>11 DEF Compact, OpenShadow
<1> QED
  BY <1>5, <1>6, <1>7, <1>8, <1>9, <1>10, <1>11, Steps

LEMMA ExitsStep ==
  ASSUME TypeOK, RowsInOrder, OpenedFirst, EntriesHold, SalesOnRecord, ExitIsOnRecord, Next
  PROVE  ExitIsOnRecord'
<1>1. ASSUME NEW e \in exits
      PROVE  e.early \/ \E r \in RowsOf(e.pos)' : r.price = e.price
  <2>1. e.pos \in Positions
    BY DEF TypeOK
  <2>2. Kept(e.pos)
    BY <2>1, RowsStep
  <2> QED
    BY <2>2 DEF ExitIsOnRecord, Kept
<1>2. CASE ApplyRules
  <2>1. ASSUME NEW p \in Positions, held[p], LatestQuote(p) \in SellsAt[p], bought[p] = "no"
        PROVE  \E r \in RowsOf(p) : r.price = LatestQuote(p)
    <3>1. RowsOf(p) # {} /\ EntryHolds(p, state[p]) /\ state[p] \in Watch
      BY <2>1 DEF OpenedFirst, EntriesHold, Entries, TypeOK
    <3>2. PICK t \in LatestRows(p) : TRUE
      BY <3>1 DEF RowsInOrder
    <3>3. t \in RowsOf(p) /\ (\A r \in RowsOf(p) : r.at <= t.at) /\ t.price \in Quotes
      BY <3>2, RowTypes DEF LatestRows, TypeOK
    <3>4. state[p].at \in Nat /\ \A r \in RowsOf(p) : r.at \in Nat
      BY <3>1, RowTypes DEF TypeOK, Watch
    <3>5. CASE t.at >= state[p].at
      BY <3>1, <3>2, <3>3, <3>5, LatestQuoteIs
    <3>6. CASE t.at < state[p].at
      <4>1. \A r \in RowsOf(p) : r.at < state[p].at
        BY <3>3, <3>4, <3>6
      <4>2. LatestQuote(p) = state[p].price
        BY <3>1, <4>1, LatestQuoteIs DEF Watch
      <4>3. SellsByRow(p, state[p])
        BY <2>1 DEF SalesOnRecord
      <4> QED
        BY <2>1, <4>1, <4>2, <4>3 DEF SellsByRow
    <3> QED
      BY <3>3, <3>4, <3>5, <3>6
  <2>2. ASSUME NEW e \in exits' \ exits
        PROVE  e.early \/ \E r \in RowsOf(e.pos)' : r.price = e.price
    <3>1. PICK p \in Positions :
            /\ held[p] /\ LatestQuote(p) \in SellsAt[p]
            /\ e = [pos |-> p, price |-> LatestQuote(p), early |-> bought[p] # "no"]
      BY <1>2, <2>2 DEF ApplyRules
    <3>2. RowsOf(p)' = RowsOf(p)
      BY <1>2 DEF ApplyRules, RowsOf
    <3> QED
      BY <2>1, <3>1, <3>2
  <2> QED
    BY <1>1, <2>2 DEF ExitIsOnRecord
<1>3. CASE exits' = exits
  BY <1>1, <1>3 DEF ExitIsOnRecord
<1>4. ASSUME ~ApplyRules
      PROVE  exits' = exits
  BY <1>4 DEF Next, Track, Around, StartCycle, StartClosed, Save, Cut, Tick, Compact, Skip,
              QuoteAgain, Quote, CloseShadow, Buy, OpenShadow
<1> QED
  BY <1>2, <1>3, <1>4

-----------------------------------------------------------------------------
(* The rows and the price                                                  *)

LEMMA CutsCount ==
  ASSUME TypeOK, Next
  PROVE  /\ cuts \in Nat /\ cuts' >= cuts
         /\ ~Cut => cuts' = cuts
         /\ Cut => cuts' = cuts + 1
<1>1. cuts \in Nat
  BY DEF TypeOK
<1>2. ~Cut => cuts' = cuts
  BY DEF Next, Track, Around, StartCycle, StartClosed, Save, ApplyRules, Tick, Compact, Skip,
         QuoteAgain, Quote, CloseShadow, Buy, OpenShadow
<1>3. Cut => cuts' = cuts + 1
  BY DEF Cut
<1> QED
  BY <1>1, <1>2, <1>3

\* A price is no move away from itself.
LEMMA NoMove ==
  ASSUME NEW q \in Quotes
  PROVE  ~Moved(q, q)
<1>1. q # None => q \in Nat /\ q > 0
  BY TrackingAssumption DEF Quotes, None
<1>2. q # None => MovePct * q > 0
  BY <1>1, TrackingAssumption
<1>3. q # None => (q - q) * 100 = 0
  BY <1>1
<1>4. q # None => MovePct * q \in Nat
  BY <1>1, TrackingAssumption
<1>5. q # None => ~((q - q) * 100 >= MovePct * q)
  BY <1>2, <1>3, <1>4
<1> QED
  BY <1>5 DEF Moved, Rise, Fall

LEMMA SeriesStep ==
  ASSUME TypeOK, RowsInOrder, OpenedFirst, SeriesHolds, Next
  PROVE  SeriesHolds'
<1>1. SUFFICES ASSUME cuts' = 0, NEW d \in Positions, NEW s \in LatestRows(d)',
                      NEW w, w = Entry(d)'
               PROVE  /\ s.price = None <=> newest'[d] = None
                      /\ ~Moved(s.price, newest'[d])
                      /\ w.rowAt # 0 =>
                           s.price = w.rowPrice /\ (w.price = None <=> newest'[d] = None)
  BY DEF SeriesHolds, Moved, Rise, Fall
<1>2. cuts = 0 /\ ~Cut
  BY <1>1, CutsCount
<1>3. CASE QuoteAgain(d)
  <2>1. PICK r \in LatestRows(d) :
          /\ r.price \in Quotes /\ Seen(d, r.price)
          /\ copy' = [copy EXCEPT ![d] = Note(d, r.price, copy[d], FALSE)]
    BY <1>3, QuoteAgainDoes
  <2>2. s = r
    <3>1. LatestRows(d)' = LatestRows(d)
      BY <1>3 DEF QuoteAgain, LatestRows, RowsOf
    <3> QED
      BY <2>1, <3>1, LatestRowIsOne
  <2>3. w = Note(d, r.price, copy[d], FALSE) /\ Entry(d) = copy[d]
    BY <1>1, <1>3, <2>1, QuoteAgainDoes DEF Entry, TypeOK
  <2>4. /\ w.price = r.price /\ newest'[d] = r.price
        /\ w.rowAt = copy[d].rowAt /\ w.rowPrice = copy[d].rowPrice
    BY <2>1, <2>3 DEF Note, Seen, TypeOK
  <2>5. copy[d].rowAt # 0 => r.price = copy[d].rowPrice
    BY <1>2, <2>1, <2>3 DEF SeriesHolds
  <2> QED
    BY <2>1, <2>2, <2>4, <2>5, NoMove
<1>4. ASSUME NEW q \in Quotes, Quote(d, q)
      PROVE  /\ s.price = None <=> newest'[d] = None
             /\ ~Moved(s.price, newest'[d])
             /\ w.rowAt # 0 =>
                  s.price = w.rowPrice /\ (w.price = None <=> newest'[d] = None)
  <2>1. w = Note(d, q, copy[d], News(d, q, copy[d])) /\ Entry(d) = copy[d] /\ newest'[d] = q
    BY <1>1, <1>4, QuoteDoes DEF Entry, TypeOK, Seen
  <2>2. CASE News(d, q, copy[d])
    <3>1. s.price = q
      BY <1>1, <1>4, <2>2, NewsRows
    <3>2. w.rowPrice = q /\ w.price = q
      BY <2>1, <2>2 DEF Note
    <3> QED
      BY <2>1, <3>1, <3>2, NoMove
  <2>3. CASE ~News(d, q, copy[d])
    <3>1. s \in LatestRows(d)
      BY <1>1, <1>4, <2>3, QuoteDoes DEF LatestRows, RowsOf
    <3>2. w.rowAt = copy[d].rowAt /\ w.rowPrice = copy[d].rowPrice /\ w.price = q
      BY <2>1, <2>3 DEF Note
    <3>3. /\ copy[d].rowAt # 0 /\ ~Moved(copy[d].rowPrice, q)
          /\ copy[d].price = None <=> q = None
      BY <2>3 DEF News
    <3>4. /\ s.price = copy[d].rowPrice
          /\ s.price = None <=> newest[d] = None
          /\ copy[d].price = None <=> newest[d] = None
      BY <1>2, <2>1, <3>1, <3>3 DEF SeriesHolds
    <3> QED
      BY <2>1, <3>2, <3>3, <3>4
  <2> QED
    BY <2>2, <2>3
<1>5. ASSUME NEW q \in Quotes, OpenShadow(d, q)
      PROVE  s.price = q /\ newest'[d] = q /\ w.rowAt = 0
  <2>1. s.price = q
    BY <1>1, <1>5, OpenRows
  <2>2. newest'[d] = q /\ w.rowAt = 0
    BY <1>1, <1>5, OpenDoes DEF Entry, Unwatched, Seen, TypeOK
  <2> QED
    BY <2>1, <2>2
<1>6. CASE /\ ~QuoteAgain(d) /\ ~\E q \in Quotes : Quote(d, q)
           /\ ~\E q \in Quotes : OpenShadow(d, q)
  <2>1. newest'[d] = newest[d] /\ w = Entry(d)
    BY <1>1, <1>2, <1>6, OthersStay
  <2>2. s \in LatestRows(d)
    BY <1>6, OtherRows
  <2> QED
    BY <1>2, <2>1, <2>2 DEF SeriesHolds
<1> QED
  BY <1>3, <1>4, <1>5, <1>6, NoMove

LEMMA NearKept ==
  ASSUME NEW p \in Positions, NEW q, Kept(p), NearARow(p, q)
  PROVE  NearARow(p, q)'
  BY DEF NearARow, Kept, Moved, Rise, Fall

LEMMA OnARow ==
  ASSUME NEW p \in Positions, NEW q \in Quotes, q # None, \E r \in RowsOf(p)' : r.price = q
  PROVE  NearARow(p, q)'
<1>1. PICK r \in RowsOf(p)' : r.price = q
  OBVIOUS
<1>2. ~Moved(r.price, q)
  BY <1>1, NoMove
<1> QED
  BY <1>1, <1>2 DEF NearARow, Moved, Rise, Fall

\* A quote that is no news is near the last row its entry counts, or blind to it.
LEMMA NoNewsIsNear ==
  ASSUME TypeOK, RowsInOrder, OpenedFirst, EntriesHold, SeriesHolds, at = "quoting",
         NEW p \in Positions, shadow[p] # "none",
         NEW q \in Quotes, q # None, ~News(p, q, copy[p])
  PROVE  NearARow(p, q) \/ (cuts > 0 /\ \E r \in RowsOf(p) : r.price = None)
<1>1. /\ copy[p].rowAt # 0 /\ ~Moved(copy[p].rowPrice, q)
      /\ copy[p].price # None
  BY DEF News
<1>2. \E r \in RowsOf(p) : r.price = copy[p].rowPrice
  BY <1>1 DEF EntriesHold, Entries, EntryHolds
<1>3. CASE copy[p].rowPrice # None
  BY <1>1, <1>2, <1>3 DEF NearARow
<1>4. CASE copy[p].rowPrice = None
  <2>1. PICK s \in LatestRows(p) : TRUE
    BY DEF OpenedFirst, RowsInOrder
  <2>2. Entry(p) = copy[p]
    BY DEF Entry
  <2>3. cuts # 0
    BY <1>1, <1>4, <2>1, <2>2 DEF SeriesHolds
  <2> QED
    BY <1>2, <1>4, <2>3 DEF TypeOK
<1> QED
  BY <1>3, <1>4

LEMMA NearStep ==
  ASSUME TypeOK, RowsInOrder, OpenedFirst, EntriesHold, SeriesHolds, EveryPriceNearARow, Next
  PROVE  EveryPriceNearARow'
<1>1. ASSUME NEW o \in observed
      PROVE  \/ NearARow(o.pos, o.price)'
             \/ cuts' > 0 /\ \E r \in RowsOf(o.pos)' : r.price = None
  <2>1. o.pos \in Positions
    BY DEF TypeOK
  <2>2. Kept(o.pos)
    BY <2>1, RowsStep
  <2>3. CASE NearARow(o.pos, o.price)
    BY <2>1, <2>2, <2>3, NearKept
  <2>4. CASE cuts > 0 /\ \E r \in RowsOf(o.pos) : r.price = None
    BY <2>2, <2>4, CutsCount DEF Kept
  <2> QED
    BY <2>3, <2>4 DEF EveryPriceNearARow
<1>2. ASSUME NEW p \in Positions, QuoteAgain(p)
      PROVE  EveryPriceNearARow'
  <2>1. PICK r \in RowsOf(p) : r.price \in Quotes /\ Seen(p, r.price)
    BY <1>2, QuoteAgainDoes
  <2>2. \E s \in RowsOf(p)' : s.price = r.price
    BY RowsStep DEF Kept
  <2>3. r.price # None => NearARow(p, r.price)'
    BY <2>1, <2>2, OnARow
  <2> QED
    BY <1>1, <2>1, <2>3 DEF EveryPriceNearARow, Seen
<1>3. ASSUME NEW p \in Positions, NEW q \in Quotes, Quote(p, q)
      PROVE  EveryPriceNearARow'
  <2>1. Seen(p, q)
    BY <1>3, QuoteDoes
  <2>2. ASSUME q # None
        PROVE  NearARow(p, q)' \/ (cuts' > 0 /\ \E r \in RowsOf(p)' : r.price = None)
    <3>1. CASE News(p, q, copy[p])
      <4>1. \E r \in RowsOf(p)' : r.price = q
        BY <1>3, <3>1, NewsRows
      <4> QED
        BY <2>2, <4>1, OnARow
    <3>2. CASE ~News(p, q, copy[p])
      <4>1. at = "quoting" /\ shadow[p] # "none" /\ UNCHANGED cuts
        BY <1>3, QuoteDoes DEF OpenedFirst
      <4>2. NearARow(p, q) \/ (cuts > 0 /\ \E r \in RowsOf(p) : r.price = None)
        BY <2>2, <3>2, <4>1, NoNewsIsNear
      <4>3. Kept(p)
        BY RowsStep
      <4> QED
        BY <4>1, <4>2, <4>3, NearKept DEF Kept
    <3> QED
      BY <3>1, <3>2
  <2> QED
    BY <1>1, <2>1, <2>2 DEF EveryPriceNearARow, Seen
<1>4. ASSUME NEW p \in Positions, NEW q \in Quotes, OpenShadow(p, q)
      PROVE  EveryPriceNearARow'
  <2>1. Seen(p, q)
    BY <1>4, OpenDoes
  <2>2. \E r \in RowsOf(p)' : r.price = q
    BY <1>4, OpenRows
  <2>3. q # None => NearARow(p, q)'
    BY <2>2, OnARow
  <2> QED
    BY <1>1, <2>1, <2>3 DEF EveryPriceNearARow, Seen
<1>5. CASE Quiet \/ Compact
  <2>1. observed' = observed
    BY <1>5, QuietRows DEF Compact
  <2> QED
    BY <1>1, <2>1 DEF EveryPriceNearARow
<1> QED
  BY <1>2, <1>3, <1>4, <1>5, Steps

-----------------------------------------------------------------------------
(* The extremes and the milestones                                         *)

LEMMA NoteBetween ==
  ASSUME NEW p \in Positions, NEW q \in Quotes, NEW v \in Watch, NEW w,
         w.max = IF Higher(v, q) THEN q ELSE v.max, w.min = IF Lower(v, q) THEN q ELSE v.min
  PROVE  /\ q # None => BetweenExtremes(w, q)
         /\ \A x \in Prices : BetweenExtremes(v, x) => BetweenExtremes(w, x)
<1>1. Quotes \subseteq Nat /\ \A x \in Prices : x \in Nat /\ x # None
  BY TrackingAssumption DEF Quotes, None
<1>2. v.max \in Quotes /\ v.min \in Quotes
  BY DEF Watch
<1>3. q \in Nat /\ v.max \in Nat /\ v.min \in Nat
  BY <1>1, <1>2
<1>4. q # None => BetweenExtremes(w, q)
  BY <1>3 DEF BetweenExtremes, Higher, Lower
<1>5. ASSUME NEW x \in Prices, BetweenExtremes(v, x)
      PROVE  BetweenExtremes(w, x)
  BY <1>1, <1>3, <1>5 DEF BetweenExtremes, Higher, Lower
<1> QED
  BY <1>4, <1>5

LEMMA ExtremesStep ==
  ASSUME TypeOK, RowsInOrder, OpenedFirst, ExtremesHold, Next
  PROVE  ExtremesHold'
<1>1. SUFFICES ASSUME cuts' = 0, NEW o \in observed', NEW w, w = Entry(o.pos)'
               PROVE  (\E r \in RowsOf(o.pos)' : r.price = o.price) \/ BetweenExtremes(w, o.price)
  BY DEF ExtremesHold, BetweenExtremes
<1>2. cuts = 0 /\ ~Cut
  BY <1>1, CutsCount
<1>3. CASE o \in observed
  <2>1. o.pos \in Positions /\ o.price \in Prices
    BY <1>3 DEF TypeOK
  <2>2. CASE \E r \in RowsOf(o.pos) : r.price = o.price
    BY <2>1, <2>2, RowsStep DEF Kept
  <2>3. CASE BetweenExtremes(Entry(o.pos), o.price)
    <3>1. CASE QuoteAgain(o.pos)
      <4>1. PICK r \in RowsOf(o.pos) :
              r.price \in Quotes /\ copy' = [copy EXCEPT ![o.pos] = Note(o.pos, r.price, copy[o.pos], FALSE)]
        BY <2>1, <3>1, QuoteAgainDoes
      <4>2. /\ w = Note(o.pos, r.price, copy[o.pos], FALSE) /\ Entry(o.pos) = copy[o.pos]
            /\ copy[o.pos] \in Watch
        BY <1>1, <2>1, <3>1, <4>1, QuoteAgainDoes DEF Entry, TypeOK
      <4> QED
        BY <2>1, <2>3, <4>1, <4>2, NoteBetween DEF Note
    <3>2. ASSUME NEW q \in Quotes, Quote(o.pos, q)
          PROVE  BetweenExtremes(w, o.price)
      <4>1. /\ w = Note(o.pos, q, copy[o.pos], News(o.pos, q, copy[o.pos]))
            /\ Entry(o.pos) = copy[o.pos] /\ copy[o.pos] \in Watch
        BY <1>1, <2>1, <3>2, QuoteDoes DEF Entry, TypeOK
      <4> QED
        BY <2>1, <2>3, <3>2, <4>1, NoteBetween DEF Note
    <3>3. CASE ~QuoteAgain(o.pos) /\ ~\E q \in Quotes : Quote(o.pos, q)
      <4>1. w = Entry(o.pos)
        BY <1>1, <1>2, <2>1, <3>3, OthersStay
      <4> QED
        BY <2>3, <4>1
    <3> QED
      BY <3>1, <3>2, <3>3
  <2> QED
    BY <1>2, <1>3, <2>2, <2>3 DEF ExtremesHold
<1>4. CASE o \notin observed
  <2>1. ASSUME NEW p \in Positions, QuoteAgain(p)
        PROVE  BetweenExtremes(w, o.price)
    <3>1. PICK r \in RowsOf(p) :
            /\ r.price \in Quotes /\ Seen(p, r.price)
            /\ copy' = [copy EXCEPT ![p] = Note(p, r.price, copy[p], FALSE)]
      BY <2>1, QuoteAgainDoes
    <3>2. r.price # None /\ o.pos = p /\ o.price = r.price
      BY <1>4, <3>1 DEF Seen
    <3>3. w = Note(p, r.price, copy[p], FALSE) /\ copy[p] \in Watch
      BY <1>1, <2>1, <3>1, <3>2, QuoteAgainDoes DEF Entry, TypeOK
    <3> QED
      BY <2>1, <3>1, <3>2, <3>3, NoteBetween DEF Note
  <2>2. ASSUME NEW p \in Positions, NEW q \in Quotes, Quote(p, q)
        PROVE  BetweenExtremes(w, o.price)
    <3>1. q # None /\ o.pos = p /\ o.price = q
      BY <1>4, <2>2, QuoteDoes DEF Seen
    <3>2. w = Note(p, q, copy[p], News(p, q, copy[p])) /\ copy[p] \in Watch
      BY <1>1, <2>2, <3>1, QuoteDoes DEF Entry, TypeOK
    <3> QED
      BY <2>2, <3>1, <3>2, NoteBetween DEF Note
  <2>3. ASSUME NEW p \in Positions, NEW q \in Quotes, OpenShadow(p, q)
        PROVE  \E r \in RowsOf(o.pos)' : r.price = o.price
    <3>1. o.pos = p /\ o.price = q
      BY <1>4, <2>3, OpenDoes DEF Seen
    <3> QED
      BY <2>3, <3>1, OpenRows
  <2>4. CASE Quiet \/ Compact
    BY <1>4, <2>4, QuietRows DEF Compact
  <2> QED
    BY <2>1, <2>2, <2>3, <2>4, Steps
<1> QED
  BY <1>3, <1>4

LEMMA MarksFinite ==
  ASSUME RowsInOrder, NEW p, NEW m
  PROVE  IsFiniteSet(Marks(p, m)) /\ Cardinality(Marks(p, m)) \in Nat
<1>1. Marks(p, m) \subseteq rows
  BY DEF Marks, RowsOf
<1>2. IsFiniteSet(Marks(p, m))
  BY <1>1, FS_Subset DEF RowsInOrder
<1> QED
  BY <1>2, FS_CardinalityType

LEMMA OneMore ==
  ASSUME NEW S, IsFiniteSet(S), NEW x
  PROVE  Cardinality(S \cup {x}) \in Nat /\ Cardinality(S \cup {x}) <= Cardinality(S) + 1
<1>1. IsFiniteSet(S \cup {x}) /\ (Cardinality(S \cup {x}) = IF x \in S THEN Cardinality(S) ELSE Cardinality(S) + 1)
  BY FS_AddElement
<1> QED
  BY <1>1, FS_CardinalityType

LEMMA MarksStep ==
  ASSUME TypeOK, RowsInOrder, OpenedFirst, MarksCounted, Next
  PROVE  MarksCounted'
<1>1. SUFFICES ASSUME NEW d \in Positions, NEW m \in Milestones, NEW w, w = Entry(d)'
               PROVE  /\ Cardinality(Marks(d, m)') <= 1 + cuts'
                      /\ m \notin w.hits => Cardinality(Marks(d, m)') <= cuts'
  BY DEF MarksCounted
<1>2. /\ IsFiniteSet(Marks(d, m)) /\ Cardinality(Marks(d, m)) \in Nat
      /\ cuts \in Nat /\ cuts' >= cuts
      /\ Cardinality(Marks(d, m)) <= 1 + cuts
      /\ m \notin Entry(d).hits => Cardinality(Marks(d, m)) <= cuts
  BY MarksFinite, CutsCount DEF MarksCounted
<1>3. ASSUME RowsOf(d)' \subseteq RowsOf(d)
      PROVE  Cardinality(Marks(d, m)') \in Nat /\ Cardinality(Marks(d, m)') <= Cardinality(Marks(d, m))
  <2>1. Marks(d, m)' \subseteq Marks(d, m)
    BY <1>3 DEF Marks
  <2> QED
    BY <1>2, <2>1, FS_Subset, FS_CardinalityType
<1>4. CASE QuoteAgain(d)
  <2>1. PICK r \in RowsOf(d) : copy' = [copy EXCEPT ![d] = Note(d, r.price, copy[d], FALSE)]
    BY <1>4, QuoteAgainDoes
  <2>2. /\ w = Note(d, r.price, copy[d], FALSE) /\ Entry(d) = copy[d]
        /\ UNCHANGED <<rows, cuts>>
    BY <1>1, <1>4, <2>1, QuoteAgainDoes DEF Entry, TypeOK
  <2>3. Entry(d).hits \subseteq w.hits
    BY <2>2 DEF Note
  <2>4. RowsOf(d)' \subseteq RowsOf(d)
    BY <2>2 DEF RowsOf
  <2>5. Cardinality(Marks(d, m)') \in Nat /\ Cardinality(Marks(d, m)') <= Cardinality(Marks(d, m))
    BY <1>3, <2>4
  <2>6. cuts' = cuts /\ (m \notin w.hits => m \notin Entry(d).hits)
    BY <2>2, <2>3
  <2> QED
    BY <1>2, <2>5, <2>6
<1>5. ASSUME NEW q \in Quotes, Quote(d, q)
      PROVE  /\ Cardinality(Marks(d, m)') <= 1 + cuts'
             /\ m \notin w.hits => Cardinality(Marks(d, m)') <= cuts'
  <2>1. /\ w = Note(d, q, copy[d], News(d, q, copy[d])) /\ Entry(d) = copy[d]
        /\ UNCHANGED cuts
    BY <1>1, <1>5, QuoteDoes DEF Entry, TypeOK
  <2>2. w.hits = Entry(d).hits \cup Crossed(d, q)
    BY <2>1 DEF Note
  <2>3. CASE News(d, q, copy[d])
    <3>1. PICK row \in Row : /\ row.marks = Crossed(d, q) \ copy[d].hits
                             /\ RowsOf(d)' = RowsOf(d) \cup {row}
      BY <1>5, <2>3, NewsRows
    <3>2. CASE m \in row.marks
      <4>1. Marks(d, m)' = Marks(d, m) \cup {row}
        BY <3>1, <3>2 DEF Marks
      <4>2. /\ Cardinality(Marks(d, m)') \in Nat
            /\ Cardinality(Marks(d, m)') <= Cardinality(Marks(d, m)) + 1
        BY <1>2, <4>1, OneMore
      <4>3. m \notin Entry(d).hits /\ m \in w.hits
        BY <2>1, <2>2, <3>1, <3>2
      <4> QED
        BY <1>2, <2>1, <4>2, <4>3
    <3>3. CASE m \notin row.marks
      <4>1. Marks(d, m)' = Marks(d, m)
        BY <3>1, <3>3 DEF Marks
      <4> QED
        BY <1>2, <2>1, <2>2, <4>1
    <3> QED
      BY <3>2, <3>3
  <2>4. CASE ~News(d, q, copy[d])
    <3>1. RowsOf(d)' \subseteq RowsOf(d)
      BY <1>5, <2>4, QuoteDoes DEF RowsOf
    <3> QED
      BY <1>2, <1>3, <2>1, <2>2, <3>1
  <2> QED
    BY <2>3, <2>4
<1>6. ASSUME NEW q \in Quotes, OpenShadow(d, q)
      PROVE  /\ Cardinality(Marks(d, m)') <= 1 + cuts'
             /\ m \notin w.hits => Cardinality(Marks(d, m)') <= cuts'
  <2>1. Marks(d, m)' = {}
    BY <1>6, OpenRows DEF Marks
  <2>2. Cardinality(Marks(d, m)') = 0
    BY <2>1, FS_EmptySet
  <2>3. 0 <= cuts' /\ 0 <= 1 + cuts'
    BY CutsCount
  <2> QED
    BY <2>2, <2>3
<1>7. CASE /\ ~QuoteAgain(d) /\ ~\E q \in Quotes : Quote(d, q)
           /\ ~\E q \in Quotes : OpenShadow(d, q)
  <2>1. RowsOf(d)' \subseteq RowsOf(d)
    BY <1>7, OtherRows
  <2>2. CASE Cut
    BY <1>2, <1>3, <2>1, <2>2, CutsCount
  <2>3. CASE ~Cut
    <3>1. w = Entry(d) /\ cuts' = cuts
      BY <1>1, <1>7, <2>3, OthersStay, CutsCount
    <3> QED
      BY <1>2, <1>3, <2>1, <3>1
  <2> QED
    BY <2>2, <2>3
<1> QED
  BY <1>4, <1>5, <1>6, <1>7

-----------------------------------------------------------------------------

Inv ==
  /\ TypeOK /\ RowsInOrder /\ OpenedFirst /\ EntriesHold /\ CopiesAreFresh
  /\ NewestKept /\ SalesOnRecord /\ ExitIsOnRecord
  /\ SeriesHolds /\ EveryPriceNearARow /\ ExtremesHold /\ MarksCounted

LEMMA InitInv == Init => Inv
<1> SUFFICES ASSUME Init PROVE Inv
  OBVIOUS
<1>1. TypeOK
  BY InitTypes
<1>2. \A p \in Positions : RowsOf(p) = {} /\ LatestRows(p) = {} /\ Entries(p) = {Unwatched}
                           /\ Entry(p) = Unwatched
  BY DEF Init, RowsOf, LatestRows, Entries, Entry
<1>3. RowsInOrder
  BY <1>2, FS_EmptySet DEF Init, RowsInOrder
<1>4. OpenedFirst /\ CopiesAreFresh /\ NewestKept /\ SalesOnRecord
  BY <1>2 DEF Init, OpenedFirst, CopiesAreFresh, NewestKept, SalesOnRecord
<1>5. EntriesHold
  BY <1>2 DEF Init, EntriesHold, EntryHolds, Unwatched, None
<1>6. ExitIsOnRecord /\ SeriesHolds /\ EveryPriceNearARow /\ ExtremesHold
  BY <1>2 DEF Init, ExitIsOnRecord, SeriesHolds, EveryPriceNearARow, ExtremesHold
<1>7. MarksCounted
  <2>1. \A p \in Positions, m \in Milestones : Marks(p, m) = {}
    BY <1>2 DEF Marks
  <2> QED
    BY <2>1, FS_EmptySet DEF Init, MarksCounted
<1> QED
  BY <1>1, <1>3, <1>4, <1>5, <1>6, <1>7 DEF Inv

LEMMA NextInv == Inv /\ [Next]_vars => Inv'
<1>1. ASSUME Inv, Next PROVE Inv'
  <2>1. TypeOK'
    BY <1>1, NextTypes DEF Inv
  <2>2. RowsInOrder' /\ OpenedFirst' /\ CopiesAreFresh'
    BY <1>1, RowsStep, OpenedStep, CopiesStep DEF Inv
  <2>3. EntriesHold'
    BY <1>1, <2>1, <2>2, EntriesStep DEF Inv
  <2>4. NewestKept' /\ SalesOnRecord' /\ ExitIsOnRecord'
    BY <1>1, <2>1, NewestStep, SalesStep, ExitsStep DEF Inv
  <2>5. SeriesHolds' /\ EveryPriceNearARow' /\ ExtremesHold' /\ MarksCounted'
    BY <1>1, SeriesStep, NearStep, ExtremesStep, MarksStep DEF Inv
  <2> QED
    BY <2>1, <2>2, <2>3, <2>4, <2>5 DEF Inv
<1>2. ASSUME Inv, UNCHANGED vars PROVE Inv'
  <2>1. TypeOK' /\ RowsInOrder' /\ OpenedFirst' /\ CopiesAreFresh'
    BY <1>2 DEF vars, Inv, TypeOK, RowsInOrder, OpenedFirst, CopiesAreFresh, RowsOf, LatestRows
  <2>2. EntriesHold' /\ NewestKept' /\ SalesOnRecord' /\ ExitIsOnRecord'
    BY <1>2 DEF vars, Inv, EntriesHold, NewestKept, SalesOnRecord, ExitIsOnRecord, RowsOf,
                LatestRows, Entries, Entry, EntryHolds, Fresh, SellsByRow, Crossed
  <2>3. SeriesHolds' /\ EveryPriceNearARow' /\ ExtremesHold'
    BY <1>2 DEF vars, Inv, SeriesHolds, EveryPriceNearARow, ExtremesHold, BetweenExtremes,
                RowsOf, LatestRows, Entry, NearARow, Moved, Rise, Fall
  <2>4. MarksCounted'
    BY <1>2 DEF vars, Inv, MarksCounted, Marks, RowsOf, Entry
  <2> QED
    BY <2>1, <2>2, <2>3, <2>4 DEF Inv
<1> QED
  BY <1>1, <1>2

\* Thin storage loses no move: every price ever taken is nearer than a move to a row, but
\* for a position once quoted without a price, after a cut; and without a cut the last row
\* never leaves the newest quote by a move.
THEOREM RowsKeepThePrice == Spec => []RowsFollowThePrice
<1>1. Inv => RowsFollowThePrice
  BY DEF Inv, RowsFollowThePrice, LastRowIsNear, SeriesHolds
<1> QED
  BY <1>1, InitInv, NextInv, PTL DEF Spec

\* A milestone counted as hit has its row and at most one more for each cut; and without
\* a cut the extremes reported span all prices that were taken.
THEOREM StateKeepsThePrice == Spec => []StateFollowsThePrice
<1>1. ASSUME Inv PROVE MilestonesOnRecord
  <2>1. \A p \in Positions, m \in Milestones :
          m \in state[p].hits => \E r \in RowsOf(p) : m \in Crossed(p, r.price)
    BY <1>1 DEF Inv, EntriesHold, Entries, EntryHolds
  <2> QED
    BY <1>1, <2>1 DEF Inv, MarksCounted, Marks, MilestonesOnRecord
<1>2. ASSUME Inv PROVE ExtremesAreReported
  <2>1. SUFFICES ASSUME cuts = 0, at # "quoting", NEW o \in observed
                 PROVE  \E lo \in Reported(o.pos), hi \in Reported(o.pos) :
                          lo # None /\ lo <= o.price /\ o.price <= hi
    BY DEF ExtremesAreReported
  <2>2. o.pos \in Positions /\ o.price \in Nat /\ o.price # None
    BY <1>2, TrackingAssumption DEF Inv, TypeOK, None
  <2>3. CASE \E r \in RowsOf(o.pos) : r.price = o.price
    <3>1. o.price \in Reported(o.pos)
      BY <2>3 DEF Reported
    <3> QED
      BY <2>2, <3>1
  <2>4. CASE BetweenExtremes(state[o.pos], o.price)
    <3>1. state[o.pos].maxAt > 0 /\ state[o.pos].minAt > 0
      BY <1>2, <2>2, <2>4 DEF Inv, EntriesHold, Entries, EntryHolds, BetweenExtremes
    <3>2. /\ [price |-> state[o.pos].max, at |-> state[o.pos].maxAt] \in StateRows(o.pos)
          /\ [price |-> state[o.pos].min, at |-> state[o.pos].minAt] \in StateRows(o.pos)
      BY <3>1 DEF StateRows
    <3>3. state[o.pos].max \in Reported(o.pos) /\ state[o.pos].min \in Reported(o.pos)
      BY <3>2 DEF Reported
    <3> QED
      BY <2>4, <3>3 DEF BetweenExtremes
  <2> QED
    BY <1>2, <2>1, <2>3, <2>4 DEF Inv, ExtremesHold, Entry
<1>3. Inv => StateFollowsThePrice
  BY <1>1, <1>2 DEF StateFollowsThePrice
<1> QED
  BY <1>3, InitInv, NextInv, PTL DEF Spec

\* Between two rounds of quotes the rules and the daily P/L judge a position by the last
\* quote that was taken, unless a cut-off cycle took it: in any order of quotes, cuts,
\* compactions and purchases.
THEOREM JudgedByNewest == Spec => []JudgedIsNewest
<1>1. Inv => JudgedIsNewest
  BY JudgedFollows DEF Inv
<1> QED
  BY <1>1, InitInv, NextInv, PTL DEF Spec

\* A price that made the rules sell is in the ledger, unless the quote is older than the
\* local position.
THEOREM ExitsOnRecord == Spec => []ExitIsOnRecord
<1>1. Inv => ExitIsOnRecord
  BY DEF Inv
<1> QED
  BY <1>1, InitInv, NextInv, PTL DEF Spec

=============================================================================
