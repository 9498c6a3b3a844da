-------------------------- MODULE RiskGuard_proofs --------------------------
(* Proofs about RiskGuard and LedgerFile, for any processes, alerts and limit. *)
EXTENDS RiskGuard, FiniteSetTheorems, TLAPS

\* What a compaction will write is in the file; what it will not is of a test or was
\* appended since it read, and once the original is archived, is archived or late.
SweepInHand ==
  /\ step # "idle" => kept \subseteq ledger /\ ledger \ kept \subseteq Synthetic \cup racing
  /\ step = "archived" => ledger \subseteq archive \cup late

FileInv == FileTypeOK /\ SweepInHand /\ OnlyRacesLoseRows /\ SweptIsArchived

\* The allowed decisions of one process that the ledger still has, and those of them whose
\* raw did not end in an exception.
Own(p) == {r \in AllowedIn(ledger) : r.by = p}
Counted(p) == Own(p) \ forgotten

Active(p) == batch[p] # {} \/ decided[p] # {}
Known(p) == prior[p] \cup AllowedIn(decided[p]) \cup forgotten

\* A process at work knows all of its own that count; their number is within the limit,
\* one on a ticker.
OwnKnown == \A p \in Deciders : Active(p) => Own(p) \subseteq Known(p)
OwnWithinLimit ==
  \A p \in Deciders : IsFiniteSet(Counted(p)) /\ Cardinality(Counted(p)) <= MaxTradesPerDay
OwnTickersDiffer ==
  \A p \in Deciders : \A r, s \in Counted(p) : TickerOf[r.alert] = TickerOf[s.alert] => r = s

\* What is pending is of the raw at hand, and that is its own.
PendingIsOwn ==
  \A p \in Deciders : pending[p] \subseteq decided[p] /\ \A r \in decided[p] : r.by = p

IInv ==
  /\ FileInv /\ TypeOK
  /\ OwnKnown /\ OwnWithinLimit /\ OwnTickersDiffer /\ PendingIsOwn
  /\ AllowedIsOrdered

-----------------------------------------------------------------------------
(* The ledger file                                                         *)

LEMMA AppendStep ==
  ASSUME FileInv, NEW r \in Rows, AppendRow(r)
  PROVE  FileInv'
<1> USE DEF AppendRow, sweepVars, FileInv
<1>1. FileTypeOK'
  BY DEF FileTypeOK
<1>2. SweepInHand'
  BY DEF SweepInHand, FileTypeOK
<1>3. OnlyRacesLoseRows'
  BY DEF OnlyRacesLoseRows
<1>4. SweptIsArchived'
  BY DEF SweptIsArchived
<1> QED
  BY <1>1, <1>2, <1>3, <1>4

LEMMA TearStep == FileInv /\ TearRow => FileInv'
BY DEF FileInv, TearRow, sweepVars, FileTypeOK, SweepInHand, OnlyRacesLoseRows, SweptIsArchived

LEMMA FileStays == FileInv /\ UNCHANGED fileVars => FileInv'
BY DEF FileInv, fileVars, FileTypeOK, SweepInHand, OnlyRacesLoseRows, SweptIsArchived

\* A compaction only takes rows away.
LEMMA SweepStep == FileInv /\ Sweep => FileInv' /\ ledger' \subseteq ledger /\ written' = written
<1> SUFFICES ASSUME FileInv, Sweep PROVE FileInv' /\ ledger' \subseteq ledger /\ written' = written
  OBVIOUS
<1> USE DEF FileInv
<1>1. CASE SweepRead
  <2> USE <1>1 DEF SweepRead
  <2>1. kept' \subseteq ledger /\ ledger \ kept' \subseteq Synthetic
    BY DEF Compacted
  <2>2. FileTypeOK'
    BY <2>1, LedgerAssumption DEF FileTypeOK
  <2> QED
    BY <2>1, <2>2 DEF SweepInHand, OnlyRacesLoseRows, SweptIsArchived
<1>2. CASE SweepArchive
  <2> USE <1>2 DEF SweepArchive
  <2>1. FileTypeOK'
    BY DEF FileTypeOK
  <2> QED
    BY <2>1 DEF SweepInHand, OnlyRacesLoseRows, SweptIsArchived
<1>3. CASE SweepReplace
  <2> USE <1>3 DEF SweepReplace
  <2>1. FileTypeOK'
    BY DEF FileTypeOK
  <2>2. kept \subseteq ledger /\ ledger \ kept \subseteq Synthetic \cup racing /\ ledger \subseteq archive \cup late
    BY DEF SweepInHand
  <2>3. OnlyRacesLoseRows' /\ SweptIsArchived'
    BY <2>2 DEF OnlyRacesLoseRows, SweptIsArchived
  <2> QED
    BY <2>1, <2>2, <2>3 DEF SweepInHand
<1>4. CASE SweepCrash
  <2> USE <1>4 DEF SweepCrash
  <2>1. FileTypeOK'
    BY DEF FileTypeOK
  <2> QED
    BY <2>1 DEF SweepInHand, OnlyRacesLoseRows, SweptIsArchived
<1> QED
  BY <1>1, <1>2, <1>3, <1>4 DEF Sweep

-----------------------------------------------------------------------------
(* The gate                                                                *)

LEMMA ReasonIsReason ==
  ASSUME NEW a \in Alerts, NEW today
  PROVE  /\ Reason(a, today) \in Reasons
         /\ Reason(a, today) = Passed =>
              ~(Cardinality(today) >= MaxTradesPerDay) /\ OfTicker(today, a) = {}
<1>1. ScreenOf[a] \in Reasons /\ ScreenOf[a] # Passed
  BY GuardAssumption DEF Reasons
<1> QED
  BY <1>1 DEF Reason, Reasons, Passed

LEMMA AtMostOneMore ==
  ASSUME NEW S, IsFiniteSet(S), NEW x
  PROVE  /\ IsFiniteSet(S \cup {x})
         /\ Cardinality(S \cup {x}) \in Nat
         /\ Cardinality(S \cup {x}) <= Cardinality(S) + 1
<1>1. Cardinality(S) \in Nat /\ IsFiniteSet(S \cup {x})
  BY FS_CardinalityType, FS_AddElement
<1>2. Cardinality(S \cup {x}) = IF x \in S THEN Cardinality(S) ELSE Cardinality(S) + 1
  BY FS_AddElement
<1> QED
  BY <1>1, <1>2

LEMMA DecisionRowsFinite == IsFiniteSet(DecisionRows)
<1>1. IsFiniteSet(Reasons)
  <2> DEFINE S == {ScreenOf[a] : a \in Alerts}
             g == [a \in Alerts |-> ScreenOf[a]]
  <2>1. g \in Surjection(Alerts, S)
    BY DEF Surjection
  <2>2. IsFiniteSet(S)
    BY <2>1, GuardAssumption, FS_Surjection
  <2>3. IsFiniteSet({Passed, "max_trades_per_day", "duplicate_trade_window", "max_same_ticker_open_trades"})
    <3> DEFINE T == {Passed} \cup {"max_trades_per_day"}
    <3>1. IsFiniteSet(T)
      BY FS_Singleton, FS_Union
    <3>2. IsFiniteSet(T \cup {"duplicate_trade_window"})
      BY <3>1, FS_AddElement
    <3>3. IsFiniteSet((T \cup {"duplicate_trade_window"}) \cup {"max_same_ticker_open_trades"})
      BY <3>2, FS_AddElement
    <3>4. (T \cup {"duplicate_trade_window"}) \cup {"max_same_ticker_open_trades"}
            = {Passed, "max_trades_per_day", "duplicate_trade_window", "max_same_ticker_open_trades"}
      OBVIOUS
    <3> QED
      BY <3>3, <3>4
  <2> QED
    BY <2>2, <2>3, FS_Union DEF Reasons
<1>2. IsFiniteSet((Alerts \X Deciders) \X Reasons)
  BY <1>1, GuardAssumption, FS_Product
<1> DEFINE f == [r \in DecisionRows |-> <<<<r.alert, r.by>>, r.reason>>]
<1>3. f \in Injection(DecisionRows, (Alerts \X Deciders) \X Reasons)
  BY DEF Injection, IsInjective, DecisionRows
<1> QED
  BY <1>2, <1>3, FS_Injection

LEMMA InitIInv == Init => IInv
<1> SUFFICES ASSUME Init PROVE IInv
  OBVIOUS
<1> USE DEF Init, FileInit
<1>1. FileInv
  BY LedgerAssumption DEF FileInv, FileTypeOK, SweepInHand, OnlyRacesLoseRows, SweptIsArchived
<1>2. TypeOK
  BY <1>1, GuardAssumption DEF FileInv, TypeOK
<1>3. \A p \in Deciders : Own(p) = {} /\ Counted(p) = {}
  BY DEF Own, Counted, AllowedIn
<1>4. OwnKnown /\ OwnWithinLimit /\ OwnTickersDiffer
  <2>1. OwnKnown
    BY <1>3 DEF OwnKnown
  <2>2. \A p \in Deciders : IsFiniteSet(Counted(p)) /\ Cardinality(Counted(p)) = 0
    BY <1>3, FS_EmptySet
  <2>3. OwnWithinLimit
    BY <2>2, GuardAssumption DEF OwnWithinLimit
  <2>4. OwnTickersDiffer
    BY <1>3 DEF OwnTickersDiffer
  <2> QED
    BY <2>1, <2>3, <2>4
<1>6. PendingIsOwn
  BY DEF PendingIsOwn
<1>5. AllowedIsOrdered
  BY DEF AllowedIsOrdered, Granted, AllowedIn
<1> QED
  BY <1>1, <1>2, <1>4, <1>5, <1>6 DEF IInv

\* What is at hand are raws.
LEMMA AtHandIsRaw == ASSUME TypeOK, NEW p \in Deciders PROVE AtHand(p) \subseteq Raws
<1>1. decided[p] \subseteq DecisionRows /\ batch[p] \subseteq Alerts
  BY DEF TypeOK
<1>2. AlertsOf(decided[p]) \subseteq Alerts /\ First(p) \subseteq Alerts
  BY <1>1 DEF AlertsOf, First, DecisionRows
<1> QED
  BY <1>2 DEF AtHand, Raws

\* Where nothing is decided, and rows at most leave the ledger, the processes' limits
\* stand, and their knowledge of their own decisions if none takes up work or forgets.
LEMMA LimitsStay ==
  ASSUME IInv, ledger' \subseteq ledger, forgotten \subseteq forgotten'
  PROVE  (OwnWithinLimit /\ OwnTickersDiffer)'
<1>1. \A p \in Deciders : Own(p)' \subseteq Own(p) /\ Counted(p)' \subseteq Counted(p)
  BY DEF Own, Counted, AllowedIn
<1>2. OwnWithinLimit'
  <2> SUFFICES ASSUME NEW p \in Deciders
               PROVE  IsFiniteSet(Counted(p)') /\ Cardinality(Counted(p)') <= MaxTradesPerDay
    BY DEF OwnWithinLimit
  <2>1. IsFiniteSet(Counted(p)) /\ Cardinality(Counted(p)) <= MaxTradesPerDay /\ Counted(p)' \subseteq Counted(p)
    BY <1>1 DEF IInv, OwnWithinLimit
  <2>2. /\ IsFiniteSet(Counted(p)') /\ Cardinality(Counted(p)') <= Cardinality(Counted(p))
        /\ Cardinality(Counted(p)) \in Nat /\ Cardinality(Counted(p)') \in Nat
    BY <2>1, FS_Subset, FS_CardinalityType
  <2> QED
    BY <2>1, <2>2, GuardAssumption
<1>3. OwnTickersDiffer'
  BY <1>1 DEF IInv, OwnTickersDiffer
<1> QED
  BY <1>2, <1>3

LEMMA KnowledgeStays ==
  ASSUME IInv, ledger' \subseteq ledger,
         \A p \in Deciders : Active(p)' => Active(p) /\ Known(p) \subseteq Known(p)'
  PROVE  OwnKnown'
<1>1. \A p \in Deciders : Own(p)' \subseteq Own(p)
  BY DEF Own, AllowedIn
<1> QED
  BY <1>1 DEF IInv, OwnKnown

\* What was allowed stays accounted for if the pending rows do.
LEMMA OrderedStep ==
  ASSUME IInv, written' = written,
         orders \subseteq orders', refused \subseteq refused', cut \subseteq cut', errors \subseteq errors',
         \A p \in Deciders : \A r \in pending[p] :
           \/ r \in orders' \cup refused' \cup cut' \cup pending'[p]
           \/ <<p, RawOf[r.alert]>> \in errors'
  PROVE  AllowedIsOrdered'
<1> SUFFICES ASSUME NEW r \in Granted, r.by \in DryRuns
             PROVE  \/ r \in orders' \cup refused' \cup cut' \cup pending'[r.by]
                    \/ <<r.by, RawOf[r.alert]>> \in errors'
  BY DEF AllowedIsOrdered, Granted
<1>1. r.by \in Deciders
  BY GuardAssumption DEF IInv, TypeOK, FileTypeOK, Granted, AllowedIn, DecisionRows
<1>2. \/ r \in orders \cup refused \cup cut \cup pending[r.by]
      \/ <<r.by, RawOf[r.alert]>> \in errors
  BY DEF IInv, AllowedIsOrdered
<1> QED
  BY <1>1, <1>2

LEMMA StartBatchStep == \A p \in Deciders : IInv /\ StartBatch(p) => IInv'
<1> SUFFICES ASSUME NEW p \in Deciders, IInv, StartBatch(p) PROVE IInv'
  OBVIOUS
<1>1. /\ batch' = [batch EXCEPT ![p] = {a \in Alerts : RawOf[a] \notin processed}]
      /\ prior' = [prior EXCEPT ![p] = AllowedIn(ledger)]
      /\ UNCHANGED <<fileVars, decided, pending, processed, errors, orders, refused>>
      /\ UNCHANGED <<faults, cut, forgotten>>
  BY DEF StartBatch
<1>2. FileInv' /\ ledger' = ledger /\ written' = written /\ AllowedIn(ledger) \subseteq DecisionRows
  BY <1>1, FileStays, GuardAssumption DEF IInv, TypeOK, FileTypeOK, fileVars, AllowedIn
<1>3. TypeOK'
  <2>1. batch' \in [Deciders -> SUBSET Alerts] /\ prior' \in [Deciders -> SUBSET DecisionRows]
    BY <1>1, <1>2 DEF IInv, TypeOK
  <2> QED
    BY <1>1, <1>2, <2>1 DEF IInv, TypeOK, FileInv
<1>4. OwnKnown'
  <2> SUFFICES ASSUME NEW q \in Deciders, Active(q)' PROVE Own(q)' \subseteq Known(q)'
    BY DEF OwnKnown
  <2>1. Own(q)' = Own(q)
    BY <1>2 DEF Own
  <2>2. CASE q = p
    <3>1. prior'[p] = AllowedIn(ledger)
      BY <1>1 DEF IInv, TypeOK
    <3> QED
      BY <2>1, <2>2, <3>1 DEF Own, Known
  <2>3. CASE q # p
    <3>1. prior'[q] = prior[q] /\ batch'[q] = batch[q] /\ decided' = decided /\ forgotten' = forgotten
      BY <1>1, <2>3 DEF IInv, TypeOK
    <3> QED
      BY <2>1, <3>1 DEF IInv, OwnKnown, Active, Known
  <2> QED
    BY <2>2, <2>3
<1>5. (OwnWithinLimit /\ OwnTickersDiffer)'
  BY <1>1, <1>2, LimitsStay
<1>6. PendingIsOwn'
  BY <1>1 DEF IInv, PendingIsOwn
<1>7. AllowedIsOrdered'
  BY <1>1, <1>2, OrderedStep
<1> QED
  BY <1>2, <1>3, <1>4, <1>5, <1>6, <1>7 DEF IInv

LEMMA DecideStep == \A p \in Deciders : IInv /\ Decide(p) => IInv'
<1> SUFFICES ASSUME NEW p \in Deciders, IInv, Decide(p) PROVE IInv'
  OBVIOUS
<1> DEFINE Today == prior[p] \cup AllowedIn(decided[p])
<1>1. PICK a \in First(p) :
        LET row == [alert |-> a, by |-> p, reason |-> Reason(a, Today)]
        IN  /\ AppendRow(row)
            /\ decided' = [decided EXCEPT ![p] = @ \cup {row}]
            /\ pending' = [pending EXCEPT ![p] = {r \in AllowedIn({row}) : p \in DryRuns}]
            /\ batch' = [batch EXCEPT ![p] = @ \ {a}]
  BY DEF Decide
<1> DEFINE row == [alert |-> a, by |-> p, reason |-> Reason(a, Today)]
           due == {r \in AllowedIn({row}) : p \in DryRuns}
<1>2. pending[p] = {} /\ UNCHANGED <<prior, processed, errors, orders, refused, faults, cut, forgotten>>
  BY DEF Decide
<1>3. /\ batch \in [Deciders -> SUBSET Alerts] /\ a \in Alerts /\ batch[p] # {}
      /\ prior \in [Deciders -> SUBSET DecisionRows] /\ decided \in [Deciders -> SUBSET DecisionRows]
      /\ pending \in [Deciders -> SUBSET DecisionRows]
  BY DEF IInv, TypeOK, First
<1>4. row \in DecisionRows /\ row \in Rows
  BY <1>3, ReasonIsReason, GuardAssumption DEF DecisionRows
<1>5. FileInv'
  BY <1>1, <1>4, AppendStep DEF IInv
<1>6. ledger' \in {ledger, ledger \cup {row}} /\ written' = written \cup {row}
  BY <1>1 DEF AppendRow
<1>7. /\ AllowedIn({row}) = IF row.reason = Passed THEN {row} ELSE {}
      /\ due \subseteq {row} /\ (row.reason = Passed /\ p \in DryRuns => row \in due)
  BY DEF AllowedIn
<1>8. /\ decided'[p] = decided[p] \cup {row} /\ pending'[p] = due
      /\ \A q \in Deciders : q # p => decided'[q] = decided[q] /\ pending'[q] = pending[q] /\ batch'[q] = batch[q]
  BY <1>1, <1>3
<1>9. TypeOK'
  <2>1. /\ batch' \in [Deciders -> SUBSET Alerts] /\ pending' \in [Deciders -> SUBSET DecisionRows]
    BY <1>1, <1>3, <1>4, <1>7
  <2>2. decided' \in [Deciders -> SUBSET DecisionRows]
    BY <1>1, <1>3, <1>4
  <2> QED
    BY <1>2, <1>5, <2>1, <2>2 DEF IInv, TypeOK, FileInv
<1> HIDE DEF row, due
<1>10. Own(p) \subseteq Today \cup forgotten
  BY <1>3 DEF IInv, OwnKnown, Active, Known
<1>11. \A q \in Deciders : q # p => Own(q)' = Own(q) /\ Counted(q)' = Counted(q)
  <2>1. row.by = p
    BY DEF row
  <2> QED
    BY <1>2, <1>6, <2>1 DEF Own, Counted, AllowedIn
<1>12. Own(p)' \subseteq Own(p) \cup {row} /\ (row \in Own(p)' \ Own(p) => row.reason = Passed)
  BY <1>6 DEF Own, AllowedIn
<1>13. Counted(p)' = Counted(p) \/ (row.reason = Passed /\ Counted(p)' = Counted(p) \cup {row})
  <2>1. Own(p) \subseteq Own(p)'
    BY <1>6 DEF Own, AllowedIn
  <2> QED
    BY <1>2, <1>12, <2>1 DEF Counted
<1>14. Counted(p) \subseteq Today
  BY <1>10 DEF Counted
<1>15. OwnKnown'
  <2> SUFFICES ASSUME NEW q \in Deciders, Active(q)' PROVE Own(q)' \subseteq Known(q)'
    BY DEF OwnKnown
  <2>1. CASE q = p
    <3>1. Known(p)' = Today \cup AllowedIn({row}) \cup forgotten
      BY <1>2, <1>8 DEF Known, AllowedIn
    <3>2. Own(p)' \subseteq Today \cup AllowedIn({row}) \cup forgotten
      BY <1>7, <1>10, <1>12
    <3> QED
      BY <2>1, <3>1, <3>2
  <2>2. CASE q # p
    <3>1. Active(q) /\ Known(q)' = Known(q)
      BY <1>2, <1>8, <2>2 DEF Active, Known
    <3> QED
      BY <1>11, <2>2, <3>1 DEF IInv, OwnKnown
  <2> QED
    BY <2>1, <2>2
<1>16. row.reason = Passed =>
         ~(Cardinality(Today) >= MaxTradesPerDay) /\ OfTicker(Today, a) = {} /\ row.alert = a
  BY <1>3, ReasonIsReason DEF row
<1>17. Today \in SUBSET DecisionRows /\ IsFiniteSet(Today)
  <2>1. Today \in SUBSET DecisionRows
    BY <1>3 DEF AllowedIn
  <2> QED
    BY <2>1, DecisionRowsFinite, FS_Subset
<1> HIDE DEF Today
<1>18. IsFiniteSet(Counted(p)') /\ Cardinality(Counted(p)') <= MaxTradesPerDay
  <2>1. IsFiniteSet(Counted(p)) /\ Cardinality(Counted(p)) \in Nat /\ Cardinality(Counted(p)) <= MaxTradesPerDay
    BY FS_CardinalityType DEF IInv, OwnWithinLimit
  <2>2. CASE row.reason = Passed /\ Counted(p)' = Counted(p) \cup {row}
    <3>1. Cardinality(Counted(p)) <= Cardinality(Today) /\ Cardinality(Today) \in Nat
      BY <1>14, <1>17, FS_Subset, FS_CardinalityType
    <3>2. /\ IsFiniteSet(Counted(p) \cup {row})
          /\ Cardinality(Counted(p) \cup {row}) \in Nat
          /\ Cardinality(Counted(p) \cup {row}) <= Cardinality(Counted(p)) + 1
      BY <2>1, AtMostOneMore
    <3>3. Cardinality(Counted(p) \cup {row}) <= MaxTradesPerDay
      BY <1>16, <2>1, <2>2, <3>1, <3>2, GuardAssumption
    <3> QED
      BY <2>2, <3>2, <3>3
  <2> QED
    BY <1>13, <2>1, <2>2
<1>19. OwnWithinLimit'
  BY <1>11, <1>18 DEF IInv, OwnWithinLimit
<1>20. OwnTickersDiffer'
  <2>1. \A q \in Deciders : q # p =>
          \A r, s \in Counted(q)' : TickerOf[r.alert] = TickerOf[s.alert] => r = s
    BY <1>11 DEF IInv, OwnTickersDiffer
  <2>2. row.reason = Passed => \A r \in Counted(p) : TickerOf[r.alert] # TickerOf[row.alert]
    BY <1>14, <1>16 DEF OfTicker
  <2>3. \A r, s \in Counted(p)' : TickerOf[r.alert] = TickerOf[s.alert] => r = s
    BY <1>13, <2>2 DEF IInv, OwnTickersDiffer
  <2> QED
    BY <2>1, <2>3 DEF OwnTickersDiffer
<1>21. PendingIsOwn'
  <2>1. row.by = p
    BY DEF row
  <2> QED
    BY <1>7, <1>8, <2>1 DEF IInv, PendingIsOwn
<1>22. AllowedIsOrdered'
  <2> SUFFICES ASSUME NEW r \in Granted', r.by \in DryRuns
               PROVE  \/ r \in orders' \cup refused' \cup cut' \cup pending'[r.by]
                      \/ <<r.by, RawOf[r.alert]>> \in errors'
    BY DEF AllowedIsOrdered
  <2>1. CASE r = row
    <3>1. row.by = p
      BY DEF row
    <3>2. row.reason = Passed
      BY <2>1 DEF Granted, AllowedIn
    <3> QED
      BY <1>7, <1>8, <2>1, <3>1, <3>2
  <2>2. CASE r # row
    <3>1. r \in Granted /\ r.by \in Deciders
      BY <1>6, <2>2, GuardAssumption DEF Granted, AllowedIn, IInv, TypeOK, FileTypeOK, DecisionRows
    <3>2. \/ r \in orders \cup refused \cup cut \cup pending[r.by]
          \/ <<r.by, RawOf[r.alert]>> \in errors
      BY <3>1 DEF IInv, AllowedIsOrdered
    <3>3. pending[r.by] \subseteq pending'[r.by]
      BY <1>2, <1>8, <3>1
    <3> QED
      BY <1>2, <3>2, <3>3
  <2> QED
    BY <2>1, <2>2
<1> QED
  BY <1>5, <1>9, <1>15, <1>19, <1>20, <1>21, <1>22 DEF IInv

LEMMA AuditStep == \A p \in Deciders : IInv /\ Audit(p) => IInv'
<1> SUFFICES ASSUME NEW p \in Deciders, IInv, Audit(p) PROVE IInv'
  OBVIOUS
<1>1. /\ orders' = orders \cup {r \in pending[p] : r.alert \notin Unorderable}
      /\ refused' = refused \cup {r \in pending[p] : r.alert \in Unorderable}
      /\ pending' = [pending EXCEPT ![p] = {}]
      /\ UNCHANGED <<fileVars, batch, prior, decided, processed, errors, faults, cut, forgotten>>
  BY DEF Audit
<1>2. FileInv' /\ ledger' = ledger /\ written' = written
  BY <1>1, FileStays DEF IInv, fileVars
<1>3. pending \in [Deciders -> SUBSET DecisionRows]
  BY DEF IInv, TypeOK
<1>4. TypeOK'
  <2>1. pending' \in [Deciders -> SUBSET DecisionRows]
    BY <1>1, <1>3
  <2>2. orders' \subseteq DecisionRows /\ refused' \subseteq DecisionRows
    BY <1>1, <1>3 DEF IInv, TypeOK
  <2> QED
    BY <1>1, <1>2, <2>1, <2>2 DEF IInv, TypeOK, FileInv
<1>5. (OwnWithinLimit /\ OwnTickersDiffer)'
  BY <1>1, <1>2, LimitsStay
<1>6. OwnKnown'
  <2>1. \A q \in Deciders : Active(q)' => Active(q) /\ Known(q) \subseteq Known(q)'
    BY <1>1 DEF Active, Known
  <2> QED
    BY <1>2, <2>1, KnowledgeStays
<1>7. PendingIsOwn'
  BY <1>1, <1>3 DEF IInv, PendingIsOwn
<1>8. AllowedIsOrdered'
  BY <1>1, <1>2, <1>3, OrderedStep
<1> QED
  BY <1>2, <1>4, <1>5, <1>6, <1>7, <1>8 DEF IInv

LEMMA EndRawStep == \A p \in Deciders : IInv /\ EndRaw(p) => IInv'
<1> SUFFICES ASSUME NEW p \in Deciders, IInv, EndRaw(p) PROVE IInv'
  OBVIOUS
<1>1. /\ decided[p] # {} /\ pending[p] = {}
      /\ prior' = [prior EXCEPT ![p] = @ \cup AllowedIn(decided[p])]
      /\ processed' = processed \cup AtHand(p)
      /\ decided' = [decided EXCEPT ![p] = {}]
      /\ UNCHANGED <<fileVars, batch, pending, errors, orders, refused, faults, cut, forgotten>>
  BY DEF EndRaw
<1>2. FileInv' /\ ledger' = ledger /\ written' = written
  BY <1>1, FileStays DEF IInv, fileVars
<1>3. decided \in [Deciders -> SUBSET DecisionRows] /\ prior \in [Deciders -> SUBSET DecisionRows]
  BY DEF IInv, TypeOK
<1>4. TypeOK'
  <2>1. decided' \in [Deciders -> SUBSET DecisionRows] /\ prior' \in [Deciders -> SUBSET DecisionRows]
    BY <1>1, <1>3 DEF AllowedIn
  <2>2. processed' \subseteq Raws
    BY <1>1, AtHandIsRaw DEF IInv, TypeOK
  <2> QED
    BY <1>1, <1>2, <2>1, <2>2 DEF IInv, TypeOK, FileInv
<1>5. (OwnWithinLimit /\ OwnTickersDiffer)'
  BY <1>1, <1>2, LimitsStay
<1>6. OwnKnown'
  <2> SUFFICES ASSUME NEW q \in Deciders, Active(q)' PROVE Active(q) /\ Known(q) \subseteq Known(q)'
    BY <1>2, KnowledgeStays
  <2>1. CASE q = p
    <3>1. prior'[p] = prior[p] \cup AllowedIn(decided[p]) /\ forgotten' = forgotten
      BY <1>1, <1>3
    <3> QED
      BY <1>1, <2>1, <3>1 DEF Active, Known
  <2>2. CASE q # p
    <3>1. prior'[q] = prior[q] /\ decided'[q] = decided[q] /\ batch' = batch /\ forgotten' = forgotten
      BY <1>1, <1>3, <2>2
    <3> QED
      BY <3>1 DEF Active, Known
  <2> QED
    BY <2>1, <2>2
<1>7. PendingIsOwn'
  BY <1>1, <1>3 DEF IInv, PendingIsOwn
<1>8. AllowedIsOrdered'
  BY <1>1, <1>2, OrderedStep
<1> QED
  BY <1>2, <1>4, <1>5, <1>6, <1>7, <1>8 DEF IInv

LEMMA FailStep == \A p \in Deciders : IInv /\ Fail(p) => IInv'
<1> SUFFICES ASSUME NEW p \in Deciders, IInv, Fail(p) PROVE IInv'
  OBVIOUS
<1>1. /\ batch[p] # {} \/ decided[p] # {}
      /\ faults < MaxFaults /\ faults' = faults + 1
      /\ processed' = processed \cup AtHand(p)
      /\ errors' = errors \cup {p} \X AtHand(p)
      /\ forgotten' = forgotten \cup AllowedIn(decided[p])
      /\ batch' = [batch EXCEPT ![p] = {a \in @ : RawOf[a] \notin AtHand(p)}]
      /\ decided' = [decided EXCEPT ![p] = {}]
      /\ pending' = [pending EXCEPT ![p] = {}]
      /\ UNCHANGED <<fileVars, prior, orders, refused, cut>>
  BY DEF Fail
<1>2. FileInv' /\ ledger' = ledger /\ written' = written
  BY <1>1, FileStays DEF IInv, fileVars
<1>3. /\ decided \in [Deciders -> SUBSET DecisionRows] /\ pending \in [Deciders -> SUBSET DecisionRows]
      /\ batch \in [Deciders -> SUBSET Alerts]
  BY DEF IInv, TypeOK
<1>4. TypeOK'
  <2>1. /\ decided' \in [Deciders -> SUBSET DecisionRows] /\ pending' \in [Deciders -> SUBSET DecisionRows]
        /\ batch' \in [Deciders -> SUBSET Alerts]
    BY <1>1, <1>3
  <2>2. processed' \subseteq Raws /\ errors' \subseteq Deciders \X Raws
    BY <1>1, AtHandIsRaw DEF IInv, TypeOK
  <2>3. forgotten' \subseteq DecisionRows
    BY <1>1, <1>3 DEF IInv, TypeOK, AllowedIn
  <2>4. faults' \in 0..MaxFaults
    BY <1>1, GuardAssumption DEF IInv, TypeOK
  <2> QED
    BY <1>1, <1>2, <2>1, <2>2, <2>3, <2>4 DEF IInv, TypeOK, FileInv
<1>5. (OwnWithinLimit /\ OwnTickersDiffer)'
  BY <1>1, <1>2, LimitsStay
<1>6. OwnKnown'
  <2> SUFFICES ASSUME NEW q \in Deciders, Active(q)' PROVE Active(q) /\ Known(q) \subseteq Known(q)'
    BY <1>2, KnowledgeStays
  <2>1. CASE q = p
    BY <1>1, <2>1 DEF Active, Known
  <2>2. CASE q # p
    <3>1. prior' = prior /\ decided'[q] = decided[q] /\ batch'[q] = batch[q] /\ forgotten \subseteq forgotten'
      BY <1>1, <1>3, <2>2
    <3> QED
      BY <3>1 DEF Active, Known
  <2> QED
    BY <2>1, <2>2
<1>7. PendingIsOwn'
  BY <1>1, <1>3 DEF IInv, PendingIsOwn
<1>8. AllowedIsOrdered'
  <2>1. \A r \in pending[p] : <<p, RawOf[r.alert]>> \in errors'
    <3>1. \A r \in pending[p] : r \in decided[p]
      BY DEF IInv, PendingIsOwn
    <3>2. \A r \in pending[p] : RawOf[r.alert] \in AtHand(p)
      BY <3>1 DEF AtHand, AlertsOf
    <3> QED
      BY <1>1, <3>2
  <2>2. \A q \in Deciders : q # p => pending'[q] = pending[q]
    BY <1>1, <1>3
  <2> QED
    BY <1>1, <1>2, <2>1, <2>2, OrderedStep
<1> QED
  BY <1>2, <1>4, <1>5, <1>6, <1>7, <1>8 DEF IInv

LEMMA CrashStep == \A p \in Deciders : IInv /\ Crash(p) => IInv'
<1> SUFFICES ASSUME NEW p \in Deciders, IInv, Crash(p) PROVE IInv'
  OBVIOUS
<1>1. /\ faults < MaxFaults /\ faults' = faults + 1
      /\ UNCHANGED fileVars \/ TearRow
      /\ cut' = cut \cup pending[p]
      /\ batch' = [batch EXCEPT ![p] = {}] /\ prior' = [prior EXCEPT ![p] = {}]
      /\ decided' = [decided EXCEPT ![p] = {}] /\ pending' = [pending EXCEPT ![p] = {}]
      /\ UNCHANGED <<processed, errors, orders, refused, forgotten>>
  BY DEF Crash
<1>2. FileInv' /\ ledger' = ledger /\ written' = written
  BY <1>1, FileStays, TearStep DEF IInv, fileVars, TearRow
<1>3. /\ pending \in [Deciders -> SUBSET DecisionRows] /\ batch \in [Deciders -> SUBSET Alerts]
      /\ prior \in [Deciders -> SUBSET DecisionRows] /\ decided \in [Deciders -> SUBSET DecisionRows]
  BY DEF IInv, TypeOK
<1>4. TypeOK'
  <2>1. /\ batch' \in [Deciders -> SUBSET Alerts] /\ pending' \in [Deciders -> SUBSET DecisionRows]
        /\ prior' \in [Deciders -> SUBSET DecisionRows] /\ decided' \in [Deciders -> SUBSET DecisionRows]
    BY <1>1, <1>3
  <2>2. faults' \in 0..MaxFaults
    BY <1>1, GuardAssumption DEF IInv, TypeOK
  <2>3. cut' \subseteq DecisionRows
    BY <1>1, <1>3 DEF IInv, TypeOK
  <2> QED
    BY <1>1, <1>2, <2>1, <2>2, <2>3 DEF IInv, TypeOK, FileInv
<1>5. (OwnWithinLimit /\ OwnTickersDiffer)'
  BY <1>1, <1>2, LimitsStay
<1>6. OwnKnown'
  <2> SUFFICES ASSUME NEW q \in Deciders, Active(q)' PROVE Active(q) /\ Known(q) \subseteq Known(q)'
    BY <1>2, KnowledgeStays
  <2>1. q # p
    BY <1>1, <1>3 DEF Active
  <2>2. prior'[q] = prior[q] /\ decided'[q] = decided[q] /\ batch'[q] = batch[q] /\ forgotten' = forgotten
    BY <1>1, <1>3, <2>1
  <2> QED
    BY <2>2 DEF Active, Known
<1>7. PendingIsOwn'
  BY <1>1, <1>3 DEF IInv, PendingIsOwn
<1>8. AllowedIsOrdered'
  BY <1>1, <1>2, <1>3, OrderedStep
<1> QED
  BY <1>2, <1>4, <1>5, <1>6, <1>7, <1>8 DEF IInv

\* A compaction, or nothing.
LEMMA OthersStep ==
  ASSUME IInv, FileInv', ledger' \subseteq ledger, written' = written, UNCHANGED guardVars
  PROVE  IInv'
<1>1. UNCHANGED <<batch, prior, decided, pending, processed, errors, orders, refused, faults, cut, forgotten>>
  BY DEF guardVars
<1>2. TypeOK'
  BY <1>1 DEF IInv, TypeOK, FileInv
<1>3. (OwnWithinLimit /\ OwnTickersDiffer)'
  BY <1>1, LimitsStay
<1>4. OwnKnown'
  <2>1. \A q \in Deciders : Active(q)' => Active(q) /\ Known(q) \subseteq Known(q)'
    BY <1>1 DEF Active, Known
  <2> QED
    BY <2>1, KnowledgeStays
<1>5. PendingIsOwn'
  BY <1>1 DEF IInv, PendingIsOwn
<1>6. AllowedIsOrdered'
  BY <1>1, OrderedStep
<1> QED
  BY <1>2, <1>3, <1>4, <1>5, <1>6 DEF IInv

LEMMA CompactStep == IInv /\ Compact => IInv'
<1> SUFFICES ASSUME IInv, Compact PROVE IInv'
  OBVIOUS
<1>1. FileInv' /\ ledger' \subseteq ledger /\ written' = written
  BY SweepStep DEF IInv, Compact
<1> QED
  BY <1>1, OthersStep DEF Compact

LEMMA NextIInv == IInv /\ [Next]_vars => IInv'
<1> SUFFICES ASSUME IInv, [Next]_vars PROVE IInv'
  OBVIOUS
<1>1. CASE UNCHANGED vars
  <2>1. FileInv' /\ UNCHANGED guardVars
    BY <1>1, FileStays DEF IInv, vars
  <2>2. ledger' = ledger /\ written' = written
    BY <1>1 DEF vars, fileVars
  <2> QED
    BY <2>1, <2>2, OthersStep
<1>2. CASE \E p \in Deciders : Work(p)
  BY <1>2, StartBatchStep, DecideStep, AuditStep, EndRawStep, FailStep DEF Work
<1> QED
  BY <1>1, <1>2, CrashStep, CompactStep DEF Next

LEMMA InvariantHolds == Spec => []IInv
<1>1. Init => IInv
  BY InitIInv
<1>2. IInv /\ [Next]_vars => IInv'
  BY NextIInv
<1> QED
  BY <1>1, <1>2, PTL DEF Spec

-----------------------------------------------------------------------------
(* The limits, counted over all processes                                  *)

\* Rows of which each process has at most k are at most k for each process.
LEMMA AtMostEach ==
  ASSUME NEW S \in SUBSET DecisionRows, NEW k \in Nat,
         \A p \in Deciders : Cardinality({r \in S : r.by = p}) <= k
  PROVE  IsFiniteSet(S) /\ Cardinality(S) <= k * Cardinality(Deciders)
<1> DEFINE Of(p) == {r \in S : r.by = p}
<1>1. IsFiniteSet(S)
  BY DecisionRowsFinite, FS_Subset
<1>2. \A p \in Deciders : ExistsInjection(Of(p), 1..k)
  <2> SUFFICES ASSUME NEW p \in Deciders PROVE ExistsInjection(Of(p), 1..k)
    OBVIOUS
  <2>1. IsFiniteSet(Of(p)) /\ Cardinality(Of(p)) \in Nat /\ Cardinality(Of(p)) <= k
    BY <1>1, FS_Subset, FS_CardinalityType
  <2>2. PICK n \in Nat : ExistsBijection(1..n, Of(p))
    BY <2>1, FS_NatBijection
  <2>3. n = Cardinality(Of(p))
    BY <2>2, FS_CountingElements
  <2>4. PICK g \in Bijection(1..n, Of(p)) : TRUE
    BY <2>2 DEF ExistsBijection
  <2> DEFINE h == [r \in Of(p) |-> CHOOSE i \in 1..n : g[i] = r]
  <2>5. \A r \in Of(p) : \E i \in 1..n : g[i] = r
    BY <2>4 DEF Bijection, Surjection
  <2>6. \A r \in Of(p) : h[r] \in 1..n /\ g[h[r]] = r
    BY <2>5
  <2>7. 1..n \subseteq 1..k
    <3>1. n \in Nat /\ n <= k
      BY <2>1, <2>2, <2>3
    <3> QED
      BY <3>1
  <2>8. h \in [Of(p) -> 1..k] /\ \A r, s \in Of(p) : h[r] = h[s] => r = s
    <3>1. \A r \in Of(p) : h[r] \in 1..k
      BY <2>6, <2>7
    <3>2. \A r, s \in Of(p) : h[r] = h[s] => r = s
      BY <2>6
    <3> QED
      BY <3>1, <3>2
  <2>9. h \in Injection(Of(p), 1..k)
    BY <2>8 DEF Injection, IsInjective
  <2> QED
    BY <2>9 DEF ExistsInjection
<1> DEFINE c == [p \in Deciders |-> CHOOSE f \in Injection(Of(p), 1..k) : TRUE]
<1>3. \A p \in Deciders : c[p] \in Injection(Of(p), 1..k)
  BY <1>2 DEF ExistsInjection
<1> DEFINE e == [r \in S |-> <<c[r.by][r], r.by>>]
<1> HIDE DEF c
<1>4. \A r \in S : r.by \in Deciders /\ r \in Of(r.by)
  BY DEF DecisionRows
<1>5. \A r \in S : c[r.by][r] \in 1..k
  BY <1>3, <1>4 DEF Injection
<1>6. \A r, s \in S : r.by = s.by /\ c[r.by][r] = c[s.by][s] => r = s
  BY <1>3, <1>4 DEF Injection, IsInjective
<1>7. e \in Injection(S, (1..k) \X Deciders)
  BY <1>4, <1>5, <1>6 DEF Injection, IsInjective
<1>8. IsFiniteSet(1..k) /\ Cardinality(1..k) = k
  BY FS_Interval
<1>9. IsFiniteSet((1..k) \X Deciders) /\ Cardinality((1..k) \X Deciders) = k * Cardinality(Deciders)
  BY <1>8, FS_Product, GuardAssumption
<1> QED
  BY <1>1, <1>7, <1>9, FS_Injection

\* Allowed decisions are those the ledger has, by their processes, and those it has lost.
LEMMA GrantsInLedger ==
  ASSUME IInv
  PROVE  /\ Granted \in SUBSET DecisionRows /\ Uncounted \in SUBSET DecisionRows
         /\ Granted \ Uncounted \subseteq AllowedIn(ledger) \ forgotten
         /\ AllowedIn(ledger) \in SUBSET DecisionRows
BY GuardAssumption DEF IInv, TypeOK, FileTypeOK, Granted, Uncounted, AllowedIn

\* A set is no larger than a part of it and what it bounds together with the rest.
LEMMA PartAndRest ==
  ASSUME NEW S \in SUBSET DecisionRows, NEW L \in SUBSET DecisionRows, NEW k \in Nat,
         Cardinality(S \ L) <= k
  PROVE  Cardinality(S) <= k + Cardinality(L)
<1>1. IsFiniteSet(S) /\ IsFiniteSet(L) /\ IsFiniteSet(S \ L)
  BY DecisionRowsFinite, FS_Subset
<1>2. IsFiniteSet(L \cup (S \ L))
      /\ Cardinality(L \cup (S \ L)) = Cardinality(L) + Cardinality(S \ L) - Cardinality(L \cap (S \ L))
  BY <1>1, FS_Union
<1>3. L \cap (S \ L) = {} /\ S \subseteq L \cup (S \ L)
  OBVIOUS
<1>4. Cardinality({}) = 0
  BY FS_EmptySet
<1>5. Cardinality(S) <= Cardinality(L \cup (S \ L))
  BY <1>2, <1>3, FS_Subset
<1>6. Cardinality(S) \in Nat /\ Cardinality(L) \in Nat /\ Cardinality(S \ L) \in Nat
  BY <1>1, FS_CardinalityType
<1>7. Cardinality(L \cup (S \ L)) = Cardinality(L) + Cardinality(S \ L)
  <2>1. Cardinality(L \cap (S \ L)) = 0
    BY <1>3, <1>4, Zenon
  <2> QED
    BY <1>2, <1>6, <2>1
<1> QED
  BY <1>5, <1>6, <1>7

LEMMA DayLimit == IInv => DayLimitPerProcess
<1> SUFFICES ASSUME IInv PROVE DayLimitPerProcess
  OBVIOUS
<1> DEFINE S == Granted \ Uncounted
<1>1. Granted \in SUBSET DecisionRows /\ Uncounted \in SUBSET DecisionRows /\ S \in SUBSET DecisionRows
  BY GrantsInLedger
<1>2. \A p \in Deciders : Cardinality({r \in S : r.by = p}) <= MaxTradesPerDay
  <2> SUFFICES ASSUME NEW p \in Deciders
               PROVE  Cardinality({r \in S : r.by = p}) <= MaxTradesPerDay
    OBVIOUS
  <2>1. {r \in S : r.by = p} \subseteq Counted(p)
    BY GrantsInLedger DEF Own, Counted
  <2>2. IsFiniteSet(Counted(p)) /\ Cardinality(Counted(p)) <= MaxTradesPerDay
    BY DEF IInv, OwnWithinLimit
  <2>3. /\ Cardinality({r \in S : r.by = p}) <= Cardinality(Counted(p))
        /\ Cardinality({r \in S : r.by = p}) \in Nat /\ Cardinality(Counted(p)) \in Nat
    BY <2>1, <2>2, FS_Subset, FS_CardinalityType
  <2> QED
    BY <2>2, <2>3, GuardAssumption
<1> HIDE DEF S
<1>3. Cardinality(S) <= MaxTradesPerDay * Cardinality(Deciders)
  BY <1>1, <1>2, AtMostEach, GuardAssumption
<1>4. MaxTradesPerDay * Cardinality(Deciders) \in Nat
  BY FS_CardinalityType, GuardAssumption
<1> QED
  BY <1>1, <1>3, <1>4, PartAndRest DEF S, DayLimitPerProcess

LEMMA AllTheSame ==
  ASSUME NEW T, \A x, y \in T : x = y
  PROVE  Cardinality(T) <= 1
<1>1. CASE T = {}
  BY <1>1, FS_EmptySet
<1>2. CASE T # {}
  <2>1. PICK x \in T : TRUE
    BY <1>2
  <2>2. T = {x}
    BY <2>1
  <2>3. Cardinality({x}) = 1
    BY FS_Singleton
  <2> QED
    BY <2>2, <2>3
<1> QED
  BY <1>1, <1>2

LEMMA TickerLimit == IInv => TickerLimitPerProcess
<1> SUFFICES ASSUME IInv, NEW a \in Alerts
             PROVE  Cardinality(OfTicker(Granted, a))
                      <= Cardinality(Deciders) + Cardinality(OfTicker(Uncounted, a))
  BY DEF TickerLimitPerProcess
<1> DEFINE S == OfTicker(Granted, a) \ OfTicker(Uncounted, a)
<1>1. /\ OfTicker(Granted, a) \in SUBSET DecisionRows /\ OfTicker(Uncounted, a) \in SUBSET DecisionRows
      /\ S \in SUBSET DecisionRows
  BY GrantsInLedger DEF OfTicker
<1>2. \A p \in Deciders : Cardinality({r \in S : r.by = p}) <= 1
  <2> SUFFICES ASSUME NEW p \in Deciders
               PROVE  Cardinality({r \in S : r.by = p}) <= 1
    OBVIOUS
  <2>1. {r \in S : r.by = p} \subseteq Counted(p)
    BY GrantsInLedger DEF Own, Counted, OfTicker
  <2>2. \A r, s \in {r \in S : r.by = p} : r = s
    BY <2>1 DEF IInv, OwnTickersDiffer, OfTicker
  <2> QED
    BY <2>2, AllTheSame
<1> HIDE DEF S
<1>3. Cardinality(S) <= 1 * Cardinality(Deciders)
  BY <1>1, <1>2, AtMostEach
<1>4. Cardinality(Deciders) \in Nat /\ Cardinality(S) <= Cardinality(Deciders)
  BY <1>3, FS_CardinalityType, GuardAssumption
<1> QED
  BY <1>1, <1>4, PartAndRest DEF S

-----------------------------------------------------------------------------

\* Every ledger, batch and decision of risk_guard.py and run_pipeline_once.py has its type.
THEOREM TypeCorrect == Spec => []TypeOK
<1>1. IInv => TypeOK
  BY DEF IInv
<1> QED
  BY <1>1, InvariantHolds, PTL

\* For any number of processes, alerts, crashes and compactions, the day's limit holds for
\* each process on its own, but for decisions whose rows were lost
\* or whose raw ended in an exception.
THEOREM DayLimitHolds == Spec => []DayLimitPerProcess
BY InvariantHolds, DayLimit, PTL

\* So does the limit of one trade on a ticker.
THEOREM TickerLimitHolds == Spec => []TickerLimitPerProcess
BY InvariantHolds, TickerLimit, PTL

\* An allowed alert has its row in the order audit or is about to get it, was cut off by a
\* kill, or belongs to a raw marked as an error, for any exceptions and kills.
THEOREM AllowedAlertsAreOrdered == Spec => []AllowedIsOrdered
<1>1. IInv => AllowedIsOrdered
  BY DEF IInv
<1> QED
  BY <1>1, InvariantHolds, PTL

\* Compaction takes no row from the active ledger but those of tests, those appended while
\* it ran, and those glued to a torn line; and what it takes is archived unless late.
THEOREM CompactionIsSafe == Spec => []RowsSurvive
<1>1. IInv => RowsSurvive
  BY DEF IInv, FileInv, RowsSurvive
<1> QED
  BY <1>1, InvariantHolds, PTL

\* No process exceeds the day's or a ticker's limit on its own, however it is restarted,
\* but for one decision for each that a torn or compacted row or an exception has hidden.
THEOREM LimitsHold == Spec => []LimitsPerProcess
<1>1. DayLimitPerProcess /\ TickerLimitPerProcess => LimitsPerProcess
  BY DEF LimitsPerProcess
<1> QED
  BY <1>1, DayLimitHolds, TickerLimitHolds, PTL

=============================================================================
