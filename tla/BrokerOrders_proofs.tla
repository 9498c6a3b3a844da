------------------------ MODULE BrokerOrders_proofs ------------------------
(***************************************************************************)
(* Theorems about BrokerOrders, for any number of processes, orders and    *)
(* crashes: its types, that a client order id has at most one row, that it *)
(* implements OrderVerdict, and what one monitor reports.                  *)
(***************************************************************************)
EXTENDS BrokerOrders, TLAPS

-----------------------------------------------------------------------------
(* The inductive invariant                                                 *)

\* Between its lookup and its row a process holds the lock, the row it is about
\* to write carries a verdict, and no row with that id has appeared.
Locked(p) == pc[p] \in {"check", "post", "append"} => lock = p
Unwritten(p) == pc[p] \in {"post", "append"} => rows[Busy(p)] = <<>>
Judged(p) == pc[p] = "append" => answer[p] \in Verdicts
Guarded == \A p \in Procs : Locked(p) /\ Unwritten(p) /\ Judged(p)

IInv == TypeOK /\ Guarded /\ OneRowPerOrder

LEMMA InitIInv == Init => IInv
<1> SUFFICES ASSUME Init PROVE IInv
  OBVIOUS
<1>1. TypeOK
  <2>1. crashes \in 0..MaxCrashes
    BY CrashAssumption DEF Init
  <2> QED
    BY <2>1 DEF Init, TypeOK, PCs, Statuses, Verdicts, NoJob, Orders
<1>2. Guarded
  BY DEF Init, Guarded, Locked, Unwritten, Judged
<1>3. OneRowPerOrder
  BY DEF Init, OneRowPerOrder
<1> QED
  BY <1>1, <1>2, <1>3 DEF IInv

-----------------------------------------------------------------------------
(* Type correctness of the steps                                           *)

LEMMA AppendType ==
  ASSUME NEW S, NEW T, NEW f \in [S -> Seq(T)], NEW s \in S, NEW t \in T
  PROVE  [f EXCEPT ![s] = Append(@, t)] \in [S -> Seq(T)]
<1>1. Append(f[s], t) \in Seq(T)
  OBVIOUS
<1> QED
  BY <1>1

LEMMA AppendFirst ==
  ASSUME NEW t PROVE Append(<<>>, t) # <<>> /\ Len(Append(<<>>, t)) = 1
  OBVIOUS

LEMMA CountType ==
  ASSUME NEW S, NEW f \in [S -> Nat], NEW s \in S
  PROVE  [f EXCEPT ![s] = @ + 1] \in [S -> Nat]
<1>1. f[s] + 1 \in Nat
  OBVIOUS
<1> QED
  BY <1>1

LEMMA CrashesType ==
  ASSUME crashes \in 0..MaxCrashes, crashes < MaxCrashes
  PROVE  crashes + 1 \in 0..MaxCrashes
  BY CrashAssumption

LEMMA BrokerType ==
  ASSUME broker \in [Orders -> Statuses], NEW o \in Orders, BrokerTakes(o)
  PROVE  broker' \in [Orders -> Statuses]
<1>1. "working" \in Statuses
  BY DEF Statuses
<1> QED
  BY <1>1 DEF BrokerTakes

LEMMA StepTypes == TypeOK /\ Guarded /\ [Next]_vars => TypeOK'
<1> SUFFICES ASSUME TypeOK, Guarded, [Next]_vars PROVE TypeOK'
  OBVIOUS
<1> USE DEF TypeOK, Busy, Goto, auditVars, monitorVars, reportVars
<1>1. ASSUME NEW p \in Procs, NEW o \in Orders, Submit(p, o) PROVE TypeOK'
  BY <1>1 DEF Submit, Job, PCs, Orders
<1>2. ASSUME NEW p \in Procs, Acquire(p) PROVE TypeOK'
  BY <1>2 DEF Acquire, PCs
<1>3. ASSUME NEW p \in Procs, FailToBuild(p) PROVE TypeOK'
  BY <1>3 DEF FailToBuild, Return, PCs
<1>4. ASSUME NEW p \in Procs, SkipDuplicate(p) PROVE TypeOK'
  BY <1>4 DEF SkipDuplicate, Return, PCs
<1>5. ASSUME NEW p \in Procs, DecideToSend(p) PROVE TypeOK'
  BY <1>5 DEF DecideToSend, PCs, Verdicts
<1>6. ASSUME NEW p \in Procs, Post(p) PROVE TypeOK'
  <2>1. broker' \in [Orders -> Statuses]
    <3>1. Busy(p) \in Orders
      BY <1>6 DEF Post
    <3>2. BrokerTakes(Busy(p)) \/ UNCHANGED broker
      BY <1>6 DEF Post
    <3> QED
      BY <3>1, <3>2, BrokerType
  <2> QED
    BY <1>6, <2>1 DEF Post, PCs, Verdicts
<1>7. ASSUME NEW p \in Procs, AppendAudit(p) PROVE TypeOK'
  <2>1. answer[p] \in Verdicts /\ job[p].order \in Orders
    BY <1>7 DEF AppendAudit, Guarded, Judged
  <2>2. rows' \in [Orders -> Seq(Verdicts)]
    <3>1. rows' = [rows EXCEPT ![job[p].order] = Append(@, answer[p])]
      BY <1>7 DEF AppendAudit
    <3>2. rows \in [Orders -> Seq(Verdicts)]
      OBVIOUS
    <3> HIDE DEF TypeOK
    <3> QED
      BY <2>1, <3>1, <3>2, AppendType
  <2> QED
    BY <1>7, <2>1, <2>2 DEF AppendAudit, Return, PCs
<1>8. ASSUME NEW p \in Procs, ReturnToBuyer(p) PROVE TypeOK'
  BY <1>8 DEF ReturnToBuyer, Finish, NoJob, PCs
<1>9. ASSUME NEW p \in Procs, ReturnToExit(p) PROVE TypeOK'
  BY <1>9 DEF ReturnToExit, Finish, NoJob, PCs
<1>10. ASSUME NEW p \in Procs, ReturnToSync(p) PROVE TypeOK'
  BY <1>10 DEF ReturnToSync, Finish, NoJob, PCs
<1>11. ASSUME NEW p \in Procs, StartSync(p) PROVE TypeOK'
  BY <1>11 DEF StartSync, Orders, PCs
<1>12. ASSUME NEW p \in Procs, SyncExit(p) PROVE TypeOK'
  <2>1. PICK o \in todo[p] :
          \/ todo' = [todo EXCEPT ![p] = todo[p] \ {o}] /\ UNCHANGED <<pc, job>>
          \/ job' = [job EXCEPT ![p] = Job(o, "sync")] /\ Goto(p, "lock") /\ UNCHANGED todo
    BY <1>12 DEF SyncExit
  <2>2. UNCHANGED <<broker, rows, lock, exitRow, old, reports, told, answer, known, reported, crashes>>
    BY <1>12 DEF SyncExit
  <2>3. Job(o, "sync") \in [order : Orders \cup {Free},
                             for : {"nobody", "buy", "exit", "sync", "report"}]
    BY DEF Job
  <2>4. "lock" \in PCs /\ o \in Orders /\ Job(o, "sync").order = o
    BY DEF PCs, Job
  <2>5. CASE todo' = [todo EXCEPT ![p] = todo[p] \ {o}] /\ UNCHANGED <<pc, job>>
    BY <2>2, <2>5
  <2>6. CASE job' = [job EXCEPT ![p] = Job(o, "sync")] /\ Goto(p, "lock") /\ UNCHANGED todo
    BY <2>2, <2>3, <2>4, <2>6
  <2> QED
    BY <2>1, <2>5, <2>6
<1>13. ASSUME NEW p \in Procs, StartCheck(p) PROVE TypeOK'
  <2>1. SubmittedOrders \subseteq Orders
    BY DEF SubmittedOrders
  <2>2. todo' \in [Procs -> SUBSET Orders] /\ reported' \in [Procs -> SUBSET (Orders \X Terminal)]
    <3> DEFINE seen == {key \in Orders \X Terminal :
                          \E i \in DOMAIN reports[key[1]] : reports[key[1]][i] = key[2]}
    <3>1. seen \subseteq Orders \X Terminal
      OBVIOUS
    <3>2. \/ /\ todo' = [todo EXCEPT ![p] = SubmittedOrders]
             /\ reported' = [reported EXCEPT ![p] = seen]
          \/ UNCHANGED <<todo, reported>>
      BY <1>13 DEF StartCheck
    <3> HIDE DEF seen
    <3> QED
      BY <2>1, <3>1, <3>2
  <2>3. pc' \in [Procs -> PCs]
    BY <1>13 DEF StartCheck, PCs
  <2> QED
    BY <1>13, <2>2, <2>3 DEF StartCheck
<1>14. ASSUME NEW p \in Procs, NEW o \in Orders, FetchNothing(p, o) PROVE TypeOK'
  BY <1>14 DEF FetchNothing, PCs
<1>15. ASSUME NEW p \in Procs, NEW o \in Orders, FetchTerminal(p, o) PROVE TypeOK'
  <2>1. reports' \in [Orders -> Seq(Terminal)]
    <3>1. broker[o] \in Terminal /\ reports' = [reports EXCEPT ![o] = Append(@, broker[o])]
      BY <1>15 DEF FetchTerminal
    <3> QED
      BY <3>1, AppendType
  <2>2. reported' \in [Procs -> SUBSET (Orders \X Terminal)]
    <3>1. <<o, broker[o]>> \in Orders \X Terminal
      BY <1>15 DEF FetchTerminal
    <3>2. reported' = [reported EXCEPT ![p] = reported[p] \cup {<<o, broker[o]>>}]
      BY <1>15 DEF FetchTerminal
    <3> QED
      BY <3>1, <3>2
  <2> QED
    BY <1>15, <2>1, <2>2 DEF FetchTerminal, Job, PCs
<1>16. ASSUME NEW p \in Procs, Tell(p) PROVE TypeOK'
  <2>1. told' \in [Orders -> Nat]
    <3>1. /\ job[p].order \in Orders
          /\ UNCHANGED told \/ told' = [told EXCEPT ![job[p].order] = @ + 1]
      BY <1>16 DEF Tell
    <3>2. told \in [Orders -> Nat]
      OBVIOUS
    <3> HIDE DEF TypeOK
    <3> QED
      BY <3>1, <3>2, CountType
  <2> QED
    BY <1>16, <2>1 DEF Tell, NoJob, PCs
<1>17. ASSUME NEW p \in Procs, EndCheck(p) PROVE TypeOK'
  BY <1>17 DEF EndCheck, PCs
<1>18. ASSUME NEW p \in Procs, Crash(p) PROVE TypeOK'
  <2>1. broker' \in [Orders -> Statuses]
    <3>1. UNCHANGED broker \/ (Busy(p) \in Orders /\ BrokerTakes(Busy(p)))
      BY <1>18 DEF Crash
    <3> QED
      BY <3>1, BrokerType
  <2>2. crashes' \in 0..MaxCrashes
    <3>1. crashes < MaxCrashes /\ crashes' = crashes + 1
      BY <1>18 DEF Crash
    <3>2. crashes \in 0..MaxCrashes
      OBVIOUS
    <3> HIDE DEF TypeOK
    <3> QED
      BY <3>1, <3>2, CrashesType
  <2> QED
    BY <1>18, <2>1, <2>2 DEF Crash, Finish, NoJob, PCs
<1>19. ASSUME NEW o \in Orders, BrokerEnds(o) PROVE TypeOK'
  BY <1>19 DEF BrokerEnds, Statuses
<1>20. ASSUME NEW o \in Orders, GrowsOld(o) PROVE TypeOK'
  BY <1>20 DEF GrowsOld
<1>21. CASE UNCHANGED vars
  BY <1>21 DEF vars
<1> QED
  BY <1>1, <1>2, <1>3, <1>4, <1>5, <1>6, <1>7, <1>8, <1>9, <1>10, <1>11, <1>12, <1>13, <1>14,
     <1>15, <1>16, <1>17, <1>18, <1>19, <1>20, <1>21
     DEF Next, InLock, Returned, Monitor, Fetch

-----------------------------------------------------------------------------
(* The lock keeps the lookup of an id and its row together                 *)

LEMMA StepGuarded == TypeOK /\ Guarded /\ [Next]_vars => Guarded'
<1> SUFFICES ASSUME TypeOK, Guarded, [Next]_vars PROVE Guarded'
  OBVIOUS
<1> USE DEF Guarded, Locked, Unwritten, Judged, Busy, Goto, auditVars, monitorVars, reportVars
<1>1. pc \in [Procs -> PCs] /\ job \in [Procs -> [order : Orders \cup {Free},
                                for : {"nobody", "buy", "exit", "sync", "report"}]]
      /\ answer \in [Procs -> Verdicts \cup {"none", "skipped", "no id"}]
  BY DEF TypeOK
<1>2. ASSUME NEW p \in Procs, NEW o \in Orders, Submit(p, o) PROVE Guarded'
  BY <1>1, <1>2 DEF Submit
<1>3. ASSUME NEW p \in Procs, Acquire(p) PROVE Guarded'
  BY <1>1, <1>3, MonitorAssumption DEF Acquire
<1>4. ASSUME NEW p \in Procs, FailToBuild(p) \/ SkipDuplicate(p) PROVE Guarded'
  BY <1>1, <1>4 DEF FailToBuild, SkipDuplicate, Return
<1>5. ASSUME NEW p \in Procs, DecideToSend(p) PROVE Guarded'
  BY <1>1, <1>5 DEF DecideToSend, Verdicts
<1>6. ASSUME NEW p \in Procs, Post(p) PROVE Guarded'
  BY <1>1, <1>6 DEF Post, Verdicts
<1>7. ASSUME NEW p \in Procs, AppendAudit(p) PROVE Guarded'
  \* whoever else is between lookup and row would hold the lock as well
  <2>1. \A q \in Procs \ {p} : pc[q] \notin {"check", "post", "append"}
    BY <1>7 DEF AppendAudit
  <2>2. \A q \in Procs : pc'[q] \notin {"check", "post", "append"}
    BY <1>1, <1>7, <2>1 DEF AppendAudit, Return
  <2> QED
    BY <2>2
<1>8. ASSUME NEW p \in Procs, Returned(p) PROVE Guarded'
  BY <1>1, <1>8 DEF Returned, ReturnToBuyer, ReturnToExit, ReturnToSync, Finish
<1>9. ASSUME NEW p \in Procs, StartSync(p) PROVE Guarded'
  BY <1>1, <1>9 DEF StartSync
<1>10. ASSUME NEW p \in Procs, SyncExit(p) PROVE Guarded'
  BY <1>1, <1>10 DEF SyncExit
<1>11. ASSUME NEW p \in Procs, StartCheck(p) PROVE Guarded'
  BY <1>1, <1>11 DEF StartCheck
<1>12. ASSUME NEW p \in Procs, Fetch(p) PROVE Guarded'
  BY <1>1, <1>12 DEF Fetch, FetchNothing, FetchTerminal
<1>13. ASSUME NEW p \in Procs, Tell(p) \/ EndCheck(p) PROVE Guarded'
  BY <1>1, <1>13 DEF Tell, EndCheck
<1>14. ASSUME NEW p \in Procs, Crash(p) PROVE Guarded'
  BY <1>1, <1>14 DEF Crash, Finish
<1>15. ASSUME NEW o \in Orders, BrokerEnds(o) \/ GrowsOld(o) PROVE Guarded'
  BY <1>15 DEF BrokerEnds, GrowsOld
<1>16. CASE UNCHANGED vars
  BY <1>16 DEF vars
<1> QED
  BY <1>2, <1>3, <1>4, <1>5, <1>6, <1>7, <1>8, <1>9, <1>10, <1>11, <1>12, <1>13, <1>14, <1>15,
     <1>16 DEF Next, InLock, Monitor

\* The only step that writes a row writes the first one of its id.
LEMMA StepOneRow == IInv /\ [Next]_vars => OneRowPerOrder'
<1> SUFFICES ASSUME IInv, [Next]_vars PROVE OneRowPerOrder'
  OBVIOUS
<1> USE DEF OneRowPerOrder
<1>1. ASSUME NEW p \in Procs, AppendAudit(p) PROVE OneRowPerOrder'
  <2>1. rows[Busy(p)] = <<>> /\ Busy(p) \in Orders
    BY <1>1 DEF AppendAudit, IInv, TypeOK, Guarded, Unwritten
  <2>2. Len(Append(rows[Busy(p)], answer[p])) = 1
    BY <2>1
  <2>3. rows' = [rows EXCEPT ![Busy(p)] = Append(rows[Busy(p)], answer[p])]
    BY <1>1 DEF AppendAudit
  <2>4. ASSUME NEW o \in Orders PROVE Len(rows'[o]) <= 1
    <3>1. CASE o = Busy(p)
      <4>1. rows'[o] = Append(rows[Busy(p)], answer[p])
        BY <2>1, <2>3, <3>1 DEF IInv, TypeOK
      <4>2. Len(rows'[o]) = 1
        BY <2>2, <4>1
      <4> QED
        BY <4>2
    <3>2. CASE o # Busy(p)
      <4>1. rows'[o] = rows[o]
        BY <2>3, <3>2 DEF IInv, TypeOK
      <4>2. Len(rows[o]) <= 1
        BY DEF IInv
      <4> QED
        BY <4>1, <4>2
    <3> QED
      BY <3>1, <3>2
  <2> QED
    BY <2>4
<1>2. CASE UNCHANGED rows
  BY <1>2 DEF IInv
<1> QED
  BY <1>1, <1>2
     DEF Next, Submit, Acquire, InLock, FailToBuild, SkipDuplicate, DecideToSend, Post, Returned,
         ReturnToBuyer, ReturnToExit, ReturnToSync, StartSync, Monitor, SyncExit, StartCheck,
         Fetch, FetchNothing, FetchTerminal, Tell, EndCheck, Crash, BrokerEnds, GrowsOld, vars,
         auditVars

\* IInv is an invariant of the specification.
THEOREM Invariance == Spec => []IInv
<1>1. IInv /\ [Next]_vars => IInv'
  BY StepTypes, StepGuarded, StepOneRow DEF IInv
<1> QED
  BY InitIInv, <1>1, PTL DEF Spec

\* Every variable keeps its type, for any number of processes, orders and crashes.
THEOREM TypeCorrect == Spec => []TypeOK
<1>1. IInv => TypeOK
  BY DEF IInv
<1> QED
  BY Invariance, <1>1, PTL

\* However many processes race for a client order id, it has at most one audit row:
\* order_audit_lock makes the lookup and the append of submit_option_paper_order
\* one step for everybody else.
THEOREM AtMostOneRow == Spec => []OneRowPerOrder
<1>1. IInv => OneRowPerOrder
  BY DEF IInv
<1> QED
  BY Invariance, <1>1, PTL

-----------------------------------------------------------------------------
(* BrokerOrders implements OrderVerdict                                    *)

\* A process that is about to record "submitted" has seen the broker take the order.
TakenFirst ==
  \A p \in Procs :
    pc[p] = "append" /\ answer[p] = "submitted" => broker[Busy(p)] # "none"

LEMMA TakenFirstInvariant == Spec => []TakenFirst
<1>1. Init => TakenFirst
  BY DEF Init, TakenFirst
<1>2. IInv /\ TakenFirst /\ [Next]_vars => TakenFirst'
  <2> SUFFICES ASSUME IInv, TakenFirst, [Next]_vars PROVE TakenFirst'
    OBVIOUS
  <2> USE DEF TakenFirst, Busy, Goto, auditVars, monitorVars, reportVars
  <2>1. pc \in [Procs -> PCs] /\ job \in [Procs -> [order : Orders \cup {Free},
                                  for : {"nobody", "buy", "exit", "sync", "report"}]]
        /\ answer \in [Procs -> Verdicts \cup {"none", "skipped", "no id"}]
        /\ broker \in [Orders -> Statuses]
    BY DEF IInv, TypeOK
  <2>2. \A o \in Orders : BrokerTakes(o) =>
          broker'[o] # "none" /\ \A u \in Orders : broker[u] # "none" => broker'[u] # "none"
    BY <2>1 DEF BrokerTakes
  <2>3. \A p \in Procs : pc[p] \in {"post", "append"} => job[p].order \in Orders
    BY DEF IInv, TypeOK
  <2>4. ASSUME NEW p \in Procs, Post(p) PROVE TakenFirst'
    <3>1. CASE broker' = broker /\ answer' = [answer EXCEPT ![p] = "blocked"]
      BY <2>1, <2>4, <3>1 DEF Post
    <3>2. CASE BrokerTakes(Busy(p))
      <4>1. job[p].order \in Orders /\ broker'[job[p].order] # "none"
        BY <2>2, <2>3, <2>4, <3>2 DEF Post
      <4>2. \A q \in Procs \ {p} : pc'[q] = pc[q] /\ answer'[q] = answer[q]
        BY <2>1, <2>4 DEF Post
      <4> QED
        BY <2>2, <2>3, <2>4, <3>2, <4>1, <4>2 DEF Post
    <3> QED
      BY <2>4, <3>1, <3>2 DEF Post
  <2>5. ASSUME NEW p \in Procs, DecideToSend(p) PROVE TakenFirst'
    BY <2>1, <2>5 DEF DecideToSend
  <2>6. ASSUME NEW p \in Procs, AppendAudit(p) PROVE TakenFirst'
    BY <2>1, <2>6 DEF AppendAudit, Return
  <2>7. ASSUME NEW p \in Procs, Crash(p) PROVE TakenFirst'
    BY <2>1, <2>2, <2>3, <2>7 DEF Crash, Finish
  <2>8. ASSUME NEW o \in Orders, BrokerEnds(o) PROVE TakenFirst'
    BY <2>1, <2>3, <2>8, TerminalAssumption DEF BrokerEnds
  <2>9. ASSUME NEW p \in Procs, NEW o \in Orders, Submit(p, o) PROVE TakenFirst'
    BY <2>1, <2>9 DEF Submit
  <2>10. ASSUME NEW p \in Procs, Acquire(p) \/ FailToBuild(p) \/ SkipDuplicate(p)
         PROVE  TakenFirst'
    BY <2>1, <2>10 DEF Acquire, FailToBuild, SkipDuplicate, Return
  <2>11. ASSUME NEW p \in Procs, Returned(p) PROVE TakenFirst'
    BY <2>1, <2>11 DEF Returned, ReturnToBuyer, ReturnToExit, ReturnToSync, Finish
  <2>12. ASSUME NEW p \in Procs, StartSync(p) \/ SyncExit(p) \/ StartCheck(p)
         PROVE  TakenFirst'
    BY <2>1, <2>12 DEF StartSync, SyncExit, StartCheck
  <2>13. ASSUME NEW p \in Procs, Fetch(p) \/ Tell(p) \/ EndCheck(p) PROVE TakenFirst'
    BY <2>1, <2>13 DEF Fetch, FetchNothing, FetchTerminal, Tell, EndCheck
  <2>14. ASSUME NEW o \in Orders, GrowsOld(o) PROVE TakenFirst'
    BY <2>14 DEF GrowsOld
  <2>15. CASE UNCHANGED vars
    BY <2>15 DEF vars
  <2> QED
    BY <2>4, <2>5, <2>6, <2>7, <2>8, <2>9, <2>10, <2>11, <2>12, <2>13, <2>14, <2>15
       DEF Next, InLock, Monitor
<1> QED
  BY <1>1, <1>2, Invariance, PTL DEF Spec

\* Whatever the processes, the network and crashes do, an id gets one verdict, the
\* broker takes the order only before it, and "submitted" is said only of an order
\* the broker has.
THEOREM ImplementsVerdict == Spec => VerdictSpec
<1>1. Init => Verdict!Init
  BY DEF Init, Verdict!Init
<1>2. IInv /\ TakenFirst /\ [Next]_vars => [Verdict!Next]_(Verdict!verdictVars)
  <2> SUFFICES ASSUME IInv, TakenFirst, [Next]_vars
               PROVE  [Verdict!Next]_(Verdict!verdictVars)
    OBVIOUS
  <2> USE DEF Verdict!Next, Verdict!verdictVars, auditVars
  <2>1. ASSUME NEW p \in Procs, pc[p] = "post", BrokerTakes(Busy(p)), UNCHANGED rows
        PROVE  Verdict!Next
    <3>1. Busy(p) \in Orders /\ rows[Busy(p)] = <<>>
      BY <2>1 DEF IInv, TypeOK, Guarded, Unwritten
    <3> QED
      BY <2>1, <3>1 DEF BrokerTakes, Verdict!Take
  <2>2. ASSUME NEW p \in Procs, AppendAudit(p) PROVE Verdict!Next
    <3>1. /\ Busy(p) \in Orders /\ rows[Busy(p)] = <<>>
          /\ answer[p] \in {"submitted", "blocked"}
          /\ answer[p] = "submitted" => broker[Busy(p)] # "none"
      BY <2>2 DEF AppendAudit, IInv, TypeOK, Guarded, Unwritten, Judged, Verdicts, TakenFirst
    <3>2. Append(rows[Busy(p)], answer[p]) = <<answer[p]>>
      BY <3>1
    <3>3. rows' = [rows EXCEPT ![Busy(p)] = <<answer[p]>>] /\ UNCHANGED broker
      BY <2>2, <3>2 DEF AppendAudit
    <3> QED
      BY <3>1, <3>3 DEF Verdict!Decide
  <2>3. ASSUME NEW p \in Procs, Post(p) \/ Crash(p) PROVE [Verdict!Next]_(Verdict!verdictVars)
    BY <2>1, <2>3 DEF Post, Crash
  <2>4. ASSUME NEW o \in Orders, BrokerEnds(o) PROVE Verdict!Next
    BY <2>4 DEF BrokerEnds, Verdict!End
  <2>5. CASE UNCHANGED <<broker, rows>>
    BY <2>5
  <2> QED
    BY <2>2, <2>3, <2>4, <2>5
       DEF Next, Submit, Acquire, InLock, FailToBuild, SkipDuplicate, DecideToSend, Returned,
           ReturnToBuyer, ReturnToExit, ReturnToSync, StartSync, Monitor, SyncExit, StartCheck,
           Fetch, FetchNothing, FetchTerminal, Tell, EndCheck, GrowsOld, vars
<1> QED
  BY <1>1, <1>2, Invariance, TakenFirstInvariant, PTL DEF Spec, VerdictSpec, Verdict!Spec

-----------------------------------------------------------------------------
(* Exit rows and audit rows                                                *)

\* A submission that comes back with an id leaves a row with that id behind.
Answered == \A p \in Procs : pc[p] = "return" /\ answer[p] # "no id" => rows[Busy(p)] # <<>>

\* An exit row that append_human_exit writes with a client order id refers to a row
\* of orders_paper.jsonl, so the monitor may leave such exits alone.
THEOREM NamedExitsAreAudited == Spec => []NamedOrderIsAudited
<1>1. Init => Answered /\ NamedOrderIsAudited
  BY DEF Init, Answered, NamedOrderIsAudited
<1>2. IInv /\ Answered /\ NamedOrderIsAudited /\ [Next]_vars => (Answered /\ NamedOrderIsAudited)'
  <2> SUFFICES ASSUME IInv, Answered, NamedOrderIsAudited, [Next]_vars
               PROVE  Answered' /\ NamedOrderIsAudited'
    OBVIOUS
  <2> USE DEF Answered, NamedOrderIsAudited, Busy, Goto, auditVars, monitorVars, reportVars
  <2>1. /\ pc \in [Procs -> PCs]
        /\ job \in [Procs -> [order : Orders \cup {Free},
                              for : {"nobody", "buy", "exit", "sync", "report"}]]
        /\ answer \in [Procs -> Verdicts \cup {"none", "skipped", "no id"}]
        /\ exitRow \in [Sells -> {"none", "names order", "no order"}]
        /\ rows \in [Orders -> Seq(Verdicts)]
    BY DEF IInv, TypeOK
  <2>2. \A p \in Procs : pc[p] \in {"check", "append", "return"} => job[p].order \in Orders
    BY DEF IInv, TypeOK
  <2>3. ASSUME NEW p \in Procs, AppendAudit(p) PROVE Answered' /\ NamedOrderIsAudited'
    <3>1. Append(rows[Busy(p)], answer[p]) # <<>>
      <4>1. rows[Busy(p)] = <<>> /\ answer[p] \in {"submitted", "blocked"}
        BY <2>3 DEF AppendAudit, IInv, Guarded, Unwritten, Judged, Verdicts
      <4> QED
        BY <4>1, AppendFirst
    <3>2. \A o \in Orders : rows[o] # <<>> \/ o = job[p].order => rows'[o] # <<>>
      BY <2>1, <2>3, <3>1 DEF AppendAudit
    <3>3. NamedOrderIsAudited'
      BY <2>3, <3>2 DEF AppendAudit, Return, Orders
    <3>4. Answered'
      BY <2>1, <2>2, <2>3, <3>2 DEF AppendAudit, Return
    <3> QED
      BY <3>3, <3>4
  <2>4. ASSUME NEW p \in Procs, ReturnToExit(p) PROVE Answered' /\ NamedOrderIsAudited'
    BY <2>1, <2>2, <2>4 DEF ReturnToExit, Finish
  <2>5. ASSUME NEW p \in Procs, FailToBuild(p) \/ SkipDuplicate(p)
        PROVE  Answered' /\ NamedOrderIsAudited'
    BY <2>1, <2>2, <2>5 DEF FailToBuild, SkipDuplicate, Return
  <2>6. ASSUME NEW p \in Procs, NEW o \in Orders, Submit(p, o)
        PROVE  Answered' /\ NamedOrderIsAudited'
    BY <2>1, <2>6 DEF Submit
  <2>7. ASSUME NEW p \in Procs, Acquire(p) \/ DecideToSend(p) \/ Post(p)
        PROVE  Answered' /\ NamedOrderIsAudited'
    BY <2>1, <2>7 DEF Acquire, DecideToSend, Post
  <2>8. ASSUME NEW p \in Procs, ReturnToBuyer(p) \/ ReturnToSync(p)
        PROVE  Answered' /\ NamedOrderIsAudited'
    BY <2>1, <2>8 DEF ReturnToBuyer, ReturnToSync, Finish
  <2>9. ASSUME NEW p \in Procs, StartSync(p) \/ SyncExit(p) \/ StartCheck(p)
        PROVE  Answered' /\ NamedOrderIsAudited'
    BY <2>1, <2>9 DEF StartSync, SyncExit, StartCheck
  <2>10. ASSUME NEW p \in Procs, Fetch(p) \/ Tell(p) \/ EndCheck(p)
         PROVE  Answered' /\ NamedOrderIsAudited'
    BY <2>1, <2>10 DEF Fetch, FetchNothing, FetchTerminal, Tell, EndCheck
  <2>11. ASSUME NEW p \in Procs, Crash(p) PROVE Answered' /\ NamedOrderIsAudited'
    BY <2>1, <2>11 DEF Crash, Finish
  <2>12. ASSUME NEW o \in Orders, BrokerEnds(o) \/ GrowsOld(o)
         PROVE  Answered' /\ NamedOrderIsAudited'
    BY <2>12 DEF BrokerEnds, GrowsOld
  <2>13. CASE UNCHANGED vars
    BY <2>13 DEF vars
  <2> QED
    BY <2>3, <2>4, <2>5, <2>6, <2>7, <2>8, <2>9, <2>10, <2>11, <2>12, <2>13
       DEF Next, InLock, Returned, Monitor
<1> QED
  BY <1>1, <1>2, Invariance, PTL DEF Spec

\* One row per client order id, and one for each id an exit row names, for any number of
\* processes and crashes.
THEOREM AuditStaysConsistent == Spec => []AuditIsConsistent
<1>1. OneRowPerOrder /\ NamedOrderIsAudited => AuditIsConsistent
  BY DEF AuditIsConsistent
<1> QED
  BY <1>1, AtMostOneRow, NamedExitsAreAudited, PTL

-----------------------------------------------------------------------------
(* The broker check, when one process makes it                             *)

OneMonitor == \A p, q \in MonitorProcs : p = q

\* Only a monitor does what a monitor does, an order it syncs is still its job while it
\* is being submitted.
OnlyMonitors ==
  \A p \in Procs :
    pc[p] \in {"sync", "fetch", "tell"} \/ job[p].for = "sync" => p \in MonitorProcs

\* While it checks, the monitor knows all that has been reported, the row it has just
\* written included, and what it is about to tell has a row more than messages.
KnowsReports(p) ==
  pc[p] \in {"fetch", "tell"} =>
    \A o \in Orders : reports[o] # <<>> => <<o, broker[o]>> \in reported[p]
ToldLess(p) == pc[p] = "tell" => reports[Busy(p)] # <<>> /\ told[Busy(p)] = 0

\* ReportedOnce, by the shape of the row.
ReportedTruly ==
  \A o \in Orders :
    \/ reports[o] = <<>> /\ told[o] = 0
    \/ reports[o] = <<broker[o]>> /\ told[o] \in {0, 1}

ReportInv ==
  /\ OnlyMonitors
  /\ \A p \in Procs : KnowsReports(p) /\ ToldLess(p)
  /\ ReportedTruly

LEMMA OneElement == ASSUME NEW x PROVE <<x>> # <<>> /\ Append(<<>>, x) = <<x>> /\ <<x>>[1] = x
                                       /\ DOMAIN <<x>> = {1}
  OBVIOUS

LEMMA InitReport == Init => ReportInv
<1> SUFFICES ASSUME Init PROVE ReportInv
  OBVIOUS
<1>1. OnlyMonitors
  BY DEF Init, OnlyMonitors, NoJob
<1>2. \A p \in Procs : KnowsReports(p) /\ ToldLess(p)
  BY DEF Init, KnowsReports, ToldLess
<1>3. ReportedTruly
  BY DEF Init, ReportedTruly
<1> QED
  BY <1>1, <1>2, <1>3 DEF ReportInv

\* A reported order has come to its end, so the broker does not change it any more.
LEMMA ReportedHasEnded ==
  ASSUME TypeOK, ReportedTruly, NEW o \in Orders, reports[o] # <<>>
  PROVE  broker[o] \in Terminal
<1>1. reports[o] = <<broker[o]>> /\ reports[o] \in Seq(Terminal)
  BY DEF ReportedTruly, TypeOK
<1> QED
  BY <1>1, OneElement

\* Steps that report and tell nothing, and let no process begin to.
LEMMA ReportStays ==
  ASSUME TypeOK, ReportInv, UNCHANGED reportVars,
         \A o \in Orders : reports[o] # <<>> => broker'[o] = broker[o],
         \A p \in Procs :
           /\ pc'[p] \in {"sync", "fetch", "tell"} \/ job'[p].for = "sync" =>
                pc[p] \in {"sync", "fetch", "tell"} \/ job[p].for = "sync"
           /\ pc'[p] \in {"fetch", "tell"} =>
                pc'[p] = pc[p] /\ reported'[p] = reported[p] /\ job'[p] = job[p]
  PROVE  ReportInv'
<1>1. reports' = reports /\ told' = told
  BY DEF reportVars
<1>2. OnlyMonitors'
  BY DEF ReportInv, OnlyMonitors
<1>3. \A p \in Procs : KnowsReports(p)' /\ ToldLess(p)'
  BY <1>1 DEF ReportInv, KnowsReports, ToldLess, Busy
<1>4. ReportedTruly'
  BY <1>1 DEF ReportInv, ReportedTruly
<1> QED
  BY <1>2, <1>3, <1>4 DEF ReportInv

LEMMA NextReport ==
  ASSUME OneMonitor, TypeOK, ReportInv, [Next]_vars
  PROVE  ReportInv'
<1> USE DEF Goto, Busy, auditVars, reportVars, monitorVars
<1>1. /\ pc \in [Procs -> PCs] /\ told \in [Orders -> Nat]
      /\ job \in [Procs -> [order : Orders \cup {Free},
                            for : {"nobody", "buy", "exit", "sync", "report"}]]
      /\ reports \in [Orders -> Seq(Terminal)] /\ broker \in [Orders -> Statuses]
      /\ reported \in [Procs -> SUBSET (Orders \X Terminal)]
  BY DEF TypeOK
<1>2. \A o \in Orders : reports[o] # <<>> => broker[o] \notin {"none", "working"}
  BY ReportedHasEnded, TerminalAssumption DEF ReportInv
<1>3. \A o \in Orders : BrokerTakes(o) =>
        \A u \in Orders : reports[u] # <<>> => broker'[u] = broker[u]
  BY <1>1, <1>2 DEF BrokerTakes
<1>4. ASSUME NEW p \in Procs, NEW o \in Orders, Submit(p, o) PROVE ReportInv'
  BY <1>1, <1>4, ReportStays DEF Submit, Job
<1>5. ASSUME NEW p \in Procs, Acquire(p) \/ FailToBuild(p) \/ SkipDuplicate(p) PROVE ReportInv'
  BY <1>1, <1>5, ReportStays DEF Acquire, FailToBuild, SkipDuplicate, Return
<1>6. ASSUME NEW p \in Procs, DecideToSend(p) \/ AppendAudit(p) PROVE ReportInv'
  BY <1>1, <1>6, ReportStays DEF DecideToSend, AppendAudit, Return
<1>7. ASSUME NEW p \in Procs, Post(p) PROVE ReportInv'
  <2>1. /\ pc[p] = "post" /\ pc' = [pc EXCEPT ![p] = "append"]
        /\ BrokerTakes(job[p].order) \/ UNCHANGED broker
        /\ UNCHANGED <<reports, told, reported, job>>
    BY <1>7 DEF Post
  <2>2. job[p].order \in Orders
    BY <2>1 DEF TypeOK
  <2>3. \A o \in Orders : reports[o] # <<>> => broker'[o] = broker[o]
    BY <1>3, <2>1, <2>2
  <2> QED
    BY <1>1, <2>1, <2>3, ReportStays
<1>8. ASSUME NEW p \in Procs, ReturnToBuyer(p) \/ ReturnToExit(p) PROVE ReportInv'
  <2>1. /\ pc' = [pc EXCEPT ![p] = "idle"] /\ job' = [job EXCEPT ![p] = NoJob]
        /\ UNCHANGED <<broker, reports, told, reported>>
    BY <1>8 DEF ReturnToBuyer, ReturnToExit, Finish
  <2> QED
    BY <1>1, <2>1, ReportStays DEF NoJob
<1>9. ASSUME NEW p \in Procs, ReturnToSync(p) PROVE ReportInv'
  BY <1>1, <1>9, ReportStays DEF ReturnToSync, Finish, NoJob
<1>10. ASSUME NEW p \in Procs, StartSync(p) PROVE ReportInv'
  <2>1. /\ p \in MonitorProcs /\ pc' = [pc EXCEPT ![p] = "sync"]
        /\ UNCHANGED <<broker, reports, told, job, reported>>
    BY <1>10 DEF StartSync
  <2>2. OnlyMonitors'
    BY <1>1, <2>1 DEF ReportInv, OnlyMonitors
  <2>3. \A q \in Procs : KnowsReports(q)' /\ ToldLess(q)'
    BY <1>1, <2>1 DEF ReportInv, KnowsReports, ToldLess
  <2>4. ReportedTruly'
    BY <2>1 DEF ReportInv, ReportedTruly
  <2> QED
    BY <2>2, <2>3, <2>4 DEF ReportInv
<1>11. ASSUME NEW p \in Procs, SyncExit(p) PROVE ReportInv'
  BY <1>1, <1>11, ReportStays DEF SyncExit, Job
<1>12. ASSUME NEW p \in Procs, StartCheck(p) PROVE ReportInv'
  <2>1. /\ pc[p] = "sync" /\ UNCHANGED <<broker, reports, told, job>>
        /\ \A q \in Procs \ {p} : pc'[q] = pc[q] /\ reported'[q] = reported[q]
    BY <1>1, <1>12 DEF StartCheck
  <2>2. \/ pc'[p] = "idle"
        \/ /\ pc'[p] = "fetch"
           /\ reported'[p] = {key \in Orders \X Terminal :
                                \E i \in DOMAIN reports[key[1]] : reports[key[1]][i] = key[2]}
    BY <1>1, <1>12 DEF StartCheck
  <2>3. ASSUME pc'[p] = "fetch", NEW o \in Orders, reports[o] # <<>>
        PROVE  <<o, broker[o]>> \in reported'[p]
    <3>1. reports[o] = <<broker[o]>> /\ broker[o] \in Terminal
      BY <2>3, ReportedHasEnded DEF ReportInv, ReportedTruly
    <3>2. 1 \in DOMAIN reports[o] /\ reports[o][1] = broker[o]
      BY <3>1, OneElement
    <3> QED
      BY <2>2, <2>3, <3>1, <3>2
  <2>4. OnlyMonitors'
    BY <2>1, <2>2 DEF ReportInv, OnlyMonitors
  <2>5. ASSUME NEW q \in Procs PROVE KnowsReports(q)' /\ ToldLess(q)'
    <3>1. CASE q = p
      BY <2>1, <2>2, <2>3, <3>1 DEF KnowsReports, ToldLess
    <3>2. CASE q # p
      BY <2>1, <3>2 DEF ReportInv, KnowsReports, ToldLess
    <3> QED
      BY <3>1, <3>2
  <2>6. ReportedTruly'
    BY <2>1 DEF ReportInv, ReportedTruly
  <2> QED
    BY <2>4, <2>5, <2>6 DEF ReportInv
<1>13. ASSUME NEW p \in Procs, NEW o \in Orders, FetchNothing(p, o) PROVE ReportInv'
  BY <1>1, <1>13, ReportStays DEF FetchNothing
<1>14. ASSUME NEW p \in Procs, NEW o \in Orders, FetchTerminal(p, o) PROVE ReportInv'
  <2>1. /\ pc[p] = "fetch" /\ pc' = [pc EXCEPT ![p] = "tell"]
        /\ broker[o] \in Terminal /\ <<o, broker[o]>> \notin reported[p]
        /\ reports' = [reports EXCEPT ![o] = Append(@, broker[o])]
        /\ reported' = [reported EXCEPT ![p] = @ \cup {<<o, broker[o]>>}]
        /\ job' = [job EXCEPT ![p] = Job(o, "report")]
        /\ UNCHANGED <<broker, told>>
    BY <1>14 DEF FetchTerminal
  <2>2. reports[o] = <<>> /\ told[o] = 0
    <3>1. reports[o] = <<>>
      BY <2>1 DEF ReportInv, KnowsReports
    <3> QED
      BY <3>1, OneElement DEF ReportInv, ReportedTruly
  <2>3. reports'[o] = <<broker[o]>> /\ \A u \in Orders \ {o} : reports'[u] = reports[u]
    BY <1>1, <2>1, <2>2, OneElement
  <2>4. p \in MonitorProcs
    BY <2>1 DEF ReportInv, OnlyMonitors
  <2>5. \A q \in Procs \ {p} : pc'[q] \notin {"sync", "fetch", "tell"} /\ pc'[q] = pc[q]
                               /\ job'[q] = job[q]
    BY <1>1, <2>1, <2>4 DEF ReportInv, OnlyMonitors, OneMonitor
  <2>6. /\ pc'[p] = "tell" /\ job'[p].order = o /\ job'[p].for = "report"
        /\ reported'[p] = reported[p] \cup {<<o, broker[o]>>}
    BY <1>1, <2>1 DEF Job
  <2>7. OnlyMonitors'
    BY <2>4, <2>5, <2>6 DEF ReportInv, OnlyMonitors
  <2>8. KnowsReports(p)' /\ ToldLess(p)'
    BY <2>1, <2>2, <2>3, <2>6, OneElement DEF ReportInv, KnowsReports, ToldLess
  <2>9. \A q \in Procs : KnowsReports(q)' /\ ToldLess(q)'
    BY <2>5, <2>8 DEF KnowsReports, ToldLess
  <2>10. ReportedTruly'
    BY <2>1, <2>2, <2>3 DEF ReportInv, ReportedTruly
  <2> QED
    BY <2>7, <2>9, <2>10 DEF ReportInv
<1>15. ASSUME NEW p \in Procs, Tell(p) PROVE ReportInv'
  <2>1. /\ pc[p] = "tell" /\ pc' = [pc EXCEPT ![p] = "fetch"]
        /\ UNCHANGED <<broker, reports, reported>>
        /\ job' = [job EXCEPT ![p] = NoJob]
        /\ told' = [told EXCEPT ![job[p].order] = @ + 1] \/ told' = told
    BY <1>15 DEF Tell
  <2>2. /\ p \in MonitorProcs /\ job[p].order \in Orders
        /\ reports[job[p].order] # <<>> /\ told[job[p].order] = 0
    BY <2>1 DEF ReportInv, OnlyMonitors, ToldLess, TypeOK
  <2>3. \A q \in Procs \ {p} : pc'[q] \notin {"sync", "fetch", "tell"} /\ pc'[q] = pc[q]
                               /\ job'[q] = job[q]
    BY <1>1, <2>1, <2>2 DEF ReportInv, OnlyMonitors, OneMonitor
  <2>4. pc'[p] = "fetch" /\ job'[p].for = "nobody"
    BY <1>1, <2>1 DEF NoJob
  <2>5. OnlyMonitors'
    BY <2>2, <2>3, <2>4 DEF ReportInv, OnlyMonitors
  <2>6. \A q \in Procs : KnowsReports(q)' /\ ToldLess(q)'
    BY <2>1, <2>3, <2>4 DEF ReportInv, KnowsReports, ToldLess
  <2>7. told[job[p].order] + 1 = 1
    BY <2>2
  <2>8. \A o \in Orders : told'[o] = told[o] \/ (o = job[p].order /\ told'[o] = 1)
    BY <1>1, <2>1, <2>2, <2>7
  <2>9. ReportedTruly'
    BY <2>1, <2>2, <2>8 DEF ReportInv, ReportedTruly
  <2> QED
    BY <2>5, <2>6, <2>9 DEF ReportInv
<1>16. ASSUME NEW p \in Procs, EndCheck(p) PROVE ReportInv'
  BY <1>1, <1>16, ReportStays DEF EndCheck
<1>17. ASSUME NEW p \in Procs, Crash(p) PROVE ReportInv'
  <2>1. /\ pc' = [pc EXCEPT ![p] = "idle"] /\ job' = [job EXCEPT ![p] = NoJob]
        /\ UNCHANGED broker \/ (pc[p] = "post" /\ BrokerTakes(job[p].order))
        /\ reported' = [reported EXCEPT ![p] = {}]
        /\ UNCHANGED <<reports, told>>
    BY <1>17 DEF Crash, Finish
  <2>2. \A o \in Orders : reports[o] # <<>> => broker'[o] = broker[o]
    BY <1>3, <2>1 DEF TypeOK
  <2>3. \A q \in Procs \ {p} : pc'[q] = pc[q] /\ job'[q] = job[q] /\ reported'[q] = reported[q]
    BY <1>1, <2>1
  <2>4. pc'[p] = "idle" /\ job'[p].for = "nobody"
    BY <1>1, <2>1 DEF NoJob
  <2> QED
    BY <2>1, <2>2, <2>3, <2>4, ReportStays
<1>18. ASSUME NEW o \in Orders, BrokerEnds(o) PROVE ReportInv'
  BY <1>1, <1>2, <1>18, ReportStays DEF BrokerEnds
<1>19. ASSUME NEW o \in Orders, GrowsOld(o) PROVE ReportInv'
  BY <1>19, ReportStays DEF GrowsOld
<1>20. CASE UNCHANGED vars
  BY <1>20, ReportStays DEF vars
<1> QED
  BY <1>4, <1>5, <1>6, <1>7, <1>8, <1>9, <1>10, <1>11, <1>12, <1>13, <1>14, <1>15, <1>16, <1>17,
     <1>18, <1>19, <1>20 DEF Next, InLock, Returned, Monitor, Fetch

\* While one process watches the broker, an order's end is reported once and as it was,
\* and told at most once, whatever crashes come between the row and the message.
THEOREM OneMonitorReportsOnce ==
  ASSUME OneMonitor PROVE Spec => []ReportedOnce
<1>1. ReportedTruly => ReportedOnce
  <2> SUFFICES ASSUME ReportedTruly, NEW o \in Orders
               PROVE  reports[o] \in {<<>>, <<broker[o]>>} /\ told[o] <= Len(reports[o])
    BY DEF ReportedOnce
  <2>1. CASE reports[o] = <<>> /\ told[o] = 0
    BY <2>1
  <2>2. CASE reports[o] = <<broker[o]>> /\ told[o] \in {0, 1}
    <3>1. Len(<<broker[o]>>) = 1
      OBVIOUS
    <3> QED
      BY <2>2, <3>1
  <2> QED
    BY <2>1, <2>2 DEF ReportedTruly
<1>2. TypeOK /\ ReportInv /\ [Next]_vars => ReportInv'
  BY OneMonitor, NextReport
<1>3. ReportInv => ReportedTruly
  BY DEF ReportInv
<1> QED
  BY <1>1, <1>2, <1>3, InitReport, TypeCorrect, PTL DEF Spec

=============================================================================
