----------------------------- MODULE ExitLedger -----------------------------
(***************************************************************************)
(* What the local exit ledger promises, with no process, broker or file:   *)
(* every exit moves a position's closed amount up to a target the policy   *)
(* names (docs/EXIT_STRATEGY.md): the whole position on the stop, a        *)
(* rung of its take-profit ladder, or as much as Steve himself has closed. *)
(* Nothing but that it sells more is promised of a position that two       *)
(* processes handle at the same time.                                      *)
(***************************************************************************)
EXTENDS ExitPlan

CONSTANTS
  Positions,   \* local paper positions
  Shadows,     \* Steve's own positions, as recorded when he announced them
  Contracts,   \* contracts bought for each position
  FirstTake,   \* percent of the first take-profit target of each position
  LinkedTo     \* the shadows whose exits a position follows

VARIABLES
  closed,      \* contracts the ledger has closed, per position
  steveClosed, \* contracts Steve has announced closed, per shadow
  shared       \* positions two processes have handled at the same time

ledgerVars == <<closed, steveClosed, shared>>

Smaller(a, b) == IF a < b THEN a ELSE b

PlanOf(pos) == ExitPlanForContracts(Contracts[pos], FirstTake[pos])

LegalTargets(pos) ==
  {Contracts[pos]}
    \cup {LadderTarget(PlanOf(pos), k) : k \in DOMAIN PlanOf(pos)}
    \cup {Smaller(Contracts[pos], steveClosed[s]) : s \in LinkedTo[pos]}

Init ==
  /\ closed = [pos \in Positions |-> 0]
  /\ steveClosed = [s \in Shadows |-> 0]
  /\ shared = {}

\* A second process sets about positions that a first still handles.
MayOverlap == shared \subseteq shared' /\ shared' \subseteq Positions

Overlap == MayOverlap /\ UNCHANGED <<closed, steveClosed>>

\* Steve announces that he has closed more, perhaps to a second process.
SteveCloses(s) ==
  /\ steveClosed'[s] > steveClosed[s]
  /\ steveClosed' = [steveClosed EXCEPT ![s] = steveClosed'[s]]
  /\ MayOverlap
  /\ UNCHANGED closed

\* One exit row: the position is brought up to a legal target, never past it.
CloseUpTo(pos) ==
  /\ closed'[pos] > closed[pos]
  /\ pos \in shared \/ closed'[pos] \in LegalTargets(pos)
  /\ closed' = [closed EXCEPT ![pos] = closed'[pos]]
  /\ UNCHANGED <<steveClosed, shared>>

Next ==
  \/ Overlap
  \/ \E s \in Shadows : SteveCloses(s)
  \/ \E pos \in Positions : CloseUpTo(pos)

Spec == Init /\ [][Next]_ledgerVars

=============================================================================
