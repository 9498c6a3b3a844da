------------------------------ MODULE EntryOnce ------------------------------
(***************************************************************************)
(* What the routing of an alert promises, whichever capture sources saw it *)
(* and however it was interrupted: one shadow position, buys only after it *)
(* and only until the local position is recorded, and one such position.   *)
(* Nothing is promised of an alert that two processes handle at once.      *)
(***************************************************************************)
EXTENDS Naturals

CONSTANT Entries   \* alerts, by canonical entry key

VARIABLES
  shadowed,  \* shadow rows of an entry
  bought,    \* buy orders the broker holds for it
  recorded,  \* local position rows
  shared     \* entries two processes had in hand at the same time

entryVars == <<shadowed, bought, recorded, shared>>

Init ==
  /\ shadowed = [e \in Entries |-> 0]
  /\ bought = [e \in Entries |-> 0]
  /\ recorded = [e \in Entries |-> 0]
  /\ shared = {}

Shadow(e) ==
  /\ e \in shared \/ shadowed[e] = 0
  /\ shadowed' = [shadowed EXCEPT ![e] = @ + 1]
  /\ UNCHANGED <<bought, recorded, shared>>

Buy(e) ==
  /\ e \in shared \/ (shadowed[e] = 1 /\ recorded[e] = 0)
  /\ bought' = [bought EXCEPT ![e] = @ + 1]
  /\ UNCHANGED <<shadowed, recorded, shared>>

Record(e) ==
  /\ e \in shared \/ (bought[e] > 0 /\ recorded[e] = 0)
  /\ recorded' = [recorded EXCEPT ![e] = @ + 1]
  /\ UNCHANGED <<shadowed, bought, shared>>

Share(e) ==
  /\ shared' = shared \cup {e}
  /\ UNCHANGED <<shadowed, bought, recorded>>

Next == \E e \in Entries : Shadow(e) \/ Buy(e) \/ Record(e) \/ Share(e)

Spec == Init /\ [][Next]_entryVars

=============================================================================
