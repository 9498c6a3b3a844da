---------------------------- MODULE OrderVerdict ----------------------------
(***************************************************************************)
(* What the paper order audit promises about one client order id, with no  *)
(* process, lock or network: the id reaches a verdict at most once, the    *)
(* broker takes the order only while the verdict is open, and "submitted"  *)
(* is said only of an order the broker has.                                *)
(***************************************************************************)
EXTENDS Sequences

CONSTANTS Orders, Terminal

VARIABLES
  broker,   \* the broker's view of an order: "none", "working" or terminal
  rows      \* statuses of the audit rows of an order

verdictVars == <<broker, rows>>

Init ==
  /\ broker = [o \in Orders |-> "none"]
  /\ rows = [o \in Orders |-> <<>>]

Take(o) ==
  /\ rows[o] = <<>>
  /\ broker[o] = "none"
  /\ broker' = [broker EXCEPT ![o] = "working"]
  /\ UNCHANGED rows

End(o) ==
  /\ broker[o] = "working"
  /\ \E s \in Terminal : broker' = [broker EXCEPT ![o] = s]
  /\ UNCHANGED rows

Decide(o) ==
  /\ rows[o] = <<>>
  /\ \E v \in {"submitted", "blocked"} :
       /\ v = "submitted" => broker[o] # "none"
       /\ rows' = [rows EXCEPT ![o] = <<v>>]
  /\ UNCHANGED broker

Next == \E o \in Orders : Take(o) \/ End(o) \/ Decide(o)

Spec == Init /\ [][Next]_verdictVars

=============================================================================
