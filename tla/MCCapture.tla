----------------------------- MODULE MCCapture -----------------------------
(* A small instance of Capture for TLC. *)
EXTENDS Capture

Buy  == [kind |-> "entry", what |-> 1]
Sell == [kind |-> "exit", what |-> 1]
Add  == [kind |-> "add", what |-> 1]
Hm   == [kind |-> "talk", what |-> 1]

\* An alert to which an addition may be added, and below it, without a header of its
\* own, a reply that quotes the alert and closes it, in one part or two.
Alert == {<<Buy>>, <<Buy, Hm, Add>>}
Sell2 == [kind |-> "exit", what |-> 2]
Reply == {<<Buy, Sell>>, <<Buy, Sell, Sell2>>}
WordingsOfTwo == <<Alert, Reply>>
FirstOnly == {1}
BothModes == {"mark", "live"}

=============================================================================
