----------------------------- MODULE MCLiveLoop ----------------------------
(* Small instances of LiveLoop for TLC. *)
EXTENDS LiveLoop

Message(from, says, to) == [from |-> from, says |-> says, to |-> to]

\* a skip and a stop that is no number
WithUnreadable == <<Message("owner", "skip", 1), Message("owner", "unreadable", NoCard)>>

=============================================================================
