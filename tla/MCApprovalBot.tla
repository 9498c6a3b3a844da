--------------------------- MODULE MCApprovalBot ---------------------------
(* Small instances of ApprovalBot for TLC. *)
EXTENDS ApprovalBot

Message(from, says, to) == [from |-> from, says |-> says, to |-> to]

\* two replies to the first card, a plain buy, a rejected text, a
\* stranger, and a stop that is no number
Mixed == <<Message("owner", "skip", 1), Message("owner", "buy", NoCard),
           Message("owner", "bad", NoCard), Message("owner", "buy", 1),
           Message("other", "buy", 2), Message("owner", "unreadable", NoCard)>>

=============================================================================
