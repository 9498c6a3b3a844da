\* One card, two messages, the second one unreadable; the P/L due once, a second start
\* of the nightly review, a refusal, a torn line, a crash, and a failed append or kill.
SPECIFICATION LoopSpec
CONSTANTS
  CardCount = 1
  Messages <- WithUnreadable
  MaxCrashes = 1
  Owners = {owner}
  Groups = {group}
  MaxReviews = 2
  MaxRefusals = 1
  MaxSlips = 1
  MaxFaults = 1
INVARIANTS ReportsAreTold
PROPERTIES TasksGetTheirTurn PlIsTold
CHECK_DEADLOCK FALSE
