\* One capture, from either source and of either kind, and a trouble.
SPECIFICATION Spec
CONSTANTS
  Captures = {"c1"}
  AlertOf <- EachItsAlert
  ChannelOf <- OneChannel
  FaultModes <- NoHeartbeat
  MaxTroubles = 1
INVARIANTS TypeOK KnownIsTold StallIsFound
PROPERTIES FoundWasLate ToldTrueInTheEnd
CHECK_DEADLOCK FALSE
