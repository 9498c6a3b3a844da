\* Two positions in one contract, and two processes that handle exits of either.
SPECIFICATION Spec
CONSTANTS
  Procs <- LiveAndBrowser
  RulesProcs <- Live
  Positions <- TwoPositions
  Shadows <- TwoShadows
  Contracts <- TwoAndOne
  FirstTake <- Take80And120
  StopPercent <- Stop35And35
  ShadowContracts <- TwoAndOne
  LinkedTo <- FirstFollowedTwice
  TrackedBy <- OwnShadows
  Marks <- FlatAndTwoRungs
  SteveAlerts <- SellsOne
  MaxCrashes = 1
INVARIANTS NoOversell BrokerNotOversold
PROPERTIES LedgerSpec SteveNeverOvertakes
