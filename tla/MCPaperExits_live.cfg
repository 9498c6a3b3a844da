\* Fairness: the rules and Steve's exits, with one crash.
SPECIFICATION FairSpec
CONSTANTS
  Procs <- Live
  RulesProcs <- Live
  Positions <- OnePosition
  Shadows <- OneShadow
  Contracts <- Two
  FirstTake <- Take80
  StopPercent <- Stop35
  ShadowContracts <- Three
  LinkedTo <- OwnShadow
  TrackedBy <- OwnShadow
  Marks <- TwoRungMarks
  SteveAlerts <- SellsOneTwice
  MaxCrashes = 1
PROPERTIES StopCloses LadderSells SteveIsFollowedUnlessCrashed
