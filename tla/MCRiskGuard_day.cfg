\* Two processes, one without dry runs, four alerts one of which is a test's, a limit of two trades.
SPECIFICATION Spec
CONSTANTS
  Deciders = {"live", "browser"}
  DryRuns = {"live"}
  Alerts = {1, 2, 3, 4}
  RawOf <- TwoInOne
  TickerOf <- ThreeTickers
  SideOf <- BothSides
  ScreenOf <- AllPass
  TestAlerts = {3}
  MaxTradesPerDay = 2
  Unorderable = {3}
  MaxFaults = 1
  MaxSweeps = 1
  Rows <- DecisionRows
  Synthetic <- TestRows
INVARIANTS LimitsPerProcess AllowedIsOrdered RowsSurvive
CHECK_DEADLOCK FALSE
