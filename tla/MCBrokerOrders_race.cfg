\* Two processes submit, one of them also watches the broker; one crash.
SPECIFICATION Spec
CONSTANTS
  live = live
  browser = browser
  buy = buy
  sell = sell
  Free = Free
  Procs <- LiveAndBrowser
  MonitorProcs <- Live
  Buys <- OneBuy
  Sells <- OneSell
  Terminal <- Ends
  MaxCrashes = 1
INVARIANTS AuditIsConsistent ReportedOnce
PROPERTY VerdictSpec
