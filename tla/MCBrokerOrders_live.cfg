\* Fairness: statuses get reported, exits get sent.
SPECIFICATION FairSpec
CONSTANTS
  live = live
  browser = browser
  buy = buy
  sell = sell
  Free = Free
  Procs <- Live
  MonitorProcs <- Live
  Buys <- OneBuy
  Sells <- OneSell
  Terminal <- OneEnd
  MaxCrashes = 1
PROPERTIES EndIsReported ExitIsSent
