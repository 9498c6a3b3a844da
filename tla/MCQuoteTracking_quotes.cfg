\* One position, five ticks of open market, two cycles cut off.
CONSTANTS
  Positions = {1}
  Prices <- MCPrices
  EntryPrice <- MCEntryPrice
  SellsAt <- MCSellsAt
  Milestones <- MCMilestones
  MovePct = 5
  Checkpoint = 3
  StaleAfter = 3
  Close = 5
  Midnight = 6
  MaxCuts = 2
SPECIFICATION Spec
INVARIANTS
  TypeOK
  RowsFollowThePrice
  StateFollowsThePrice
  JudgedIsNewest
  ExitIsOnRecord
CHECK_DEADLOCK FALSE
