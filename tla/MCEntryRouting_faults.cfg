\* One process that may crash twice; a late capture among three of one alert.
SPECIFICATION FairSpec
CONSTANTS
  live = live
  browser = browser
  banner = banner
  page = page
  late = late
  NoRaw = NoRaw
  Workers <- Live
  BotWorkers <- Live
  Raws <- TwinsAndLate
  EntryOf <- EntryOfLate
  Stale <- LateOnly
  MaxCrashes = 2
  MaxLosses = 1
INVARIANTS HandledByAge OneBuyUnlessFault
PROPERTIES OnceSpec EveryRawIsProcessed BuyIsRecordedUnlessCrashed
