\* Two processes handle the two captures of one alert.
SPECIFICATION Spec
CONSTANTS
  live = live
  browser = browser
  banner = banner
  page = page
  late = late
  NoRaw = NoRaw
  Workers <- LiveAndBrowser
  BotWorkers <- Live
  Raws <- Twins
  EntryOf <- EntryOfTwins
  Stale <- NoneStale
  MaxCrashes = 0
  MaxLosses = 0
INVARIANT OneBuyPerEntry
