\* Two messages, edits, a crash or an exception; started with and without marking.
SPECIFICATION FairSpec
CONSTANTS
  LastMessage = 2
  Wordings <- WordingsOfTwo
  Named <- FirstOnly
  MayLackTime = {1, 2}
  StartModes <- BothModes
  MaxEdits = 2
  MaxFaults = 1
INVARIANTS RecordsAreSound SeenIsCaptured
PROPERTIES NamedWordingsAreCaptured
