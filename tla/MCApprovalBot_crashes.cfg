\* Two cards, six messages, the last one unreadable, up to two crashes.
SPECIFICATION FairSpec
CONSTANTS
  CardCount = 2
  Messages <- Mixed
  MaxCrashes = 2
INVARIANTS DecidedOnce OneCardPerMessage AcknowledgedIsAudited
PROPERTY RepliesBeforeUnreadableAreAudited
