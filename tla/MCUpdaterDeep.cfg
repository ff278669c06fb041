SPECIFICATION FairSpec
CONSTANTS
  city = city
  tor = tor
  Source <- MCSource
  Required <- MCRequired
  OutdatedAfter <- MCDeepOutdatedAfter
  EnabledSets <- MCDeepEnabledSets
  RetryLadder <- MCRetryLadder
  StartAts <- MCStartAts
  FullSyncInterval = 4
  FirstClock = 1
  MaxClock = 7
INVARIANTS
  RetryMatchesFailures
  NextSyncIsLater
PROPERTY DueSyncRuns
CHECK_DEADLOCK FALSE
