SPECIFICATION Spec
CONSTANTS
  city = city
  tor = tor
  Source <- MCSource
  Required <- MCRequired
  OutdatedAfter <- MCOutdatedAfter
  EnabledSets <- MCEnabledSets
  RetryLadder <- MCRetryLadder
  StartAts <- MCFutureStartAts
  FullSyncInterval = 2
  FirstClock = 2
  MaxClock = 5
INVARIANT SavedStateLoads
CHECK_DEADLOCK FALSE
