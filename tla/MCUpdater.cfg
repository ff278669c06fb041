SPECIFICATION Spec
CONSTANTS
  city = city
  tor = tor
  Source <- MCSource
  Required <- MCRequired
  OutdatedAfter <- MCOutdatedAfter
  EnabledSets <- MCEnabledSets
  RetryLadder <- MCRetryLadder
  StartAts <- MCStartAts
  FullSyncInterval = 2
  FirstClock = 2
  MaxClock = 5
INVARIANTS
  SavedStateLoads
  RefusedOnlyAfterTornCommit
  AvailableMatchesFiles
  OutdatedIsJustified
  ExpiredCopyIsDropped
PROPERTIES
  KeepsLedger
CHECK_DEADLOCK FALSE
