SPECIFICATION Spec
CONSTANTS
  asn = asn
  blocks = blocks
  Source <- MCSource
  Required = {}
  AnyOf <- MCSource
  OutdatedAfter <- MCOutdatedAfter
  EnabledSets <- MCEnabledSets
  RetryLadder <- MCRetryLadder
  StartAts <- MCStartAts
  FullSyncInterval = 2
  FirstClock = 2
  MaxClock = 5
PROPERTY DatasetCanAlwaysStart
CHECK_DEADLOCK FALSE
