SPECIFICATION FairSpec
CONSTANTS
  ann = ann
  bob = bob
  Request <- MCRequest
  MaxSyncs = 2
CHECK_DEADLOCK FALSE
INVARIANTS ReadersSeeOpenDataset CleanupSeesOpenStore LateOnlyAfterTimeout
           NothingLeftOpen ServesLatest NoQuietEnd
PROPERTIES KeepsServing EndsWhenItMust UpdaterNeverStuck
