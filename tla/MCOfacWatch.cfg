SPECIFICATION Spec
CONSTANTS
  cuba = cuba
  sdgt = sdgt
  watcher = watcher
  app = app
  alert = alert
  sdn = sdn
  order = order
  region = region
  Program <- MCProgram
  Anchor <- MCAnchor
  Caller <- MCCaller
  Message = {alert}
  Watcher = watcher
  NoMessage = NoMessage
  None = None
  QueueSize = 1
  List <- MCList
  Lists <- MCLists
  Term <- MCTerm
  Contents <- MCContents
  Finds <- MCFinds
  FederalRegisterMax = 1
  LastDocument = 2
  FailureAlertThreshold = 2
  MaxFailures = 3
CHECK_DEADLOCK FALSE
INVARIANTS
  CloseWaits
  AlertedBeforeSaved
  DocumentsTold
  NewsMatchesSnapshot
  FailureStreakTold
