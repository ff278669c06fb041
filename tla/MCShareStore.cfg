SPECIFICATION FairSpec
CONSTANTS
  red = red
  ann = ann
  bob = bob
  eve = eve
  Key <- MCKey
  Caller <- MCCaller
  NoKey = NoKey
  NoOne = NoOne
  NoRow = NoRow
  TTL = 2
  MaxVisits = 2
  MaxClock = 4
CHECK_DEADLOCK FALSE
INVARIANTS KeptUntilExpiry VisitsCounted
PROPERTIES ShownInTime CallsEnd
