SPECIFICATION Spec
CONSTANTS
  ann = ann
  bob = bob
  eve = eve
  first = first
  second = second
  Key <- MCKey
  Watched = ann
  Caller <- MCCaller
  Limit = 2
  Window = 3
  MaxKeys = 2
  MaxWait = 1
  MaxClock = 6
CHECK_DEADLOCK FALSE
SYMMETRY MCSymmetry
INVARIANTS TwiceTheLimit
PROPERTIES WindowsSpaced RefusedForAReason
