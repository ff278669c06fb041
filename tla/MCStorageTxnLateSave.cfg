SPECIFICATION Spec
CONSTANTS
  city = city
  asn = asn
  tor = tor
  NoSource = NoSource
  Source <- MCSource
CHECK_DEADLOCK FALSE
INVARIANT StoreLoads
