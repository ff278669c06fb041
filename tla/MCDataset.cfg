SPECIFICATION Spec
CONSTANTS
  a1 = a1
  a2 = a2
  a3 = a3
  island = island
  host = host
  NoASN = NoASN
  Addr <- MCAddr
  Prefix <- MCPrefix
  ASN <- MCASN
  OfacASN <- MCOfac
  PossibleOfacASN <- MCPossibleOfac
  HostingASN <- MCHosting
  GeoRecord <- MCGeoRecord
  Inputs <- MCInputs
  MaxLines = 4
  NoAddr = NoAddr
  Texts <- MCTexts
  MaxIPs = 2
CHECK_DEADLOCK FALSE
INVARIANTS FactsAreNearest FlagsAreRight ReportTellsAll
