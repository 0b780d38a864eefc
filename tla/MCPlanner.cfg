SPECIFICATION PlannerSpec
CONSTANTS
  MillisPer <- MCMillis
  BytesPer <- MCBytes
  WordLimit = 2000000000
  ShortLimit = 1000000000
  BalanceDefault = "round-robin"
  LocalTops = {"local"}
  LocalAddresses = {}
  Width <- MCWidth
  Directives <- MCDirectives
  NameBefore <- MCBefore
  DrainLimit = 1000000
  Entries <- MCEntries
  MaxEntries = 3
  MaxReloads = 2
  Requests <- MCRequests
  BuildHash = "build"
INVARIANTS RoutingSound
 
CHECK_DEADLOCK FALSE
