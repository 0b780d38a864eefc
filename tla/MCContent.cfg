SPECIFICATION ContentSpec
CONSTANTS
  MillisPer <- MCMillis
  BytesPer <- MCBytes
  WordLimit = 2000000000
  ShortLimit = 1000000000
  BalanceDefault = "round-robin"
  LocalTops = {"local"}
  LocalAddresses = {}
  Width <- MCWidth
  Directives <- StdMeta
  NameBefore <- MCBefore
  DrainLimit = 1000000
  Missing = {}
  InlineLimit = 2
  MaxListed = 4
  Callers = {"c1"}
  Questions <- MCQuestions
  Configs <- MCConfigs
  Replies <- MCReplies
  Verdicts <- MCVerdicts
  Tree <- MCTree
  FirstDisk <- MCDisk
  Edited <- MCEdited
  Scale = 2
  MaxClock = 1
  MaxWrites = 1
  MaxReloads = 1
  Clients = {c1, c2, c3}
  Targets = {"t", "u"}
  Fetches <- MCFetches
  Offers <- MCOffers
  MaxBytes = 3
  MaxEntry = 2
  MaxFills = 2
  MaxVersion = 1
  Jobs = {j1, j2, j3}
  MemoryBytes = {1, 2}
  BlockingLimits <- MCLimits
  Visits = {v1, v2}
  Runtimes = 2
  CgiConfigs <- MCCgiConfigs
  CgiAsks <- MCCgiAsks
  Scripts <- MCScripts
SYMMETRY ClientSymmetry
INVARIANTS   CacheSound BudgetAccounts CgiSound
PROPERTIES ServesNoOverwritten AdmitsWithinBudget
CHECK_DEADLOCK FALSE
