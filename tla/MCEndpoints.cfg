SPECIFICATION EndpointsSpec
CONSTANTS
  Targets = {"name", "address"}
  Names = {"name"}
  Wires = {"plain", "tls"}
  Secured = {"tls"}
  Checks = {"check"}
  NoCheck = "unchecked"
  Limits = {1, 2}
  Lookups = {1, 2}
  Offered <- Edits
  Materials = {1, 2}
  Addresses = {1, 2}
  Objects = {1, 2, 3, 4, 5, 6}
  MaxGen = 3
  StreamCallers = {s1, s2}
  StreamConfigs <- MCStreamConfigs
  StreamFirst <- MCStreamFirst
  StreamAnswers <- MCAnswers
  StreamStart = {"a"}
  PeerLimits = {0, 2}
  PeerLimit = 2
  ConnIds = {1, 2, 3}
  StreamUpdates = 1
INVARIANTS PlanFollowed 
PROPERTIES CompatibleKept AdmitsWithinLimits ResolverConverges
