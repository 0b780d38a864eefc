SPECIFICATION ServingSpec
CONSTANTS
  Addresses = {a1, a2}
  Loops = {l1, l2, l3}
  Conns = {c1, c2}
  c2 = c2
  MaxGen = 3
  MaxCapacity = 4
  MaxWaiters = 3
  MaxScopes = 3
  Tasks = {task}
  Cooperative <- MCCooperative
  SecretReads <- MCReads
  RetireLimit = 2
  MaxRotations = 1
  MaxCancels = 1
  LogFiles = {"f"}
  Policies <- MCPolicies
  QueueLimit = 1
  WriterLimit = 2
  MaxLogLines = 1
  MaxWriters = 2
  MaxStages = 2
INVARIANTS ServerSound  PluginsSound SinksSound
PROPERTIES  ServingEnds
CHECK_DEADLOCK FALSE
