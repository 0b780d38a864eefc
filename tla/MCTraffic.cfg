SPECIFICATION TrafficSpec
CONSTANTS
  Slots = {1, 2}
  Ports <- MCPorts
  Hosts = {"far", "near"}
  TrustedHosts = {"near"}
  NoHost = "none"
  MaxBody = 2
  FrameSizes = {1, 2}
  MaxRequests = 2
  Backends = {1, 2}
  Weight <- MCWeight
  Priority <- MCPriority
  Score <- MCScore
  Keys = {"k", "l"}
  NoKey = "none"
  Policies <- MCPolicies
  Proxied = {r1, r2}
  r1 = r1
  r2 = r2
  Attempts = 2
  Percent = 20
  RetryFloor = 1
  CursorSpan = 2
  MaxFails = 2
  Healthy = 1
  Unhealthy = 1
  PoolCallers = {p1, p2, p3}
  PoolConfigs <- MCPoolConfigs
  PoolFirst <- MCPoolFirst
  PoolAnswers <- MCAnswers
  PoolUpdates = 2
INVARIANTS  ProxySound PoolSound
  
CHECK_DEADLOCK FALSE
