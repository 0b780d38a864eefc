SPECIFICATION Spec
CONSTANTS
  file = file
  admin = admin
  rogue = rogue
  c1 = c1
  c2 = c2
  None = None
  NoPlan = NoPlan
  Invalid = Invalid
  Sources = {file, admin}
  Allowed = {file, admin}
  Callers = {c1, c2}
  Contents <- MCContents
  Trees <- MCTrees
  MaxRev = 2
  SourceLimit = 2
  MaxGen = 2
  MaxAttempts = 2
  Entries = {"writer", "reject"}
  Inputable <- Careless
  Plans <- MCPlans
  Compile <- MCCompile
SYMMETRY FullPerms
INVARIANTS IntentMatchesHead ServesNewestIntent
PROPERTIES SealedFrozen
