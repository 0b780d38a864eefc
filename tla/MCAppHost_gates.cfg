SPECIFICATION FairSpec
CONSTANTS
  Tasks = {t1, t2}
  Watchers = {w1}
  Shutdown = shutdown
  Readers = {}
  SlotLimit = 2
  MaxGen = 1
INVARIANTS GuardsMatchControl
PROPERTIES NothingStartsAfterFence HostProceeds
