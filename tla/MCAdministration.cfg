SPECIFICATION AdministrationSpec
CONSTANTS
  Tasks = {t1, t2, t3}
  Watchers = {}
  Shutdown = shutdown
  Readers = {r1}
  SlotLimit = 2
  MaxGen = 2
  MaxEdits = 3
  MaxBoots = 4
  MaxLog = 6
SYMMETRY TaskSymmetry
INVARIANTS ReceiptHonest PairOpens RestartSound
CHECK_DEADLOCK FALSE
