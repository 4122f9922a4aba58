SPECIFICATION FairSpec
CONSTANTS
  Threads = {t, u}
  MaxBlock = 2
  MaxLife = 3
  MaxTime = 3
  MaxFault = 1
INVARIANTS TypeOK SyncedKept
PROPERTIES LetGoInFile AllLetGo
CHECK_DEADLOCK FALSE
