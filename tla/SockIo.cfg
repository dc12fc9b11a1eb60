CONSTANTS
  Threads = {t1, t2, t3}
  Dirs = {"IN", "OUT"}
SPECIFICATION FairSpec
INVARIANTS Sound
PROPERTIES NoMissedWakeup CloseUnblocks
CHECK_DEADLOCK FALSE
