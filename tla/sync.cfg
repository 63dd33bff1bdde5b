SPECIFICATION FairSpec
CONSTANTS
  Which = {"donecount", "cas", "original", "feb", "array", "log", "sinc_id", "sinc_all", "syncvar", "external"}
  SincPrograms <- Counted
  InitialCount = 2
  Scripts <- SyncvarPrograms
  NULL = NULL
INVARIANTS  WaitersKept OutsideCallsMade
PROPERTIES ImplementsBarrier SyncvarsAreAtomic AllReturn
CHECK_DEADLOCK FALSE
