SPECIFICATION Spec
CONSTANTS
  Which = {"syncvar"}
  SincPrograms <- Counted
  InitialCount = 2
  Scripts <- Readers
  NULL = NULL
INVARIANT NoDeadAddrstat
CHECK_DEADLOCK FALSE
