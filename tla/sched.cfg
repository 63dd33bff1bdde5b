SPECIFICATION FairSpec
CONSTANTS
  Which = {"lists", "steal", "single", "near"}
  DirectYields = FALSE
  NULL = NULL
INVARIANTS  TasksInPlace
PROPERTY AllEnd
CHECK_DEADLOCK FALSE
