SPECIFICATION Spec
CONSTANTS
  Which = {"lists"}
  DirectYields = TRUE
  NULL = NULL
INVARIANT CacheEnds
CHECK_DEADLOCK FALSE
