SPECIFICATION QueueSpec
CONSTANTS
  Which = {"nott_grow", "nott_steal", "lox_contend", "lox_penalty", "lox_steal", "base", "ring", "rwlock"}
  DirectYields = FALSE
  NULL = NULL
INVARIANTS  Exclusion
PROPERTIES ImplementsQueue NoneLost AllReturn
CHECK_DEADLOCK FALSE
