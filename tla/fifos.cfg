SPECIFICATION FairSpec
CONSTANTS
  Which = {"nemesis", "nemesis_filter", "lifo", "lifo_filter", "free_reuse", "free_get", "free_filter", "mutex", "mutex_filter", "hazard", "swsr", "dist", "dist_alone"}
  NULL = NULL
INVARIANTS  ElementsOnce
PROPERTIES ImplementsQueue NothingWasThere AllReturn
CHECK_DEADLOCK FALSE
