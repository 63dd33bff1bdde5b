SPECIFICATION FairSpec
CONSTANTS
  Which = {"life", "workers", "line", "flat", "counts", "sheplists", "library", "library_fails"}
  NULL = NULL
INVARIANTS OneStack RunsAtHome LayoutSound CleanShutdown
PROPERTIES  AllReturn
CHECK_DEADLOCK FALSE
