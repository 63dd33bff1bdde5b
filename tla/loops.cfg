SPECIFICATION FairSpec
CONSTANT
  Which = {"qloop", "loop_queue", "sort", "sort_walls", "mergesort", "mergesort_chunk", "lagging_loop",
           "qarray", "qarray_like", "qarray_iter", "wavefront", "allpairs"}
INVARIANTS  SortsRight  PatternsRight
PROPERTY AllReturn
CHECK_DEADLOCK FALSE
