------------------------------ MODULE MCLoops ------------------------------
(***************************************************************************)
(* Small instances of what the library builds on tasks: parallel loops,    *)
(* reductions and sorts, distributed arrays and the patterns over them.  A *)
(* behaviour is one of the component named by which.                       *)
(***************************************************************************)
EXTENDS Integers, Sequences, FiniteSets

CONSTANT Which

VARIABLES which, call, pc, waitfor, qwa, freed, wpc, level, pos, spc, full, dc, left, sdc,
          sleft, rets, out, ran, chunksize, start, phase, lastblock, donecount, activesheps,
          enabled, ret, ph, iters, sheps, range, cpc, adds, variant, input, array, jobs,
          tasks, deepest, checkfeb, state, sentinel, i, myret, fullelem, arrays, tracker,
          like, count, max_count, visits, joined, slats, struts, queue, wu, R, rt, ab,
          generated, calls, output
all == <<which, call, pc, waitfor, qwa, freed, wpc, level, pos, spc, full, dc, left, sdc,
         sleft, rets, out, ran, chunksize, start, phase, lastblock, donecount, activesheps,
         enabled, ret, ph, iters, sheps, range, cpc, adds, variant, input, array, jobs, tasks,
         deepest, checkfeb, state, sentinel, i, myret, fullelem, arrays, tracker, like, count,
         max_count, visits, joined, slats, struts, queue, wu, R, rt, ab, generated, calls,
         output>>

\* A component has the variables that are named in the set S; those of the others are 0.
But(name, S, formula) == IF name \in S THEN TRUE ELSE formula
Unused(v) == v = 0
Same(v) == UNCHANGED v
Others(S, F(_)) ==
    /\ But("call", S, F(call)) /\ But("pc", S, F(pc)) /\ But("waitfor", S, F(waitfor))
    /\ But("qwa", S, F(qwa)) /\ But("freed", S, F(freed)) /\ But("wpc", S, F(wpc))
    /\ But("level", S, F(level)) /\ But("pos", S, F(pos)) /\ But("spc", S, F(spc))
    /\ But("full", S, F(full)) /\ But("dc", S, F(dc)) /\ But("left", S, F(left))
    /\ But("sdc", S, F(sdc)) /\ But("sleft", S, F(sleft)) /\ But("rets", S, F(rets))
    /\ But("out", S, F(out)) /\ But("ran", S, F(ran)) /\ But("chunksize", S, F(chunksize))
    /\ But("start", S, F(start)) /\ But("phase", S, F(phase))
    /\ But("lastblock", S, F(lastblock)) /\ But("donecount", S, F(donecount))
    /\ But("activesheps", S, F(activesheps)) /\ But("enabled", S, F(enabled))
    /\ But("ret", S, F(ret)) /\ But("ph", S, F(ph)) /\ But("iters", S, F(iters))
    /\ But("sheps", S, F(sheps)) /\ But("range", S, F(range)) /\ But("cpc", S, F(cpc))
    /\ But("adds", S, F(adds)) /\ But("variant", S, F(variant))
    /\ But("input", S, F(input)) /\ But("array", S, F(array)) /\ But("jobs", S, F(jobs))
    /\ But("tasks", S, F(tasks)) /\ But("deepest", S, F(deepest))
    /\ But("checkfeb", S, F(checkfeb)) /\ But("state", S, F(state))
    /\ But("sentinel", S, F(sentinel)) /\ But("i", S, F(i)) /\ But("myret", S, F(myret))
    /\ But("fullelem", S, F(fullelem)) /\ But("arrays", S, F(arrays))
    /\ But("tracker", S, F(tracker)) /\ But("like", S, F(like))
    /\ But("count", S, F(count)) /\ But("max_count", S, F(max_count))
    /\ But("visits", S, F(visits)) /\ But("joined", S, F(joined))
    /\ But("slats", S, F(slats)) /\ But("struts", S, F(struts))
    /\ But("queue", S, F(queue)) /\ But("wu", S, F(wu)) /\ But("R", S, F(R))
    /\ But("rt", S, F(rt)) /\ But("ab", S, F(ab)) /\ But("generated", S, F(generated))
    /\ But("calls", S, F(calls)) /\ But("output", S, F(output))

-----------------------------------------------------------------------------
(* Loops that are split among tasks: fewer, as many and more iterations    *)
(* than workers, of each sync type; reductions, and an empty range.        *)

L(f, y, n, x, z) == [kind |-> f, sync |-> y, workers |-> n, start |-> x, stop |-> z]
LoopCalls == {L("balance", y, 3, 1, 5) : y \in {"SYNCVAR_T", "SINC_T", "DONECOUNT", "ALIGNED"}}
               \cup {L("balance", y, 3, 1, 3) : y \in {"SYNCVAR_T", "DONECOUNT"}}
               \cup {L("balance", "ALIGNED", 1, 1, 3), L("balance", "DONECOUNT", 2, 1, 1)}
               \cup {L("loop", "SYNCVAR_T", n, 1, 4) : n \in 2..3}
               \cup {L("loop", y, 2, 1, 5) : y \in {"SINC_T", "DONECOUNT"}}
               \cup {L("accum", "SYNCVAR_T", 3, 1, n) : n \in 2..5}
               \cup {L("accum", y, 2, 1, 4) : y \in {"SINC_T", "DONECOUNT"}}
               \cup {L("balance", y, 6, 1, 9) : y \in {"SYNCVAR_T", "DONECOUNT"}}
QL == INSTANCE QLoop WITH Calls <- LoopCalls

\* Loops that are shared out at run time: every kind of queue.  Shepherds leave and join
\* where the size of a range depends on their number and where it does not; one loop runs
\* on a single shepherd, which may be disabled.
Qd(y, n, dis, m) == [type |-> y, workers |-> n, there |-> -1, off |-> dis, adds |-> m]
There(dis) == [type |-> "CHUNK", workers |-> 2, there |-> 1, off |-> dis, adds |-> 0]
QueueCalls == {Qd(y, 1, {}, 0) : y \in {"GUIDED", "FACTORED"}} \cup {There({}), There({1})}
                \cup {Qd(y, 2, {1}, 0) : y \in {"FACTORED", "TIMED"}}
                \cup {Qd(y, 2, {1}, 1) : y \in {"CHUNK", "GUIDED"}}
LQ == INSTANCE LoopQueue WITH Calls <- QueueCalls, Start <- 1, Stop <- 5, Step <- 1
ASSUME LQ!LoopAssumption

-----------------------------------------------------------------------------
(* Sorts: orders of six values with one parallel round; longer arrays, in  *)
(* rising, falling and alternating order; arrays with equal elements; the  *)
(* sorted orders, which are the worst for the pivot.                       *)

Orders == {f \in [1..6 -> 1..6] : f[2] = 5 /\ f[1] < f[6] /\ \A x, y \in 1..6 : x # y => f[x] # f[y]}
Longer == {[x \in 1..n |-> x] : n \in 9..12} \cup {[x \in 1..n |-> n + 1 - x] : n \in 9..12}
            \cup {[x \in 1..n |-> (3 * x) % 14] : n \in 9..12}
PS == INSTANCE ParSort WITH Inputs <- Orders, Variants <- {"qt", "qutil"}, LoopChunk <- 2, Chunk <- 1,
                            Sheps <- 3, Word <- 64
PW == INSTANCE ParSort WITH Inputs <- Longer, Variants <- {"aligned"}, LoopChunk <- 3, Chunk <- 2,
                            Sheps <- 3, Word <- 64

Few == {f \in [1..7 -> 1..3] : f[1] >= f[3] /\ f[4] # f[5] /\ f[2] # f[7]} \cup [1..5 -> 1..2]
Ordered == {[x \in 1..n |-> x] : n \in 6..14} \cup {[x \in 1..n |-> n + 1 - x] : n \in 6..14}
              \cup {[x \in 1..n |-> (5 * x) % 7] : n \in 6..14} \cup {<<1>>}
MS == INSTANCE Mergesort WITH Inputs <- Few, Chunksize <- 2
MC == INSTANCE Mergesort WITH Inputs <- Ordered, Chunksize <- 7

LL == INSTANCE LaggingLoop WITH Length <- 7, Chunk <- 2

-----------------------------------------------------------------------------
(* Distributed arrays.  With pages of 8 bytes a segment has 128 bytes      *)
(* unless its number of pages is given; sizes around the page and the      *)
(* segment, also those that do not divide it.                              *)

Conf(n, obj, d, tight, pages) == [count |-> n, obj |-> obj, d |-> d, tight |-> tight, pages |-> pages]
Mixed == {Conf(5, 8, d, FALSE, 2) : d \in {"FIXED_HASH", "FIXED_FIELDS", "DIST_RAND"}}
           \cup {Conf(5, 3, d, TRUE, 1) : d \in {"DIST_LEAST", "DIST_STRIPES"}}
           \cup {Conf(2, n, d, TRUE, 0) : n \in {17, 31, 42, 43, 64}, d \in {"DIST_FIELDS", "FIXED_HASH"}}
           \cup {Conf(2, 130, "FIXED_HASH", FALSE, 0), Conf(2, 24, "FIXED_HASH", FALSE, 3)}
AllKinds == {Conf(5, 8, d, FALSE, 2) : d \in {"ALL_LOCAL", "ALL_LEAST", "ALL_RAND", "DIST_LEAST"}}
QA == INSTANCE QArray WITH NSheps <- 2, PageSize <- 8, Names <- {"x", "y"}, Configs <- Mixed, MaxTracked <- 10
QK == INSTANCE QArray WITH NSheps <- 2, PageSize <- 8, Names <- {"x", "y"}, Configs <- AllKinds, MaxTracked <- 6

\* Iterations, over arrays of up to eight elements in segments of two on three shepherds;
\* ranges that begin with a segment.
Dist == INSTANCE QArrayDist WITH NSheps <- 3, PageSize <- 8
Arr(y, n, x, o) == [type |-> y, count |-> n, size |-> 2, shep |-> x,
                    per |-> Dist!segs_per_shep((n + 1) \div 2), extras |-> Dist!extras((n + 1) \div 2), owner |-> o]
Hash(n) == Arr("FIXED_HASH", n, 0, <<>>)
Field(n) == Arr("FIXED_FIELDS", n, 0, <<>>)
AllSame(n) == Arr("ALL_SAME", n, 1, <<>>)
Dists(n) == {Arr("DIST", n, 0, o) : o \in [0..((n + 1) \div 2 - 1) -> 0..2]}
It(f, x, y, z) == [fn |-> f, a |-> x, start |-> y, stop |-> z]
IterCalls ==
    {It(f, x, y, z) : f \in {"iter", "loop", "const", "nb"}, x \in {Hash(7), AllSame(7)}, y \in {0, 2}, z \in {3, 6, 7}}
      \cup {It(f, x, 0, 7) : f \in {"iter", "nb"}, x \in Dists(7)}
      \cup {It("iter", x, 0, x.count) : x \in {Field(7), Field(8), Field(4)}}
      \cup {It("accum", Hash(7), 0, n) : n \in {6, 7}} \cup {It("accum", Hash(8), n, n + 1) : n \in {0, 2, 4}}
      \cup {It("accum", AllSame(7), 1, 6), It("accum", Arr("DIST", 7, 0, [g \in 0..3 |-> (g + 1) % 3]), 0, 7)}
QI == INSTANCE QArrayIter WITH NSheps <- 3, PageSize <- 8, Calls <- IterCalls

-----------------------------------------------------------------------------
(* Patterns: two by two blocks and three workers; two arrays on two        *)
(* shepherds, of which the last segment is short.                          *)

WF == INSTANCE Wavefront WITH HCount <- 5, HSeg <- 3, VCount <- 3, VSeg <- 2, Workers <- 1..3

Seg(x, y, z) == [start |-> x, stop |-> y, shep |-> z]
AP == INSTANCE AllPairs WITH Sheps <- {0, 1}, Output <- TRUE,
                             Array1 <- <<Seg(0, 2, 0), Seg(2, 3, 1)>>,
                             Array2 <- <<Seg(0, 1, 1), Seg(1, 2, 0), Seg(2, 4, 1)>>

-----------------------------------------------------------------------------

LoopUses    == {"call", "pc", "waitfor", "qwa", "freed", "wpc", "level", "pos", "spc", "full", "dc", "left",
                "sdc", "sleft", "rets", "out", "ran"}
QueueUses   == {"call", "chunksize", "start", "phase", "lastblock", "donecount", "activesheps", "freed",
                "enabled", "pc", "ret", "ph", "iters", "sheps", "range", "cpc", "adds", "ran"}
SortUses    == {"variant", "input", "array", "jobs"}
MergeUses   == {"input", "array", "pc", "chunksize", "tasks", "deepest"}
LagUses     == {"checkfeb", "state", "sentinel", "ret", "pc", "i", "start", "myret", "fullelem"}
ArrayUses   == {"arrays", "tracker", "like"}
IterUses    == {"call", "pc", "spc", "count", "max_count", "donecount", "visits", "rets", "ret", "joined"}
WaveUses    == {"slats", "struts", "queue", "donecount", "pc", "wu", "R", "rt", "ab", "cpc"}
PairUses    == {"cpc", "generated", "queue", "pc", "wu", "calls", "output", "donecount"}

Init ==
    /\ which \in Which
    /\ \/ which = "qloop" /\ QL!Init /\ Others(LoopUses, Unused)
       \/ which = "loop_queue" /\ LQ!Init /\ Others(QueueUses, Unused)
       \/ which = "sort" /\ PS!Init /\ Others(SortUses, Unused)
       \/ which = "sort_walls" /\ PW!Init /\ Others(SortUses, Unused)
       \/ which = "mergesort" /\ MS!Init /\ Others(MergeUses, Unused)
       \/ which = "mergesort_chunk" /\ MC!Init /\ Others(MergeUses, Unused)
       \/ which = "lagging_loop" /\ LL!Init /\ Others(LagUses, Unused)
       \/ which = "qarray" /\ QA!Init /\ Others(ArrayUses, Unused)
       \/ which = "qarray_like" /\ QK!Init /\ Others(ArrayUses, Unused)
       \/ which = "qarray_iter" /\ QI!Init /\ Others(IterUses, Unused)
       \/ which = "wavefront" /\ WF!Init /\ Others(WaveUses, Unused)
       \/ which = "allpairs" /\ AP!Init /\ Others(PairUses, Unused)

Next ==
    /\ UNCHANGED which
    /\ \/ which = "qloop" /\ QL!Next /\ Others(LoopUses, Same)
       \/ which = "loop_queue" /\ LQ!Next /\ Others(QueueUses, Same)
       \/ which = "sort" /\ PS!Next /\ Others(SortUses, Same)
       \/ which = "sort_walls" /\ PW!Next /\ Others(SortUses, Same)
       \/ which = "mergesort" /\ MS!Next /\ Others(MergeUses, Same)
       \/ which = "mergesort_chunk" /\ MC!Next /\ Others(MergeUses, Same)
       \/ which = "lagging_loop" /\ LL!Next /\ Others(LagUses, Same)
       \/ which = "qarray" /\ QA!Next /\ Others(ArrayUses, Same)
       \/ which = "qarray_like" /\ QK!Next /\ Others(ArrayUses, Same)
       \/ which = "qarray_iter" /\ QI!Next /\ Others(IterUses, Same)
       \/ which = "wavefront" /\ WF!Next /\ Others(WaveUses, Same)
       \/ which = "allpairs" /\ AP!Next /\ Others(PairUses, Same)

\* As long as some thread can take a step, one does.  None of these computations repeats a
\* state, so that no thread needs more.
Calls == {"qloop", "loop_queue", "sort", "lagging_loop", "qarray_iter", "wavefront", "allpairs"}
FairSpec == Init /\ [][Next]_all /\ WF_all(which \in Calls /\ Next)

-----------------------------------------------------------------------------
(* Loops, reductions and sorts.                                            *)

\* A loop runs each of its iterations once, whatever order the tree of tasks runs in, and
\* none outside of the range; all have been run when the call returns.  (But for reductions
\* with fewer elements than workers.)
EachOnce == which = "qloop" => QL!EachOnce

\* Ranges that workers take from a loop queue never overlap and stay inside the loop,
\* however the workers race on iq->start and on the phase; none is empty or ends past stop
\* (the asserts of qqloop_wrapper and of the timed queue).
RangesDisjoint == which = "loop_queue" => LQ!RangesDisjoint

\* qt_loop_queue_run.3: "they will not return until all iterations of the loop have been
\* completed", whoever joins or leaves; it is not so only if a loop has a single worker and
\* the shepherd of that is disabled.
AllDoneOnReturn == which = "loop_queue" => LQ!AllDoneOnReturn

\* Memory that the tasks of a call share is freed only when no task will use it again: the
\* argument array in which the tasks of a loop find their children, a queue loop, and the
\* argument and sentinel of a chunk of a reduction, which the next chunk frees.
FreedUnused == /\ which = "qloop" => QL!FreedUnused
               /\ which = "loop_queue" => LQ!FreedUnused
               /\ which = "lagging_loop" => LL!FreedAfterUse

\* qt_double_sum.3, qutil.3: "The sum of the first length entries": a reduction combines
\* every element once, and nothing else, as far as it has an element for every worker (and
\* a loop that ends in a sinc may also add what `out' held before).
SumOfArray == /\ which = "qloop" => QL!SumOfArray
              /\ which = "lagging_loop" => LL!EveryElementOnce


\* qutil_qsort.3: "The result of the sort is an array in increasing order", with the
\* elements it had.
SortedAtEnd == /\ which = "sort" => PS!SortedAtEnd
               /\ which = "sort_walls" => PW!SortedAtEnd
               /\ which = "mergesort" => MS!MergedSorted
               /\ which = "mergesort_chunk" => MC!MergedSorted

\* The chunks of the threads of a partition round are disjoint, lie inside of the subarray
\* and leave out no element, and a thread's scan begins in a chunk of its own: the
\* arithmetic of the megachunks in the inner partitioners.
ThreadsCover == /\ which = "sort" => PS!ThreadsCover
                /\ which = "sort_walls" => PW!ThreadsCover

\* When the walls of a round are merged, by a lock or by swaps, everything left of the left
\* wall is at most the pivot and everything right of the right wall is above it.
WallsSound == /\ which = "sort" => PS!WallsSound
              /\ which = "sort_walls" => PW!WallsSound

\* qutil.c: assert(i < MAX): the stack of drf_qsort holds no more than the logarithm of the
\* length, as the smaller part is done first.
StackIsSmall == which = "mergesort_chunk" => MC!StackIsSmall

\* The sorts sort, by rounds that are right one by one: see the four properties it joins.
SortsRight == SortedAtEnd /\ ThreadsCover /\ WallsSound /\ StackIsSmall

-----------------------------------------------------------------------------
(* Arrays and patterns.                                                    *)

\* chunk_distribution_tracker, by which DIST_LEAST chooses, counts for every shepherd the
\* segments that live arrays have there, through creation, moves and destruction (as long
\* as no array is of an ALL_ type, whose segments are counted twice).
TrackerCounts == which = "qarray" => QA!TrackerCounts

\* Every element of a qarray lies inside of its memory and overlaps no other element and no
\* segment's record of its shepherd, which lies inside of its segment (segment_size and
\* segment_bytes; the assertion of qarray_internal_segment_shep).
ElementsFit == which = "qarray" => QA!ElementsFit

\* qarray_create.3 of FIXED_FIELDS: "Distributes the memory evenly across all shepherds":
\* no shepherd has two segments more than another, and none is left to no shepherd, if
\* there are as many segments as shepherds at least.
FieldsEven == which = "qarray" => QA!FieldsEven

\* qarray_dist_like.3: "modifies the qarray mod to match the distribution of qarray ref".
LikeMatches == which = "qarray_like" => QK!LikeMatches

\* qarray_iter.3: "guaranteeing that the function will be executed near the specified
\* data": it runs on the shepherd that owns the element.
NearData == which = "qarray_iter" => QI!NearData

\* Iterating over a range that begins with a segment applies the function once to each
\* element of it and to no other: the striders' ranges cover it without an overlap.
VisitsOnce == which = "qarray_iter" => QI!EachOnce

\* The value that qarray_iter_loopaccum returns combines every element of the range once,
\* no older value of `ret' and no memory that nobody wrote, if the first shepherd and
\* every other one it asks have an element of the range.
AccumOnce == which = "qarray_iter" => QI!AccumOnce


\* The edges in the wavefront's lattice have the values of qt_basic_wavefront: nobody
\* computes with, or writes into, an edge at the wrong time.
LatticeRight == which = "wavefront" => WF!LatticeRight

\* A worker that takes a block finds its left and lower edges stored, and one that has
\* claimed it finds neither of the others (the assertions of qt_wavefront_worker).
EdgesThere == which = "wavefront" => WF!EdgesThere

\* A block whose two edges are stored is queued, claimed or in a worker's hands, or a
\* worker that stored one of them has yet to look: two neighbours, which look for each
\* other's edge, do not both miss it.
ReadyIsQueued == which = "wavefront" => WF!ReadyIsQueued

\* qt_allpairs calls distfunc at most once on a pair, and puts the result into the cell of
\* that pair; a unit that has been queued is done, in one worker's hands or in the queue.
PairsOnce == which = "allpairs" => AP!PairsOnce /\ AP!OutputRight

\* qt_allpairs frees the queue of its workers when none of them will look into it again.
QueueUnused == which = "allpairs" => AP!FreedUnused

\* The workers of a pattern compute every block or pair once, from inputs that are there:
\* see the five properties it joins.
PatternsRight ==
    LatticeRight /\ EdgesThere /\ ReadyIsQueued /\ PairsOnce /\ QueueUnused

-----------------------------------------------------------------------------

\* Every call of Calls returns, but for qt_loop_sv and qt_loop_aligned with more iterations than
\* workers, for qt_loop_balance_aligned with more than one worker, and for a balanced loop
\* over no iterations, which divides by zero.
Rested == CASE which = "qloop" -> QL!Rested
            [] which = "loop_queue" -> LQ!Rested
            [] which = "sort" -> jobs = {}
            [] which = "lagging_loop" -> LL!Rested
            [] which = "qarray_iter" -> QI!Rested
            [] which = "wavefront" -> WF!Rested
            [] which = "allpairs" -> AP!Rested
            [] OTHER -> TRUE
AllReturn == []<>Rested
=============================================================================
