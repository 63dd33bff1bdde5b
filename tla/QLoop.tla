------------------------------- MODULE QLoop -------------------------------
(***************************************************************************)
(* The parallel loops of src/qloop.c.  qt_loop_balance splits the range    *)
(* among at most one task per worker; the tasks spawn each other as a      *)
(* tree.  qt_loop runs, in each of them, qt_loop_spawner, which spawns a   *)
(* task per iteration and waits for those.  qt_loopaccum_balance also      *)
(* combines a result of each task; the reductions (qt_uint_sum, ...) are   *)
(* built on it.  How the end is noticed depends on the sync type: an array *)
(* of syncvars or of aligned words that the tasks' return values fill, a   *)
(* sinc, or a counter.                                                     *)
(*                                                                         *)
(* A location is <<array, task, index>>; `full' are the locations that are *)
(* full.  A reduction's value is the bag of the array elements it          *)
(* combines: index -> how often.  Old stands for what `out' held before.   *)
(***************************************************************************)
EXTENDS Integers, FiniteSets

CONSTANT Calls   \* [kind, sync, workers, start, stop]
VARIABLES call, pc, waitfor,             \* the caller; the slot it waits for
          qwa, freed,                    \* the argument array
          wpc, level, pos,               \* the tasks of the tree
          spc,                           \* the tasks of single iterations
          full, dc, left, sdc, sleft,    \* locations, counters, sincs
          rets, out, ran
tree == <<wpc, level, pos>>
sync == <<full, dc, left, sdc, sleft>>
vals == <<rets, out>>
vars == <<call, pc, waitfor, qwa, freed, tree, spc, sync, vals, ran>>

MaxWorkers == CHOOSE n \in {c.workers : c \in Calls} : \A c \in Calls : c.workers <= n
Ids == 0..(MaxWorkers - 1)
Lo == CHOOSE n \in {c.start : c \in Calls} : \A c \in Calls : n <= c.start
Hi == CHOOSE n \in {c.stop : c \in Calls} : \A c \in Calls : c.stop <= n
Old == -1
Iters == Lo..(Hi - 1)
\* What a reduction may read: the array and, past its end, other memory.
Cells == {Old} \cup Lo..(Hi + MaxWorkers)
NoValue == [x \in Cells |-> 0]
Plus(a, b) == [x \in Cells |-> a[x] + b[x]]

\* The functions of the API, and what they ask for.
qt_loop == {<<"loop", s>> : s \in {"DONECOUNT", "SINC_T", "SYNCVAR_T", "ALIGNED"}}
qt_loop_balance == {<<"balance", s>> : s \in {"DONECOUNT", "SYNCVAR_T", "ALIGNED", "SINC_T"}}
qt_loopaccum_balance == {<<"accum", s>> : s \in {"SYNCVAR_T", "SINC_T", "DONECOUNT"}}
Kind == call.kind
Sync == call.sync
Set(f, w, v) == [f EXCEPT ![w] = v]
Goto(w, l) == wpc' = Set(wpc, w, l)

---------------------------------------------------------------------------
\* The number of tasks: an accumulating loop always has one per worker.
maxworkers(c) == IF c.kind = "accum" \/ c.stop - c.start > c.workers THEN c.workers ELSE c.stop - c.start

\* The ranges: `each' iterations per task, and one more while `extra' lasts.
Split_all(c) ==
    LET n == maxworkers(c)
        each == (c.stop - c.start) \div n
        begin[i \in 0..n] == IF i = 0 THEN c.start ELSE begin[i - 1] + each + 1
    IN  [i \in 0..(n - 1) |-> [startat |-> begin[i], stopat |-> begin[i + 1]]]
Split(c) ==
    LET n == maxworkers(c)
        each == (c.stop - c.start) \div n
        extra == (c.stop - c.start) - each * n
        iterend[i \in 0..n] == IF i = 0 THEN c.start ELSE iterend[i - 1] + each + (IF i - 1 < extra THEN 1 ELSE 0)
    IN  [i \in 0..(n - 1) |-> [startat |-> iterend[i], stopat |-> iterend[i + 1]]]

Init == /\ call \in {c \in Calls : <<c.kind, c.sync>> \in qt_loop \cup qt_loop_balance \cup qt_loopaccum_balance}
        /\ pc = "start" /\ waitfor = 0
        /\ qwa = <<>> /\ freed = FALSE
        /\ wpc = [w \in Ids |-> "none"] /\ level = [w \in Ids |-> 0] /\ pos = level
        /\ spc = [i \in Iters |-> "none"]
        /\ full = {} /\ dc = 0 /\ left = 0 /\ sdc = level /\ sleft = level
        /\ rets = [w \in Ids |-> NoValue] /\ out = [NoValue EXCEPT ![Old] = 1]
        /\ ran = [i \in Iters |-> 0]

\* The start of a call, up to the spawn of the root.  Without iterations the
\* division of the balanced loop traps.
Begin == /\ pc = "start" /\ maxworkers(call) > 0
         /\ qwa' = Split(call)
         /\ left' = maxworkers(call)
         /\ Goto(0, "tree")
         /\ pc' = "wait"
         /\ UNCHANGED <<call, waitfor, freed, level, pos, spc, full, dc, sdc, sleft, vals, ran>>
qt_loop_balance_inner == Kind # "accum" /\ Begin
qt_loopaccum_balance_inner == Kind = "accum" /\ Begin
divide_by_zero == /\ pc = "start" /\ maxworkers(call) = 0
                  /\ pc' = "trap"
                  /\ UNCHANGED <<call, waitfor, qwa, freed, tree, spc, sync, vals, ran>>

\* Where the return value of a task goes.  For ALIGNED, qwa[i].sync is not
\* the array but the address of the union that holds its address.
RetLoc(w) == IF Sync = "ALIGNED" /\ w # 0 THEN <<"stack", 0, w>> ELSE <<"slot", 0, w>>

\* qloop_wrapper and qloopaccum_wrapper: spawn the subtree, one child per
\* level; spawning empties the child's return location.
SpawnChild(w) == LET new == w + 2 ^ level[w] IN
                  /\ wpc[w] = "tree" /\ new < Cardinality(DOMAIN qwa)
                  /\ wpc' = Set(wpc, new, "tree")
                  /\ level' = Set(Set(level, w, level[w] + 1), new, level[w] + 1)
                  /\ full' = full \ {RetLoc(new)}
                  /\ UNCHANGED <<call, pc, waitfor, qwa, freed, pos, spc, dc, left, sdc, sleft, vals, ran>>
qloop_wrapper(w) == Kind # "accum" /\ SpawnChild(w)
qloopaccum_wrapper(w) == Kind = "accum" /\ SpawnChild(w)

Ready(w) == wpc[w] = "tree" /\ w + 2 ^ level[w] >= Cardinality(DOMAIN qwa)

\* The user's function on the range of a balanced loop.
run_range(w) == /\ Ready(w) /\ Kind = "balance"
                /\ ran' = [i \in Iters |-> IF i \in qwa[w].startat..(qwa[w].stopat - 1) THEN ran[i] + 1 ELSE ran[i]]
                /\ Goto(w, "post")
                /\ UNCHANGED <<call, pc, waitfor, qwa, freed, level, pos, spc, sync, vals>>

\* A worker of the reductions: it starts from array[startat], whatever the range.
worker(w) == LET r == qwa[w].startat..(qwa[w].stopat - 1) \cup {qwa[w].startat}
                 v == [x \in Cells |-> IF x \in r THEN 1 ELSE 0]
             IN  /\ Ready(w) /\ Kind = "accum"
                 /\ IF w = 0 THEN out' = v /\ UNCHANGED rets ELSE rets' = Set(rets, w, v) /\ UNCHANGED out
                 /\ ran' = [i \in Iters |-> IF i \in r THEN ran[i] + 1 ELSE ran[i]]
                 /\ Goto(w, "post")
                 /\ UNCHANGED <<call, pc, waitfor, qwa, freed, level, pos, spc, sync>>

\* After the function: count, or submit the value (the sinc of an
\* accumulating loop combines it; it began with what `out' held).
Post(w) == /\ wpc[w] = "post"
           /\ dc' = IF Sync = "DONECOUNT" THEN dc + 1 ELSE dc
           /\ left' = IF Sync = "SINC_T" THEN left - 1 ELSE left
           /\ Goto(w, IF Sync \in {"SYNCVAR_T", "ALIGNED"} THEN "return" ELSE "done")
           /\ UNCHANGED <<call, pc, waitfor, qwa, freed, level, pos, spc, full, sdc, sleft, vals, ran>>
post(w) == Kind # "accum" /\ Post(w)
post_accum(w) == Kind = "accum" /\ Post(w)

\* qthread_wrapper stores the return value with writeEF.
return(w) == /\ wpc[w] = "return" /\ RetLoc(w) \notin full
             /\ full' = full \cup {RetLoc(w)}
             /\ Goto(w, "done")
             /\ UNCHANGED <<call, pc, waitfor, qwa, freed, level, pos, spc, dc, left, sdc, sleft, vals, ran>>

---------------------------------------------------------------------------
(* qt_loop_spawner: a task per iteration.                                  *)

spawner(w) == /\ Ready(w) /\ Kind = "loop"
              /\ pos' = Set(pos, w, qwa[w].startat)
              /\ sleft' = Set(sleft, w, qwa[w].stopat - qwa[w].startat)
              /\ Goto(w, "spawner")
              /\ UNCHANGED <<call, pc, waitfor, qwa, freed, level, spc, full, dc, left, sdc, vals, ran>>

\* retptr is the start of the array for every task.
SubLoc(w) == <<"sub", w, 0>>
spawn_iter(w) == /\ wpc[w] = "spawner" /\ pos[w] < qwa[w].stopat
                 /\ spc' = Set(spc, pos[w], "func")
                 /\ full' = full \ {SubLoc(w)}
                 /\ pos' = Set(pos, w, pos[w] + 1)
                 /\ UNCHANGED <<call, pc, waitfor, qwa, freed, wpc, level, dc, left, sdc, sleft, vals, ran>>

Owner(i) == CHOOSE w \in DOMAIN qwa : i \in qwa[w].startat..(qwa[w].stopat - 1)

\* qt_loop_wrapper, and the return of its task.
iter_func(i) == /\ spc[i] = "func"
                /\ ran' = [ran EXCEPT ![i] = @ + 1]
                /\ spc' = Set(spc, i, "post")
                /\ UNCHANGED <<call, pc, waitfor, qwa, freed, tree, sync, vals>>
iter_post(i) == LET w == Owner(i) IN
                /\ spc[i] = "post"
                /\ Sync \in {"SYNCVAR_T", "ALIGNED"} => SubLoc(w) \notin full
                /\ full' = IF Sync \in {"SYNCVAR_T", "ALIGNED"} THEN full \cup {SubLoc(w)} ELSE full
                /\ sdc' = IF Sync = "DONECOUNT" THEN Set(sdc, w, sdc[w] + 1) ELSE sdc
                /\ sleft' = IF Sync = "SINC_T" THEN Set(sleft, w, sleft[w] - 1) ELSE sleft
                /\ spc' = Set(spc, i, "done")
                /\ UNCHANGED <<call, pc, waitfor, qwa, freed, tree, dc, left, vals, ran>>

\* The spawner waits for all of its iterations.
Steps(w) == qwa[w].stopat - qwa[w].startat
AllIn(w) == CASE Sync = "SINC_T" -> sleft[w] = 0
              [] Sync = "DONECOUNT" -> sdc[w] = Steps(w)
              [] OTHER -> \A k \in 0..(Steps(w) - 1) : <<"sub", w, k>> \in full
spawner_wait(w) == /\ wpc[w] = "spawner" /\ pos[w] = qwa[w].stopat
                   /\ AllIn(w)
                   /\ Goto(w, "post")
                   /\ UNCHANGED <<call, pc, waitfor, qwa, freed, level, pos, spc, sync, vals, ran>>

---------------------------------------------------------------------------
(* The end of the call.                                                    *)

N == Cardinality(DOMAIN qwa)
\* readFF of one slot; an accumulating loop adds the task's value to `out'.
wait_slot(k) == /\ pc = "wait" /\ Sync \in {"SYNCVAR_T", "ALIGNED"} /\ waitfor = k /\ k < N
                /\ <<"slot", 0, k>> \in full
                /\ out' = IF Kind = "accum" /\ k > 0 THEN Plus(out, rets[k]) ELSE out
                /\ waitfor' = k + 1
                /\ UNCHANGED <<call, pc, qwa, freed, tree, spc, sync, rets, ran>>
SlotsDone == Sync \in {"SYNCVAR_T", "ALIGNED"} /\ waitfor = N

RECURSIVE SumRets(_)
SumRets(k) == IF k = 0 THEN NoValue ELSE Plus(SumRets(k - 1), rets[k])

\* All tasks are done.
AllDone == \/ SlotsDone
           \/ Sync = "DONECOUNT" /\ dc = N
           \/ Sync = "SINC_T" /\ left = 0
finish == /\ pc = "wait" /\ AllDone /\ Kind # "accum"
          /\ pc' = "returned" /\ freed' = TRUE
          /\ UNCHANGED <<call, waitfor, qwa, tree, spc, sync, vals, ran>>
\* The results of a counted or a sinc loop are combined; the sinc starts from
\* its initial value, once per worker and once for the result.
finish_accum == /\ pc = "wait" /\ AllDone /\ Kind = "accum"
                /\ out' = CASE Sync = "SYNCVAR_T" -> out
                            [] Sync = "DONECOUNT" -> Plus(out, SumRets(N - 1))
                            [] OTHER -> Plus([NoValue EXCEPT ![Old] = 1 + call.workers], Plus(out, SumRets(N - 1)))
                /\ pc' = "returned" /\ freed' = TRUE
                /\ UNCHANGED <<call, waitfor, qwa, tree, spc, sync, rets, ran>>

Task(w) == qloop_wrapper(w) \/ qloopaccum_wrapper(w) \/ run_range(w) \/ worker(w)
             \/ post(w) \/ post_accum(w) \/ return(w) \/ spawner(w) \/ spawn_iter(w) \/ spawner_wait(w)
Caller == qt_loop_balance_inner \/ qt_loopaccum_balance_inner \/ finish \/ finish_accum \/ \E k \in Ids : wait_slot(k)
Next == \/ Caller \/ divide_by_zero
        \/ \E w \in Ids : Task(w)
        \/ \E i \in Iters : iter_func(i) \/ iter_post(i)
Spec == Init /\ [][Next]_vars

---------------------------------------------------------------------------
(* Properties.                                                             *)

\* A reduction of fewer elements than workers: some worker has an empty range, and starts
\* from the element behind it all the same.
Short(c) == c.kind = "accum" /\ c.stop - c.start < c.workers

\* Each iteration is run at most once, and none outside of the range; all have been when
\* the call returns.
EachOnce == ~Short(call) =>
    /\ \A i \in Iters : ran[i] <= (IF i \in call.start..(call.stop - 1) THEN 1 ELSE 0)
    /\ pc = "returned" => \A i \in call.start..(call.stop - 1) : ran[i] = 1

\* The array of arguments is freed when no task will read it again.
FreedUnused == freed => /\ \A w \in Ids : wpc[w] \in {"none", "done"}
                        /\ \A i \in Iters : spc[i] \in {"none", "done"}

\* A reduction combines every element once; only with a sinc, what `out' held before too.
SumOfArray == (pc = "returned" /\ Kind = "accum" /\ ~Short(call)) =>
    \A x \in Cells : x # Old \/ Sync # "SINC_T" =>
                      out[x] = IF x \in call.start..(call.stop - 1) THEN 1 ELSE 0

\* The calls that never return: the tasks of a spawner share one return location though
\* the spawner waits for as many as it has iterations; the tasks of the tree return into
\* the caller's stack.
NeverReturns(c) ==
    \/ c.kind = "loop" /\ c.sync \in {"SYNCVAR_T", "ALIGNED"} /\ c.stop - c.start > c.workers
    \/ c.sync = "ALIGNED" /\ c.stop - c.start > 1 /\ c.workers > 1
Rested == pc = "returned" \/ NeverReturns(call) \/ (pc = "trap" /\ call.start = call.stop)
=============================================================================
