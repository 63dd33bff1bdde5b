------------------------------ MODULE Library ------------------------------
(***************************************************************************)
(* Starting and stopping the runtime (src/src/qthread.c): qthread_initialize *)
(* brings up the subsystems one after the other, each leaving a function on *)
(* one of three clean-up lists, and creates the workers;                    *)
(* qthread_finalize stops the workers with one sentinel each, joins them    *)
(* and only then tears everything down.  The original thread makes the      *)
(* calls, in any order and as often as Calls allows; the workers run on.    *)
(***************************************************************************)
EXTENDS Integers, Sequences, SequencesExt, FiniteSets

CONSTANTS NSheps, PerShep,
          HwPar,     \* how many workers start active
          Calls,     \* bound: calls of the original thread
          MaxTasks   \* bound: tasks put into a queue

Shep == 0..NSheps-1
Spawned == (0..NSheps*PerShep-1) \ {0}    \* every worker but the original thread
ShepOf(w) == w \div PerShep               \* w is packed_worker_id

\* Pools made by the first qt_barrier_create or qlfqueue_create of a run.
Lazy == {"barrier", "qlfqueue"}

VARIABLES qlib,         \* whether qlib # NULL
          pc,           \* where the original thread is
          k,            \* its position in a loop over subsystems or workers
          result,       \* what the last qthread_initialize returned
          up,           \* the subsystems that are initialised
          pool,         \* the lazily created pools: "null", "live" or "freed"
          early, normal, late,   \* the clean-up lists, first to run first
          worker,       \* "none", "running" or "exited", per spawned worker
          wactive,
          queue,        \* the ready queues, newest last; "task" or "term"
          freed,        \* whether the shepherds' queues and workers are freed
          calls, spawned

vars == <<qlib, pc, k, result, up, pool, early, normal, late, worker, wactive, queue, freed, calls, spawned>>

lists == <<early, normal, late, pool>>
workers == <<worker, wactive, queue>>
bounds == <<calls, spawned>>

Init ==
  /\ qlib = FALSE /\ pc = "user" /\ k = 1 /\ result = "none" /\ up = {}
  /\ early = <<>> /\ normal = <<>> /\ late = <<>> /\ pool = [p \in Lazy |-> "null"]
  /\ worker = [w \in Spawned |-> "none"]
  /\ wactive = [w \in Spawned |-> FALSE]
  /\ queue = [s \in Shep |-> <<>>]
  /\ freed = FALSE /\ calls = 0 /\ spawned = 0

---------------------------------------------------------------------------
\* The subsystems in the order qthread_initialize brings them up, with the lists their
\* clean-up functions go to.
Subsystems == <<"hash", "spawncache", "mpool", "gendists", "hazardptrs", "teams", "queue", "feb", "syncvar",
                "threadqueue", "io">>

Early == {"io"}
Normal == {"spawncache", "hazardptrs", "teams", "queue", "threadqueue", "io", "barrier"}

\* Mutant: the memory pools leave no clean-up function.
Late_pools == {"hash", "teams", "feb", "syncvar", "qlfqueue"}

Late == {"hash", "mpool", "teams", "feb", "syncvar", "qlfqueue"}

\* Mutant: the function goes to the end of the list.
cleanup_append(list, f) == Append(list, f)

\* qthread_internal_cleanup_early, qthread_internal_cleanup, qthread_internal_cleanup_late
cleanup(list, f) == <<f>> \o list

Bring(f) ==
  /\ up' = up \union {f}
  /\ early' = IF f \in Early THEN cleanup(early, f) ELSE early
  /\ normal' = IF f \in Normal THEN cleanup(normal, f) ELSE normal
  /\ late' = IF f \in Late THEN cleanup(late, f) ELSE late
  /\ pool' = IF f \in Lazy THEN [pool EXCEPT ![f] = "live"] ELSE pool

\* qthread_initialize.  A second call finds qlib set and returns at once.
initialize ==
  /\ pc = "user" /\ calls < Calls /\ calls' = calls + 1
  /\ IF qlib THEN result' = "success" /\ UNCHANGED <<qlib, pc, k, freed>>
             ELSE result' = "none" /\ qlib' = TRUE /\ pc' = "subsystems" /\ k' = 1 /\ freed' = FALSE
  /\ UNCHANGED <<up, lists, workers, spawned>>

InitSubsystem ==
  /\ pc = "subsystems" /\ k <= Len(Subsystems)
  /\ Bring(Subsystems[k])
  /\ k' = k + 1
  /\ UNCHANGED <<qlib, pc, result, workers, freed, bounds>>

\* qt_affinity_gendists returns an error, and so does qthread_initialize.
GendistsFails ==
  /\ pc = "subsystems" /\ k <= Len(Subsystems) /\ Subsystems[k] = "gendists"
  /\ result' = "error" /\ pc' = "user"
  /\ UNCHANGED <<qlib, k, up, lists, workers, freed, bounds>>

\* The original thread becomes worker 0 of shepherd 0.
mccoy ==
  /\ pc = "subsystems" /\ k > Len(Subsystems)
  /\ pc' = "create" /\ k' = 1
  /\ UNCHANGED <<qlib, result, up, lists, workers, freed, bounds>>

\* pthread_create of worker k; the workers beyond HwPar start inactive.
CreateWorker ==
  /\ pc = "create" /\ k \in Spawned
  /\ worker' = [worker EXCEPT ![k] = "running"]
  /\ wactive' = [wactive EXCEPT ![k] = (k % PerShep) * NSheps + ShepOf(k) + 1 <= HwPar]
  /\ k' = k + 1
  /\ UNCHANGED <<qlib, pc, result, up, lists, queue, freed, bounds>>

CreateFails ==
  /\ pc = "create" /\ k \in Spawned
  /\ result' = "error" /\ pc' = "user"
  /\ UNCHANGED <<qlib, k, up, lists, workers, freed, bounds>>

\* atexit, and qt_barrier_internal_init, which forgets the pool of the barriers
Initialized ==
  /\ pc = "create" /\ k \notin Spawned
  /\ pool' = [pool EXCEPT !["barrier"] = "null"]
  /\ result' = "success" /\ pc' = "user"
  /\ UNCHANGED <<qlib, k, up, early, normal, late, workers, freed, bounds>>

---------------------------------------------------------------------------
\* The original thread spawns a task to shepherd s.
spawn ==
  /\ pc = "user" /\ qlib /\ result = "success" /\ spawned < MaxTasks
  /\ \E s \in Shep : queue' = [queue EXCEPT ![s] = Append(@, "task")]
  /\ spawned' = spawned + 1
  /\ UNCHANGED <<qlib, pc, k, result, up, lists, worker, wactive, freed, calls>>

\* qt_barrier_create and qlfqueue_create make their pool when there is none.
create(f) ==
  /\ pc = "user" /\ qlib /\ result = "success" /\ pool[f] = "null"
  /\ Bring(f)
  /\ UNCHANGED <<qlib, pc, k, result, workers, freed, bounds>>

\* The original thread yields: worker 0 runs the newest task of shepherd 0.
yield ==
  /\ pc = "user" /\ queue[0] # <<>>
  /\ queue' = [queue EXCEPT ![0] = Front(@)]
  /\ UNCHANGED <<qlib, pc, k, result, up, lists, worker, wactive, freed, bounds>>

\* A worker whose own queue is empty steals the oldest task of another shepherd; the
\* sentinels are QTHREAD_UNSTEALABLE.
steal(w) ==
  /\ worker[w] = "running" /\ wactive[w] /\ queue[ShepOf(w)] = <<>>
  /\ \E s \in Shep \ {ShepOf(w)} :
       /\ queue[s] # <<>> /\ Head(queue[s]) = "task"
       /\ queue' = [queue EXCEPT ![s] = Tail(@)]
  /\ UNCHANGED <<qlib, pc, k, result, up, lists, worker, wactive, freed, bounds>>

\* The master loop of a worker: the newest entry of its shepherd's queue.
master(w) ==
  LET q == queue[ShepOf(w)]
  IN /\ worker[w] = "running" /\ wactive[w] /\ q # <<>>
     /\ queue' = [queue EXCEPT ![ShepOf(w)] = Front(q)]
     /\ worker' = [worker EXCEPT ![w] = IF Last(q) = "term" THEN "exited" ELSE @]
     /\ UNCHANGED <<qlib, pc, k, result, up, lists, wactive, freed, bounds>>

---------------------------------------------------------------------------
\* qthread_finalize; without qlib it returns at once.  (After a failed start it would join
\* threads that do not exist, which has no defined outcome; the call is left out.)
finalize ==
  /\ pc = "user" /\ calls < Calls /\ calls' = calls + 1 /\ result # "error"
  /\ IF qlib THEN pc' = "sentinels" /\ k' = 1 ELSE UNCHANGED <<pc, k>>
  /\ UNCHANGED <<qlib, result, up, lists, workers, freed, spawned>>

\* Mutant: an inactive worker is not woken up.
sentinel_asleep ==
  /\ pc = "sentinels" /\ k \in Spawned
  /\ queue' = [queue EXCEPT ![ShepOf(k)] = Append(@, "term")]
  /\ k' = k + 1
  /\ UNCHANGED <<qlib, pc, result, up, lists, worker, wactive, freed, bounds>>

\* One termination sentinel per worker, which is also activated.
sentinel ==
  /\ pc = "sentinels" /\ k \in Spawned
  /\ queue' = [queue EXCEPT ![ShepOf(k)] = Append(@, "term")]
  /\ wactive' = [wactive EXCEPT ![k] = TRUE]
  /\ k' = k + 1
  /\ UNCHANGED <<qlib, pc, result, up, lists, worker, freed, bounds>>

SentinelsDone ==
  /\ pc = "sentinels" /\ k \notin Spawned
  /\ pc' = "early"
  /\ UNCHANGED <<qlib, k, result, up, lists, workers, freed, bounds>>

\* The early functions run while the workers may still be alive.
early_funcs ==
  /\ pc = "early"
  /\ IF early # <<>> THEN early' = Tail(early) /\ UNCHANGED <<pc, k>>
                     ELSE pc' = "join" /\ k' = 1 /\ UNCHANGED early
  /\ UNCHANGED <<qlib, result, up, normal, late, pool, workers, freed, bounds>>

\* Mutant: the loop stops one worker short.
join_short ==
  /\ pc = "join"
  /\ IF k + 1 \in Spawned THEN worker[k] = "exited" /\ k' = k + 1 /\ UNCHANGED pc
                          ELSE pc' = "free" /\ UNCHANGED k
  /\ UNCHANGED <<qlib, result, up, lists, workers, freed, bounds>>

\* pthread_join, worker by worker.
join ==
  /\ pc = "join"
  /\ IF k \in Spawned THEN worker[k] = "exited" /\ k' = k + 1 /\ UNCHANGED pc
                      ELSE pc' = "free" /\ UNCHANGED k
  /\ UNCHANGED <<qlib, result, up, lists, workers, freed, bounds>>

\* The workers' structures and the ready queues are freed.
free_sheps ==
  /\ pc = "free"
  /\ freed' = TRUE /\ pc' = "normal"
  /\ worker' = [w \in Spawned |-> IF worker[w] = "exited" THEN "none" ELSE worker[w]]
  /\ queue' = [s \in Shep |-> <<>>]
  /\ UNCHANGED <<qlib, k, result, up, lists, wactive, bounds>>

\* cleanup_barrier forgets its pool.  A subsystem with functions on two lists is down after the later of them.
normal_funcs ==
  /\ pc = "normal"
  /\ IF normal # <<>> THEN /\ normal' = Tail(normal) /\ UNCHANGED pc
                           /\ up' = IF Head(normal) \in Late THEN up ELSE up \ {Head(normal)}
                           /\ pool' = IF Head(normal) = "barrier" THEN [pool EXCEPT !["barrier"] = "null"] ELSE pool
                      ELSE pc' = "mccoy" /\ UNCHANGED <<normal, up, pool>>
  /\ UNCHANGED <<qlib, k, result, early, late, workers, freed, bounds>>

\* The structure of the original thread goes back to its memory pool.
free_mccoy ==
  /\ pc = "mccoy" /\ pc' = "late"
  /\ UNCHANGED <<qlib, k, result, up, lists, workers, freed, bounds>>

\* qlfqueue_internal_cleanup destroys its pool and keeps the pointer to it.
late_funcs ==
  /\ pc = "late"
  /\ IF late # <<>> THEN /\ late' = Tail(late) /\ up' = up \ {Head(late)} /\ UNCHANGED pc
                         /\ pool' = IF Head(late) = "qlfqueue" THEN [pool EXCEPT !["qlfqueue"] = "freed"] ELSE pool
                    ELSE pc' = "pools" /\ UNCHANGED <<late, up, pool>>
  /\ UNCHANGED <<qlib, k, result, early, normal, workers, freed, bounds>>

\* The task pools, then qlib itself.
free_qlib ==
  /\ pc = "pools" /\ pc' = "user" /\ qlib' = FALSE /\ up' = up \ {"gendists"} /\ result' = "none"
  /\ UNCHANGED <<k, lists, workers, freed, bounds>>

Original ==
  \/ InitSubsystem \/ mccoy \/ CreateWorker \/ Initialized
  \/ sentinel \/ SentinelsDone \/ early_funcs \/ join \/ free_sheps \/ normal_funcs
  \/ free_mccoy \/ late_funcs \/ free_qlib

Next ==
  \/ initialize \/ finalize \/ spawn \/ yield \/ Original
  \/ \E f \in Lazy : create(f)
  \/ \E w \in Spawned : master(w) \/ steal(w)

Spec == Init /\ [][Next]_vars
Fails == GendistsFails \/ CreateFails

---------------------------------------------------------------------------
\* Nothing a worker may touch is freed or torn down while a worker is alive (qthread.c:1171:
\* "DO NOT FREE MEMORY YET! When some shepherds are still alive, they may be attempting to
\* steal"), although workers that start inactive and workers that are inactive when
\* qthread_finalize is called take part.
WorkersFirst ==
  (\E w \in Spawned : worker[w] = "running") => /\ ~freed /\ ToSet(Subsystems) \subseteq up
                                                /\ pc \notin {"normal", "mccoy", "late", "pools"}

\* Each subsystem goes down before those that were up when it was initialised and that run
\* their clean-up from the same list: the functions of a list run in the reverse of the
\* order they were registered in, over any number of restarts.  The memory pools outlive
\* the return of the original thread's structure (which uses them) and every normal function.
ReverseOrder ==
  /\ \A l \in {normal, late} : \A i, j \in DOMAIN l :
       i < j => LET Pos(f) == IF f \in Lazy THEN 99 ELSE CHOOSE n \in DOMAIN Subsystems : Subsystems[n] = f
                IN Pos(l[i]) > Pos(l[j])
  /\ pc \in {"normal", "mccoy"} => "mpool" \in up

\* When the runtime is down nothing is left over for the next start: every subsystem was
\* torn down exactly once, the lists are empty, no worker is alive.
CleanWhenDown ==
  ~qlib => /\ up = {} /\ early = <<>> /\ normal = <<>> /\ late = <<>>
           /\ \A w \in Spawned : worker[w] = "none"
=============================================================================
