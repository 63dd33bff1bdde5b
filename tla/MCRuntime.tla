----------------------------- MODULE MCRuntime -----------------------------
(***************************************************************************)
(* Small instances of the runtime: the life of tasks, the layout of        *)
(* shepherds and workers, and the start and stop of the library.  A        *)
(* behaviour is one of the component named by which.                       *)
(***************************************************************************)
EXTENDS Integers, Sequences, FiniteSets, TLC

CONSTANTS Which, NULL

VARIABLES which, prog, ip, state, target, pinned, simple, at, ready, cache, pc, hand, current,
          prev, full, locked, waiting, active, wactive, down, backend, machine, env, single,
          stage, nsheps, nworkers, hw_par, node, left, over, me, s, tmp, qlib, k, result, up,
          pool, early, normal, late, worker, queue, freed, calls, spawned
all == <<which, prog, ip, state, target, pinned, simple, at, ready, cache, pc, hand, current,
         prev, full, locked, waiting, active, wactive, down, backend, machine, env, single,
         stage, nsheps, nworkers, hw_par, node, left, over, me, s, tmp, qlib, k, result, up,
         pool, early, normal, late, worker, queue, freed, calls, spawned>>

\* A component has the variables that are named in the set S; those of the others are 0.
But(name, S, formula) == IF name \in S THEN TRUE ELSE formula
Unused(v) == v = 0
Same(v) == UNCHANGED v
Others(S, F(_)) ==
    /\ But("prog", S, F(prog)) /\ But("ip", S, F(ip)) /\ But("state", S, F(state))
    /\ But("target", S, F(target)) /\ But("pinned", S, F(pinned))
    /\ But("simple", S, F(simple)) /\ But("at", S, F(at)) /\ But("ready", S, F(ready))
    /\ But("cache", S, F(cache)) /\ But("pc", S, F(pc)) /\ But("hand", S, F(hand))
    /\ But("current", S, F(current)) /\ But("prev", S, F(prev)) /\ But("full", S, F(full))
    /\ But("locked", S, F(locked)) /\ But("waiting", S, F(waiting))
    /\ But("active", S, F(active)) /\ But("wactive", S, F(wactive))
    /\ But("down", S, F(down)) /\ But("backend", S, F(backend))
    /\ But("machine", S, F(machine)) /\ But("env", S, F(env))
    /\ But("single", S, F(single)) /\ But("stage", S, F(stage))
    /\ But("nsheps", S, F(nsheps)) /\ But("nworkers", S, F(nworkers))
    /\ But("hw_par", S, F(hw_par)) /\ But("node", S, F(node)) /\ But("left", S, F(left))
    /\ But("over", S, F(over)) /\ But("me", S, F(me)) /\ But("s", S, F(s))
    /\ But("tmp", S, F(tmp)) /\ But("qlib", S, F(qlib)) /\ But("k", S, F(k))
    /\ But("result", S, F(result)) /\ But("up", S, F(up)) /\ But("pool", S, F(pool))
    /\ But("early", S, F(early)) /\ But("normal", S, F(normal)) /\ But("late", S, F(late))
    /\ But("worker", S, F(worker)) /\ But("queue", S, F(queue))
    /\ But("freed", S, F(freed)) /\ But("calls", S, F(calls))
    /\ But("spawned", S, F(spawned))

-----------------------------------------------------------------------------
(* Programs: the original thread "m", and up to three tasks.               *)

Spawn(t)       == [op |-> "spawn", task |-> t, shep |-> -1, simple |-> FALSE]
SpawnTo(t, i)  == [op |-> "spawn", task |-> t, shep |-> i, simple |-> FALSE]
SpawnSimple(t) == [op |-> "spawn", task |-> t, shep |-> -1, simple |-> TRUE]
Join(t)     == [op |-> "join", task |-> t]
Yield       == [op |-> "yield"]
Direct      == [op |-> "direct"]
Migrate(i)  == [op |-> "migrate", shep |-> i]
Disable(i)  == [op |-> "disable", shep |-> i]
Enable(i)   == [op |-> "enable", shep |-> i]
DisableW(i) == [op |-> "disablew", worker |-> i]
EnableW(i)  == [op |-> "enablew", worker |-> i]

TaskNames == {"m", "a", "b", "c"}
P(x, y, z, u) == ("m" :> x) @@ ("a" :> y) @@ ("b" :> z) @@ ("c" :> u)

\* Two shepherds: tasks spawn, join, yield, swap directly and migrate; the only worker of
\* a shepherd is disabled, and the shepherd with it.
LifePrograms ==
  {P(<<Spawn("a"), SpawnTo("b", 3), Join("a"), Join("b")>>, <<Migrate(1), Yield, Join("b")>>, <<Yield>>, <<>>),
   P(<<Spawn("a"), Direct, Join("a"), Join("b")>>, <<SpawnTo("b", 0), Join("b")>>,
     <<Migrate(1), Migrate(7), Migrate(-1)>>, <<>>),
   P(<<SpawnTo("a", 1), Migrate(1), Join("b"), Join("a")>>, <<Spawn("b"), Direct, Migrate(0), Migrate(0)>>, <<Direct>>, <<>>),
   P(<<SpawnSimple("a"), Direct, Spawn("b"), Join("a"), Join("b")>>, <<Spawn("c")>>, <<Migrate(1)>>, <<>>),
   P(<<SpawnTo("a", 1), Join("a")>>, <<Spawn("b"), Disable(1), Direct>>, <<>>, <<>>),
   P(<<SpawnTo("a", 1), DisableW(1), Join("a")>>, <<>>, <<>>, <<>>)}

\* Three shepherds, of which tasks disable and enable two, while tasks are sent to them.
SwitchPrograms ==
  {P(<<SpawnTo("a", 1), SpawnTo("b", 2), Disable(1), Join("a"), Enable(1), Join("b")>>, <<Yield>>, <<Migrate(1)>>, <<>>),
   P(<<SpawnTo("a", 2), Disable(1), Disable(2), SpawnTo("b", 1), Join("a"), Join("b")>>, <<Yield>>, <<>>, <<>>),
   P(<<Spawn("a"), Spawn("b"), Join("a"), Join("b")>>, <<Migrate(2), Disable(2), Yield>>,
     <<Disable(0), Migrate(2), Enable(2)>>, <<>>),
   P(<<Disable(1), SpawnTo("a", 2), Join("a")>>, <<Migrate(1), Yield>>, <<>>, <<>>)}

\* Two workers of one shepherd.
WorkerPrograms ==
  {P(<<Spawn("a"), SpawnTo("b", 0), DisableW(1), Join("a"), EnableW(1), Join("b")>>, <<Yield>>, <<Yield>>, <<>>),
   P(<<Spawn("a"), DisableW(0), Join("a")>>, <<Spawn("b"), Direct, Join("b")>>, <<DisableW(1), EnableW(1), Yield>>, <<>>)}

\* Sorted lists and distances: two shepherds, one, three on a line, three all 10 apart.
Flat(n) == [i \in 0..n-1 |-> [j \in 0..n-1 |-> IF i = j THEN 0 ELSE 10]]
NearTwo == (0 :> <<1>>) @@ (1 :> <<0>>)
NearLine == (0 :> <<1, 2>>) @@ (1 :> <<2, 0>>) @@ (2 :> <<1, 0>>)
DistLine == (0 :> (0 :> 0 @@ 1 :> 20 @@ 2 :> 30)) @@ (1 :> (0 :> 20 @@ 1 :> 0 @@ 2 :> 10))
            @@ (2 :> (0 :> 30 @@ 1 :> 10 @@ 2 :> 0))
NearFlat == (0 :> <<1, 2>>) @@ (1 :> <<0, 2>>) @@ (2 :> <<0, 1>>)

T2 == INSTANCE Tasks WITH NSheps <- 2, PerShep <- 1, Task <- TaskNames, NoTask <- NULL, Main <- "m",
                          Programs <- LifePrograms, Near <- NearTwo, Dist <- Flat(2)
T1 == INSTANCE Tasks WITH NSheps <- 1, PerShep <- 2, Task <- TaskNames, NoTask <- NULL, Main <- "m",
                          Programs <- WorkerPrograms, Near <- (0 :> <<>>), Dist <- Flat(1)
TL == INSTANCE Tasks WITH NSheps <- 3, PerShep <- 1, Task <- TaskNames, NoTask <- NULL, Main <- "m",
                          Programs <- SwitchPrograms, Near <- NearLine, Dist <- DistLine
TF == INSTANCE Tasks WITH NSheps <- 3, PerShep <- 1, Task <- TaskNames, NoTask <- NULL, Main <- "m",
                          Programs <- SwitchPrograms, Near <- NearFlat, Dist <- Flat(3)
tvars == T2!vars

-----------------------------------------------------------------------------
(* Machines, as the CPUs of each node, and settings of the environment;    *)
(* and machines of three nodes for four shepherds.                         *)

AllBackends == {"no", "sys", "mach", "plpa", "tilera", "libnuma", "libnumaV2", "lgrp"}
NodeDist(x, y) == IF x = y THEN 10 ELSE IF {x, y} = {0, 1} THEN 15 ELSE 20

C == INSTANCE Topology WITH Backends <- AllBackends, Machines <- {<<2>>, <<1, 2>>, <<2, 0, 1>>},
                            Envs <- [sheps : 0..3, wps : 0..2, par : 0..5]
G == INSTANCE Topology WITH Backends <- AllBackends, Machines <- {<<1, 1, 2>>, <<1, 0, 3>>},
                            Envs <- [sheps : {4}, wps : {1}, par : {0}]

-----------------------------------------------------------------------------
(* Four workers, one of which starts inactive; and a start that may fail.  *)

B == INSTANCE Library WITH NSheps <- 2, PerShep <- 2, HwPar <- 3, Calls <- 4, MaxTasks <- 2
BF == INSTANCE Library WITH NSheps <- 2, PerShep <- 2, HwPar <- 3, Calls <- 2, MaxTasks <- 0
bvars == B!vars

-----------------------------------------------------------------------------

TaskUses == {"prog", "ip", "state", "target", "pinned", "simple", "at", "ready", "cache", "pc", "hand",
             "current", "prev", "full", "locked", "waiting", "active", "wactive", "down"}
TopoUses == {"backend", "machine", "env", "single", "stage", "nsheps", "nworkers", "hw_par", "node",
             "left", "at", "over", "me", "s", "tmp"}
LibUses  == {"qlib", "pc", "k", "result", "up", "pool", "early", "normal", "late", "worker", "wactive",
             "queue", "freed", "calls", "spawned"}

Init ==
    /\ which \in Which
    /\ \/ which = "life" /\ T2!Init /\ Others(TaskUses, Unused)
       \/ which = "workers" /\ T1!Init /\ Others(TaskUses, Unused)
       \/ which = "line" /\ TL!Init /\ Others(TaskUses, Unused)
       \/ which = "flat" /\ TF!Init /\ Others(TaskUses, Unused)
       \/ which = "counts" /\ C!Init /\ Others(TopoUses, Unused)
       \/ which = "sheplists" /\ G!Init /\ Others(TopoUses, Unused)
       \/ which = "library" /\ B!Init /\ Others(LibUses, Unused)
       \/ which = "library_fails" /\ BF!Init /\ Others(LibUses, Unused)

Next ==
    /\ UNCHANGED which
    /\ \/ which = "life" /\ T2!Next /\ Others(TaskUses, Same)
       \/ which = "workers" /\ T1!Next /\ Others(TaskUses, Same)
       \/ which = "line" /\ TL!Next /\ Others(TaskUses, Same)
       \/ which = "flat" /\ TF!Next /\ Others(TaskUses, Same)
       \/ which = "counts" /\ C!Next /\ Others(TopoUses, Same)
       \/ which = "sheplists" /\ G!Next /\ Others(TopoUses, Same)
       \/ which = "library" /\ B!Next /\ Others(LibUses, Same)
       \/ which = "library_fails" /\ (BF!Next \/ BF!Fails) /\ Others(LibUses, Same)

\* The threads keep running.  Which calls the original thread makes is its own affair.
Runs(i) ==
    \/ which = "life" /\ i \in 0..1 /\ T2!Works(i)
    \/ which = "workers" /\ i \in 0..1 /\ T1!Works(i)
    \/ which = "line" /\ i \in 0..2 /\ TL!Works(i)
    \/ which = "library" /\ i = 0 /\ B!Original
    \/ which = "library" /\ i \in 1..3 /\ B!master(i)
runvars == CASE which \in {"life", "workers", "line"} -> tvars
             [] which = "library" -> bvars
             [] OTHER -> 0
FairSpec == Init /\ [][Next]_all /\ \A i \in 0..3 : WF_runvars(UNCHANGED which /\ Runs(i))

-----------------------------------------------------------------------------

\* A task that has been spawned and not freed is in exactly one place, so that no two
\* workers ever run on the same stack, whatever a worker does between a task's last
\* instruction and the clean-up of its master; a blocked task is in none once its master
\* has dropped the lock, and on the wait list of exactly one return location; a freed task
\* is nowhere (the states of qthread_master, the hand-over in qthread_wrapper).
OneStack == /\ which = "life" => T2!OnePlace
            /\ which = "workers" => T1!OnePlace
            /\ which = "line" => TL!OnePlace
            /\ which = "flat" => TF!OnePlace

\* A task with a target shepherd runs there, unless that shepherd has been disabled at some
\* time: neither stealing, nor the wake-up into the waker's spawn cache, nor a direct swap
\* makes it run elsewhere (the first branch of qthread_master, qt_feb_schedule).
RunsAtHome == /\ which = "life" => T2!RunsAtHome
              /\ which = "workers" => T1!RunsAtHome
              /\ which = "line" => TL!RunsAtHome
              /\ which = "flat" => TF!RunsAtHome


\* The number of workers that start active is the number the counter nworkers_active
\* starts with, and every shepherd has its first worker among them, so that none starts
\* with a queue nobody serves (qt_topology_init's adjustment against the activation test of
\* qthread_initialize).
ActiveWorkers == which = "counts" => C!ActiveWorkers

\* As long as the shepherds do not outnumber the CPUs, no node is given to more shepherds
\* than it has CPUs (assign_nodes of libnumaV2, the search for an unused CPU in lgrp's
\* qt_affinity_gendists).
NoOversubscription == which = "sheplists" => G!NoOversubscription

\* The sorted list names every other shepherd once, nearest first (sort_sheps): stealing
\* and the rerouting around disabled shepherds rely on it.
SortedList == which = "sheplists" => G!SortedList

\* The layout of shepherds, workers and CPUs is consistent: see the three properties it
\* joins.
LayoutSound == ActiveWorkers /\ NoOversubscription /\ SortedList

\* Nothing a worker may touch is freed or torn down while a worker is alive (qthread.c:1171:
\* "DO NOT FREE MEMORY YET! When some shepherds are still alive, they may be attempting to
\* steal"), also when some workers are inactive, and when qthread_initialize fails half way.
WorkersFirst == /\ which = "library" => B!WorkersFirst
                /\ which = "library_fails" => BF!WorkersFirst

\* The functions of a clean-up list run in the reverse of the order in which they were
\* registered, over any number of restarts, and the memory pools outlive the return of the
\* original thread's structure, which uses them.
ReverseOrder == which = "library" => B!ReverseOrder

\* When the runtime is down nothing is left over for the next start: every subsystem was
\* torn down, the lists are empty, no worker is alive.
CleanWhenDown == /\ which = "library" => B!CleanWhenDown
                 /\ which = "library_fails" => BF!CleanWhenDown

\* The library shuts down in an order that is safe, and altogether: see the three
\* properties it joins.
CleanShutdown == WorkersFirst /\ ReverseOrder /\ CleanWhenDown

\* Every task that is spawned runs to its end, although shepherds are disabled under the
\* tasks in their queues and the tasks migrate, unless its shepherd has no worker left; and
\* qthread_initialize and qthread_finalize return: every worker, active or not, meets its
\* sentinel.  (Where two disabled shepherds are as near as an active one, a task may go to
\* and fro between them as long as the random choice among the three prefers them.)
Rested == CASE which = "life" -> T2!Rested
            [] which = "workers" -> T1!Rested
            [] which = "line" -> TL!Rested
            [] which = "library" -> pc = "user"
            [] OTHER -> TRUE
AllReturn == []<>Rested
=============================================================================
