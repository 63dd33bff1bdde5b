------------------------------- MODULE Tasks -------------------------------
(***************************************************************************)
(* The life of a task (src/src/qthread.c): qthread_spawn creates it, the    *)
(* master loop of a worker takes it off a queue, sends it home, reroutes it *)
(* around a disabled shepherd or runs it; it yields, swaps directly with a  *)
(* task it spawned, migrates, blocks on the return value of another task,   *)
(* returns and is freed.  Any task may disable and enable shepherds and     *)
(* workers meanwhile (shepherds.c, workers.c).                              *)
(*                                                                          *)
(* The ready queues and the spawn caches are sets here: their order and the *)
(* stealing protocol are modelled by Sherwood.  A step of the task that     *)
(* runs on worker w and the clean-up the master does for it after the       *)
(* context switch are separate actions, so that whatever another worker     *)
(* does in between is explored.                                             *)
(***************************************************************************)
EXTENDS Integers, Sequences, FiniteSets

CONSTANTS NSheps,    \* qlib->nshepherds
          PerShep,   \* qlib->nworkerspershep
          Task,      \* the tasks a program may spawn, and Main
          NoTask,    \* no task (NULL)
          Main,      \* the task of the original thread, QTHREAD_REAL_MCCOY
          Programs,  \* functions from tasks to sequences of operations
          Near,      \* sorted_sheplist of every shepherd
          Dist       \* shep_dists of every shepherd

Shep == 0..NSheps-1
Worker == 0..NSheps*PerShep-1
NoShep == -1      \* NO_SHEPHERD

\* A worker's id is split the way qthread_disable_worker splits it.
ShepOf(w) == w % NSheps

VARIABLES prog,     \* the program of every task
          ip,       \* the next operation of every task
          state,    \* thread_state, "none" before the spawn, "freed" after the free
          target,   \* target_shepherd
          pinned,   \* the flag QTHREAD_UNSTEALABLE
          simple,   \* the flag QTHREAD_SIMPLE
          at,       \* rdata->shepherd_ptr
          ready,    \* the ready queue of every shepherd
          cache,    \* the spawn cache of every worker
          pc,       \* where the master of a worker is
          hand,     \* the task the master of a worker holds, outside any queue
          current,  \* the task that runs on a worker
          prev,     \* the task a direct swap has left, not yet enqueued
          full,     \* the full/empty bit of a task's return location
          locked,   \* its FEB lock, held until the master of the blocking task drops it
          waiting,  \* the tasks blocked on it
          active, wactive,
          down      \* the shepherds that have ever been disabled (history)

vars == <<prog, ip, state, target, pinned, simple, at, ready, cache, pc, hand, current, prev,
          full, locked, waiting, active, wactive, down>>

flags == <<target, pinned, simple>>
febs == <<full, locked, waiting>>
switches == <<active, wactive, down>>

\* The original thread runs on worker 0 when qthread_initialize returns.
Init ==
  /\ prog \in Programs
  /\ ip = [t \in Task |-> 1]
  /\ state = [t \in Task |-> IF t = Main THEN "running" ELSE "none"]
  /\ target = [t \in Task |-> NoShep]
  /\ pinned = [t \in Task |-> t = Main]
  /\ simple = [t \in Task |-> FALSE]
  /\ at = [t \in Task |-> IF t = Main THEN 0 ELSE NoShep]
  /\ ready = [s \in Shep |-> {}]
  /\ cache = [w \in Worker |-> {}]
  /\ pc = [w \in Worker |-> IF w = 0 THEN "run" ELSE "get"]
  /\ hand = [w \in Worker |-> NoTask]
  /\ current = [w \in Worker |-> IF w = 0 THEN Main ELSE NoTask]
  /\ prev = [w \in Worker |-> NoTask]
  /\ full = [t \in Task |-> TRUE]
  /\ locked = [t \in Task |-> FALSE]
  /\ waiting = [t \in Task |-> {}]
  /\ active = [s \in Shep |-> TRUE]
  /\ wactive = [w \in Worker |-> TRUE]
  /\ down = {}

---------------------------------------------------------------------------
\* The master loop.

\* A queue hands out the original thread only to the first worker of shepherd 0.
Takes(w, t) == t = Main => w = 0

\* Mutant: the spawn cache is flushed only into an empty queue.
flush_if_empty(w) ==
  /\ pc[w] = "get" /\ wactive[w] /\ cache[w] # {} /\ ready[ShepOf(w)] = {}
  /\ ready' = [ready EXCEPT ![ShepOf(w)] = cache[w]]
  /\ cache' = [cache EXCEPT ![w] = {}]
  /\ UNCHANGED <<prog, ip, state, at, flags, pc, hand, current, prev, febs, switches>>

\* qt_scheduler_get_thread: first what is in the spawn cache moves to the shepherd's queue.
flush_cache(w) ==
  /\ pc[w] = "get" /\ wactive[w] /\ cache[w] # {}
  /\ ready' = [ready EXCEPT ![ShepOf(w)] = @ \union cache[w]]
  /\ cache' = [cache EXCEPT ![w] = {}]
  /\ UNCHANGED <<prog, ip, state, at, flags, pc, hand, current, prev, febs, switches>>

\* Then a task of that queue, or, for an active shepherd without one, a stealable task of
\* another shepherd's queue.
get_thread(w) ==
  LET mine == {t \in ready[ShepOf(w)] : Takes(w, t)}
  IN /\ pc[w] = "get" /\ wactive[w] /\ cache[w] = {}
     /\ \E s \in Shep : \E t \in ready[s] :
          /\ IF mine # {} \/ ~active[ShepOf(w)] THEN s = ShepOf(w) /\ t \in mine ELSE ~pinned[t]
          /\ ready' = [ready EXCEPT ![s] = @ \ {t}]
          /\ hand' = [hand EXCEPT ![w] = t]
     /\ pc' = [pc EXCEPT ![w] = "dispatch"]
     /\ UNCHANGED <<prog, ip, state, at, flags, cache, current, prev, febs, switches>>

\* The master puts the task in its hand on the queue of shepherd s.
Reschedule(w, s) ==
  /\ at' = [at EXCEPT ![hand[w]] = s]
  /\ ready' = [ready EXCEPT ![s] = @ \union {hand[w]}]
  /\ hand' = [hand EXCEPT ![w] = NoTask]
  /\ pc' = [pc EXCEPT ![w] = "get"]
  /\ UNCHANGED <<prog, ip, state, flags, cache, current, prev, febs, switches>>

Away(w) == target[hand[w]] \notin {NoShep, ShepOf(w)} /\ active[target[hand[w]]]

SendHome(w) == pc[w] = "dispatch" /\ Away(w) /\ Reschedule(w, target[hand[w]])


\* qthread_find_active_shepherd: the first active one of the sorted list, and, of those
\* behind it at the same distance, one whose queue is shortest (ties are broken at random).
find_active_shepherd(s) ==
  LET l == Near[s]
      live == {i \in DOMAIN l : active[l[i]]}
      first == CHOOSE i \in live : \A j \in live : i <= j
      same == {i \in DOMAIN l : i >= first /\ Dist[s][l[i]] = Dist[s][l[first]]}
      Busy(i) == Cardinality(ready[l[i]])
  IN IF live = {} THEN {} ELSE {l[i] : i \in {j \in same : \A k \in same : Busy(j) <= Busy(k)}}

\* A disabled shepherd passes on the tasks of its queue.
Reroute(w) ==
  /\ pc[w] = "dispatch" /\ ~Away(w) /\ ~active[ShepOf(w)]
  /\ LET from == IF target[hand[w]] = NoShep THEN ShepOf(w) ELSE target[hand[w]]
         found == find_active_shepherd(from)
     IN \E s \in IF found = {} THEN {ShepOf(w)} ELSE found : Reschedule(w, s)

\* Mutant: the worker does not look whether its shepherd is active before it runs a task.
exec_any(w) ==
  /\ pc[w] = "dispatch" /\ ~Away(w)
  /\ current' = [current EXCEPT ![w] = hand[w]]
  /\ at' = [at EXCEPT ![hand[w]] = ShepOf(w)]
  /\ state' = [state EXCEPT ![hand[w]] = "running"]
  /\ hand' = [hand EXCEPT ![w] = NoTask]
  /\ pc' = [pc EXCEPT ![w] = "run"]
  /\ UNCHANGED <<prog, ip, flags, ready, cache, prev, febs, switches>>

\* qthread_exec
exec(w) ==
  /\ pc[w] = "dispatch" /\ ~Away(w) /\ active[ShepOf(w)]
  /\ current' = [current EXCEPT ![w] = hand[w]]
  /\ at' = [at EXCEPT ![hand[w]] = ShepOf(w)]
  /\ state' = [state EXCEPT ![hand[w]] = "running"]
  /\ hand' = [hand EXCEPT ![w] = NoTask]
  /\ pc' = [pc EXCEPT ![w] = "run"]
  /\ UNCHANGED <<prog, ip, flags, ready, cache, prev, febs, switches>>

---------------------------------------------------------------------------
\* What a running task does.

Running(w, op) ==
  LET t == current[w]
  IN /\ pc[w] = "run"
     /\ IF ip[t] > Len(prog[t]) THEN op = "return" ELSE op = prog[t][ip[t]].op

Arg(w) == prog[current[w]][ip[current[w]]]

Step(w) == ip' = [ip EXCEPT ![current[w]] = @ + 1]

\* qthread_thread_new, the return location and the queueing of qthread_spawn.  A spawn with
\* a target pins the task and goes to the target's queue, any other to the spawn cache.
thread_new(t, s, isSimple) ==
  /\ state' = [state EXCEPT ![t] = "new"]
  /\ target' = [target EXCEPT ![t] = s]
  /\ pinned' = [pinned EXCEPT ![t] = s # NoShep]
  /\ simple' = [simple EXCEPT ![t] = isSimple]

SpawnTarget(w) == IF Arg(w).shep = NoShep THEN NoShep ELSE Arg(w).shep % NSheps

spawn(w) ==
  /\ Running(w, "spawn")
  /\ LET t == Arg(w).task
         s == SpawnTarget(w)
     IN /\ state[t] = "none"
        /\ thread_new(t, s, Arg(w).simple)
        /\ full' = [full EXCEPT ![t] = FALSE]
        /\ IF s = NoShep THEN cache' = [cache EXCEPT ![w] = @ \union {t}] /\ UNCHANGED ready
                         ELSE ready' = [ready EXCEPT ![s] = @ \union {t}] /\ UNCHANGED cache
  /\ Step(w)
  /\ UNCHANGED <<prog, at, pc, hand, current, prev, locked, waiting, switches>>

\* The switch back to the master, which finds the task in state st.
back_to_master(w, st) ==
  /\ state' = [state EXCEPT ![current[w]] = st]
  /\ hand' = [hand EXCEPT ![w] = current[w]]
  /\ current' = [current EXCEPT ![w] = NoTask]
  /\ pc' = [pc EXCEPT ![w] = "clean"]

\* qthread_yield_(0)
yield(w) ==
  /\ Running(w, "yield") /\ Step(w) /\ back_to_master(w, "yielded")
  /\ UNCHANGED <<prog, at, flags, ready, cache, prev, febs, switches>>

\* qthread_yield_(2): a new full task of the spawn cache runs at once in place of the
\* caller; with an empty cache, or a task that cannot be swapped to, a plain yield.
yield_direct(w) ==
  /\ Running(w, "direct") /\ Step(w)
  /\ \/ \E n \in cache[w] :
          /\ ~simple[n] /\ state[n] = "new"
          /\ cache' = [cache EXCEPT ![w] = @ \ {n}]
          /\ at' = [at EXCEPT ![n] = at[current[w]]]
          /\ state' = [state EXCEPT ![n] = "yielded"]
          /\ prev' = [prev EXCEPT ![w] = current[w]]
          /\ current' = [current EXCEPT ![w] = n]
          /\ pc' = [pc EXCEPT ![w] = "swapped"]
          /\ UNCHANGED hand
     \/ /\ cache[w] = {} \/ \E n \in cache[w] : simple[n] \/ state[n] # "new"
        /\ back_to_master(w, "yielded")
        /\ UNCHANGED <<cache, at, prev>>
  /\ UNCHANGED <<prog, flags, ready, febs, switches>>

\* qthread_wrapper of the task swapped to: only now, off its stack, is the caller enqueued.
wrapper_swapped(w) ==
  /\ pc[w] = "swapped"
  /\ state' = [state EXCEPT ![current[w]] = "running"]
  /\ ready' = [ready EXCEPT ![at[current[w]]] = @ \union {prev[w]}]
  /\ prev' = [prev EXCEPT ![w] = NoTask]
  /\ pc' = [pc EXCEPT ![w] = "run"]
  /\ UNCHANGED <<prog, ip, at, flags, cache, hand, current, febs, switches>>

\* Mutant: the caller keeps running where it is.
migrate_stay(w) ==
  LET t == current[w]
      s == Arg(w).shep
  IN /\ Running(w, "migrate") /\ Step(w)
     /\ target' = [target EXCEPT ![t] = s]
     /\ pinned' = [pinned EXCEPT ![t] = s # NoShep]
     /\ UNCHANGED <<prog, state, pc, hand, current, at, simple, ready, cache, prev, febs, switches>>

\* qthread_migrate_to
migrate_to(w) ==
  LET t == current[w]
      s == Arg(w).shep
  IN /\ Running(w, "migrate") /\ Step(w)
     /\ IF t = Main \/ s >= NSheps THEN UNCHANGED <<state, hand, current, pc, target, pinned>>
        ELSE /\ target' = [target EXCEPT ![t] = s]
             /\ pinned' = [pinned EXCEPT ![t] = s # NoShep]
             /\ IF s \in {at[t], NoShep} THEN UNCHANGED <<state, hand, current, pc>>
                                         ELSE back_to_master(w, "migrating")
     /\ UNCHANGED <<prog, at, simple, ready, cache, prev, febs, switches>>

\* Mutant: the reader drops the lock itself, while it is still on its stack.
readFF_unlocked(w) ==
  LET c == Arg(w).task
  IN /\ Running(w, "join") /\ ~locked[c] /\ Step(w)
     /\ IF full[c] THEN UNCHANGED <<state, hand, current, pc, waiting>>
        ELSE /\ back_to_master(w, "blocked")
             /\ waiting' = [waiting EXCEPT ![c] = @ \union {current[w]}]
     /\ UNCHANGED <<prog, at, flags, ready, cache, prev, full, locked, switches>>

\* qthread_readFF of the return location of another task: when it is empty the reader is
\* put on the wait list and keeps the lock, which its master drops.
readFF(w) ==
  LET c == Arg(w).task
  IN /\ Running(w, "join") /\ ~locked[c] /\ Step(w)
     /\ IF full[c] THEN UNCHANGED <<state, hand, current, pc, locked, waiting>>
        ELSE /\ back_to_master(w, "blocked")
             /\ waiting' = [waiting EXCEPT ![c] = @ \union {current[w]}]
             /\ locked' = [locked EXCEPT ![c] = TRUE]
     /\ UNCHANGED <<prog, at, flags, ready, cache, prev, full, switches>>

\* qt_feb_schedule: where worker w puts the tasks T it wakes.
feb_schedule(w, T) ==
  LET far == {t \in T : pinned[t] /\ at[t] # ShepOf(w)}
  IN /\ ready' = [s \in Shep |-> ready[s] \union {t \in far : at[t] = s}]
     /\ cache' = [cache EXCEPT ![w] = @ \union (T \ far)]

\* The end of qthread_wrapper: writeEF of the return value wakes the readers.  The original
\* thread returns from main, which is no part of this.
return(w) ==
  LET t == current[w]
  IN /\ Running(w, "return") /\ t # Main /\ ~locked[t]
     /\ feb_schedule(w, waiting[t])
     /\ full' = [full EXCEPT ![t] = TRUE]
     /\ waiting' = [waiting EXCEPT ![t] = {}]
     /\ state' = [x \in Task |-> IF x = t THEN "terminated" ELSE IF x \in waiting[t] THEN "running" ELSE state[x]]
     /\ hand' = [hand EXCEPT ![w] = t]
     /\ current' = [current EXCEPT ![w] = NoTask]
     /\ pc' = [pc EXCEPT ![w] = "clean"]
     /\ UNCHANGED <<prog, ip, at, flags, prev, locked, switches>>

---------------------------------------------------------------------------
\* qthread_disable_shepherd, qthread_enable_shepherd, qthread_disable_worker and
\* qthread_enable_worker: the flags (the counters they also keep change nothing here).

Switch(w, op) ==
  /\ Running(w, op) /\ Step(w)
  /\ UNCHANGED <<prog, state, at, flags, ready, cache, pc, hand, current, prev, febs>>

SetShep(s, b) ==
  /\ active' = [active EXCEPT ![s] = b]
  /\ down' = IF b THEN down ELSE down \union {s}

disable_shepherd(w) ==
  /\ Switch(w, "disable") /\ UNCHANGED wactive
  /\ IF Arg(w).shep = 0 THEN UNCHANGED <<active, down>> ELSE SetShep(Arg(w).shep, FALSE)

enable_shepherd(w) == Switch(w, "enable") /\ UNCHANGED wactive /\ SetShep(Arg(w).shep, TRUE)

disable_worker(w) ==
  LET v == Arg(w).worker
  IN /\ Switch(w, "disablew")
     /\ IF v = 0 THEN UNCHANGED switches
        ELSE /\ wactive' = [wactive EXCEPT ![v] = FALSE]
             /\ IF v \div NSheps = 0 THEN SetShep(ShepOf(v), FALSE) ELSE UNCHANGED <<active, down>>

enable_worker(w) ==
  LET v == Arg(w).worker
  IN /\ Switch(w, "enablew")
     /\ wactive' = [wactive EXCEPT ![v] = TRUE]
     /\ IF v \div NSheps = 0 THEN SetShep(ShepOf(v), TRUE) ELSE UNCHANGED <<active, down>>

---------------------------------------------------------------------------
\* What the master does after the switch, by the state of the task.

Cleans(w, st) ==
  /\ pc[w] = "clean" /\ state[hand[w]] = st
  /\ hand' = [hand EXCEPT ![w] = NoTask]
  /\ pc' = [pc EXCEPT ![w] = "get"]
  /\ UNCHANGED <<prog, ip, flags, cache, current, prev, full, waiting, switches>>

Migrating(w) ==
  LET t == hand[w]
  IN /\ Cleans(w, "migrating")
     /\ state' = [state EXCEPT ![t] = "running"]
     /\ at' = [at EXCEPT ![t] = target[t]]
     /\ ready' = [ready EXCEPT ![target[t]] = @ \union {t}]
     /\ UNCHANGED locked

Yielded(w) ==
  LET t == hand[w]
  IN /\ Cleans(w, "yielded")
     /\ state' = [state EXCEPT ![t] = "running"]
     /\ ready' = [ready EXCEPT ![ShepOf(w)] = @ \union {t}]
     /\ UNCHANGED <<at, locked>>

FebBlocked(w) ==
  LET t == hand[w]
  IN /\ Cleans(w, "blocked")
     /\ locked' = [c \in Task |-> locked[c] /\ t \notin waiting[c]]
     /\ UNCHANGED <<state, at, ready>>

\* qthread_thread_free
Terminated(w) ==
  /\ Cleans(w, "terminated")
  /\ state' = [state EXCEPT ![hand[w]] = "freed"]
  /\ UNCHANGED <<at, ready, locked>>

---------------------------------------------------------------------------
Master(w) ==
  \/ flush_cache(w) \/ get_thread(w) \/ SendHome(w) \/ Reroute(w) \/ exec(w)
  \/ Migrating(w) \/ Yielded(w) \/ FebBlocked(w) \/ Terminated(w)

Runs(w) ==
  \/ spawn(w) \/ yield(w) \/ migrate_to(w) \/ readFF(w) \/ return(w)
  \/ disable_shepherd(w) \/ enable_shepherd(w) \/ disable_worker(w) \/ enable_worker(w)

Swaps(w) == yield_direct(w) \/ wrapper_swapped(w)

Works(w) == Master(w) \/ Runs(w) \/ Swaps(w)
Next == \E w \in Worker : Works(w)

Spec == Init /\ [][Next]_vars

---------------------------------------------------------------------------

\* The places task t is in: queues, caches, masters' hands, workers.
Places(t) ==
  {<<"ready", s>> : s \in {x \in Shep : t \in ready[x]}}
  \union {<<"cache", w>> : w \in {x \in Worker : t \in cache[x]}}
  \union {<<"hand", w>> : w \in {x \in Worker : hand[x] = t}}
  \union {<<"current", w>> : w \in {x \in Worker : current[x] = t}}
  \union {<<"prev", w>> : w \in {x \in Worker : prev[x] = t}}

\* A task that has been spawned and not freed is in exactly one place, so that no two
\* workers ever run on the same stack, whatever a worker does between a task's last
\* instruction and the clean-up of its master; a blocked task is in none once its master
\* has dropped the lock, and on the wait list of exactly one return location; a freed task
\* is nowhere (the states of qthread_master, the hand-over in qthread_wrapper).
OnePlace ==
  \A t \in Task :
    LET held == \E c \in Task : t \in waiting[c] /\ ~locked[c]
    IN /\ Cardinality(Places(t)) = IF state[t] \in {"none", "freed"} \/ held THEN 0 ELSE 1
       /\ Cardinality({c \in Task : t \in waiting[c]}) = IF state[t] = "blocked" THEN 1 ELSE 0

\* A task with a target shepherd runs there, unless that shepherd has been disabled at some
\* time: neither stealing, nor the wake-up into the waker's spawn cache, nor a direct swap
\* makes it run elsewhere (the first branch of qthread_master, qt_feb_schedule).
RunsAtHome ==
  \A w \in Worker : LET t == current[w]
                    IN pc[w] = "run" /\ target[t] # NoShep => target[t] = ShepOf(w) \/ target[t] \in down

\* A worker begins to run a task only while its shepherd is active, or by a direct swap.
StartsWhenActive ==
  \A w \in Worker : current'[w] \notin {NoTask, current[w]} => active[ShepOf(w)] \/ pc'[w] = "swapped"

\* A task taken off the queue of a disabled shepherd goes to an active one, or to one that
\* is as near as the nearest active one.
RerouteToActive ==
  \A w \in Worker :
    ~active[ShepOf(w)] /\ hand[w] # NoTask /\ pc[w] = "dispatch" /\ hand'[w] = NoTask =>
      LET t == hand[w]
          from == IF target[t] = NoShep THEN ShepOf(w) ELSE target[t]
      IN \/ active[at'[t]]
         \/ \E s \in Shep \ {from} :
              /\ active[s] /\ Dist[from][s] = Dist[from][at'[t]]
              /\ \A r \in Shep \ {from} : active[r] => Dist[from][s] <= Dist[from][r]

\* Every task that was spawned has run to its end, and the original thread too -- or it is
\* in, or waits for a task that is in, the queue of a shepherd that has no worker left.
Stranded(t) == \E s \in Shep : t \in ready[s] /\ \A w \in Worker : ShepOf(w) = s => ~wactive[w]
Rested ==
  \/ \E t \in Task : Stranded(t)
  \/ /\ ip[Main] > Len(prog[Main])
     /\ \A t \in Task \ {Main} : state[t] \in {"none", "freed"}
=============================================================================
