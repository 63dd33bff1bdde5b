------------------------------ MODULE Sherwood ------------------------------
(***************************************************************************)
(* The default scheduler, src/threadqueues/sherwood_threadqueues.c: a      *)
(* queue per shepherd that its workers use as a stack, the spawn cache of  *)
(* each worker (src/spawncache.c), stealing from the other end, and the    *)
(* protocol of the field stealing: 0, 1 while one worker of the shepherd   *)
(* steals, 2 while the original thread waits for worker 0.  An operation   *)
(* under qlock is one step; SherwoodList has the pointers.  The tasks are  *)
(* seen from a worker's master loop (qthread_master): one runs until it    *)
(* spawns, yields, waits for the others, or ends.                          *)
(***************************************************************************)
EXTENDS Naturals, Sequences, FiniteSets, SequencesExt

CONSTANTS Worker, Task,
          Main,       \* the original thread (QTHREAD_REAL_MCCOY), a task
          Script,     \* [Task -> Seq(<<op>> or <<"spawn", task>>)]
          Zero,       \* worker 0 of shepherd 0
          NULL,
          Shep, shepherd,      \* shepherds, and that of each worker
          Unstealable          \* QTHREAD_UNSTEALABLE

VARIABLES pc, cur,        \* of each worker: where it is, and the task it holds
          todo,           \* what is left of each task's script
          waiting,        \* Main waits for the others
          done,
          q,                   \* per shepherd; the tail is the last element
          deck, cache,         \* per worker: the spawn cache
          stealing,            \* per shepherd
          idx, want            \* per worker: position in sorted_sheplist, tasks wanted
client == <<pc, cur, todo, waiting, done>>
vars == <<client, q, deck, cache, stealing, idx, want>>

-----------------------------------------------------------------------------
\* The tasks.

InitClient ==
    /\ pc = [w \in Worker |-> IF w = Zero THEN "run" ELSE "look"]
    /\ cur = [w \in Worker |-> IF w = Zero THEN Main ELSE NULL]
    /\ todo = Script /\ waiting = FALSE /\ done = {}

Runs(w, op) == pc[w] = "run" /\ todo[cur[w]] # <<>> /\ Head(todo[cur[w]])[1] = op
Advance(w)  == todo' = [todo EXCEPT ![cur[w]] = Tail(@)]
Leave(w)    == pc' = [pc EXCEPT ![w] = "look"] /\ cur' = [cur EXCEPT ![w] = NULL]

\* qthread_spawn; the scheduler queues Child(w).
Spawns(w) == Runs(w, "spawn") /\ Advance(w) /\ UNCHANGED <<pc, cur, waiting, done>>
Child(w)  == Head(todo[cur[w]])[2]

\* qthread_yield_(0) and (1); the scheduler queues the task again.
Yields(w, kind) == Runs(w, kind) /\ Advance(w) /\ Leave(w) /\ UNCHANGED <<waiting, done>>

\* A full/empty read of what the others return; blocked tasks are in no queue.
Waits(w) ==
    /\ Runs(w, "wait") /\ Advance(w) /\ UNCHANGED done
    /\ IF Task \ {Main} \subseteq done THEN UNCHANGED <<pc, cur, waiting>>
       ELSE waiting' = TRUE /\ Leave(w)

\* The task ends; the last one wakes Main, which the scheduler queues.
Wakes(w) == waiting /\ Task \ {Main} \subseteq done \cup {cur[w]}
Ends(w) ==
    /\ pc[w] = "run" /\ todo[cur[w]] = <<>>
    /\ done' = done \cup {cur[w]} /\ Leave(w)
    /\ waiting' = (waiting /\ ~Wakes(w)) /\ UNCHANGED todo

Goto(w, l) == pc' = [pc EXCEPT ![w] = l]

\* The tasks that exist: spawned and not ended.
Spawned == {t \in Task : t = Main \/ \A p \in Task : \A i \in DOMAIN todo[p] : todo[p][i] # <<"spawn", t>>}
Live == Spawned \ done

-----------------------------------------------------------------------------
\* Queues and spawn caches.

Me(w) == shepherd[w]
stealable(s) == Len(SelectSeq(s, LAMBDA t : t \notin Unstealable))    \* qlength_stealable

Init ==
    /\ InitClient
    /\ q = [s \in Shep |-> <<>>] /\ stealing = [s \in Shep |-> 0]
    /\ deck = [w \in Worker |-> NULL] /\ cache = [w \in Worker |-> <<>>]
    /\ idx = [w \in Worker |-> 0] /\ want = [w \in Worker |-> 0]

enqueue(s, t)         == q' = [q EXCEPT ![s] = Append(@, t)] /\ UNCHANGED <<deck, cache>>
enqueue_yielded(s, t) == q' = [q EXCEPT ![s] = <<t>> \o @] /\ UNCHANGED <<deck, cache>>

\* qt_spawncache_spawn
private_enqueue(w, t) ==
    /\ deck' = [deck EXCEPT ![w] = t]
    /\ cache' = IF deck[w] = NULL THEN cache ELSE [cache EXCEPT ![w] = Append(@, deck[w])]
    /\ UNCHANGED q

\* qt_spawncache_yield
private_enqueue_yielded(w, t) == cache' = [cache EXCEPT ![w] = <<t>> \o @] /\ UNCHANGED <<q, deck>>

\* qt_feb_schedule: an unstealable task goes back to its own shepherd.
schedule(w, t) == IF t \in Unstealable /\ Me(w) # Me(Zero) THEN enqueue(Me(Zero), t)
                  ELSE private_enqueue(w, t)

Steady == UNCHANGED <<stealing, idx, want>>
spawn(w) == Spawns(w) /\ private_enqueue(w, Child(w)) /\ Steady
yield(w) == Yields(w, "yield") /\ enqueue_yielded(Me(w), cur[w]) /\ Steady
yield_near(w) == Yields(w, "near") /\ private_enqueue_yielded(w, cur[w]) /\ Steady
wait(w)  == Waits(w) /\ UNCHANGED <<q, deck, cache>> /\ Steady
end(w)   == /\ Ends(w) /\ Steady
            /\ IF Wakes(w) THEN schedule(w, Main) ELSE UNCHANGED <<q, deck, cache>>

-----------------------------------------------------------------------------
\* qt_scheduler_get_thread

\* The task on deck, with the rest of the cache moved to the queue.
get_cached(w) ==
    /\ pc[w] = "look" /\ deck[w] # NULL
    /\ cur' = [cur EXCEPT ![w] = deck[w]] /\ Goto(w, "got")
    /\ deck' = [deck EXCEPT ![w] = NULL] /\ cache' = [cache EXCEPT ![w] = <<>>]
    /\ q' = [q EXCEPT ![Me(w)] = @ \o cache[w]]
    /\ UNCHANGED <<todo, waiting, done>> /\ Steady

\* q->head is read without the lock ...
peek(w) ==
    /\ pc[w] = "look" /\ deck[w] = NULL
    /\ Goto(w, IF q[Me(w)] # <<>> THEN "lock" ELSE "none")
    /\ UNCHANGED <<cur, todo, waiting, done, q, deck, cache>> /\ Steady

\* ... and the tail is taken under it, if there still is one.
get_shared(w) ==
    /\ pc[w] = "lock"
    /\ IF q[Me(w)] = <<>> THEN Goto(w, "none") /\ UNCHANGED <<cur, q>>
       ELSE /\ cur' = [cur EXCEPT ![w] = Last(q[Me(w)])] /\ q' = [q EXCEPT ![Me(w)] = Front(@)]
            /\ Goto(w, "got")
    /\ UNCHANGED <<todo, waiting, done, deck, cache>> /\ Steady

\* Nothing: wait for the shepherd's thief, or become it.
none(w) ==
    /\ pc[w] = "none"
    /\ \/ stealing[Me(w)] # 0 /\ Goto(w, "spin")
       \/ stealing[Me(w)] = 0 /\ Goto(w, IF Cardinality(Shep) > 1 THEN "cas" ELSE "look")
    /\ UNCHANGED <<cur, todo, waiting, done, q, deck, cache>> /\ Steady

spin(w) ==
    /\ pc[w] = "spin" /\ IF w = Zero THEN stealing[Me(w)] # 1 ELSE stealing[Me(w)] = 0
    /\ Goto(w, "look") /\ UNCHANGED <<cur, todo, waiting, done, q, deck, cache>> /\ Steady

\* qthread_steal: compare-and-swap of stealing
elect(w) ==
    /\ pc[w] = "cas"
    /\ IF stealing[Me(w)] = 0
       THEN stealing' = [stealing EXCEPT ![Me(w)] = 1] /\ idx' = [idx EXCEPT ![w] = 1] /\ Goto(w, "victim")
       ELSE Goto(w, "look") /\ UNCHANGED <<stealing, idx>>
    /\ UNCHANGED <<cur, todo, waiting, done, q, deck, cache, want>>

Victims(w) == SetToSeq(Shep \ {Me(w)})     \* sorted_sheplist
Victim(w)  == Victims(w)[idx[w]]

\* The victim's length is read without its lock; half of it is wanted.
size_up(w) ==
    /\ pc[w] = "victim"
    /\ LET n == stealable(q[Victim(w)]) IN
       /\ want' = [want EXCEPT ![w] = IF n \div 2 = 0 THEN 1 ELSE n \div 2]
       /\ Goto(w, IF n # 0 THEN "rob" ELSE "home")
    /\ UNCHANGED <<cur, todo, waiting, done, q, deck, cache, stealing, idx>>

\* The first want[w] stealable tasks from the head, and the victim's queue without them.
Loot(s, n) ==
    LET is == {i \in DOMAIN s : s[i] \notin Unstealable /\
                                 Cardinality({j \in 1..i : s[j] \notin Unstealable}) <= n}
    IN  [taken |-> [k \in 1..Cardinality(is) |-> s[CHOOSE i \in is : Cardinality({j \in is : j <= i}) = k]],
         left  |-> SelectSeq(s, LAMBDA t : \A i \in is : s[i] # t)]

\* Mutant of rob: the surplus is left behind.
rob_surplus_dropped(w) ==
    /\ pc[w] = "rob"
    /\ LET r == Loot(q[Victim(w)], want[w]) IN
       IF r.taken = <<>> THEN Goto(w, "home") /\ UNCHANGED <<cur, q>>
       ELSE /\ cur' = [cur EXCEPT ![w] = Head(r.taken)] /\ Goto(w, "stop")
            /\ q' = [q EXCEPT ![Victim(w)] = r.left]
    /\ UNCHANGED <<todo, waiting, done, deck, cache>> /\ Steady

\* qt_threadqueue_dequeue_steal; the surplus goes to the thief's own queue.  The victim's
\* lock is only tried: it may be taken.
rob(w) ==
    /\ pc[w] = "rob"
    /\ LET r == Loot(q[Victim(w)], want[w]) IN
       IF r.taken = <<>> THEN Goto(w, "home") /\ UNCHANGED <<cur, q>>
       ELSE /\ cur' = [cur EXCEPT ![w] = Head(r.taken)] /\ Goto(w, "stop")
            /\ q' = [q EXCEPT ![Victim(w)] = r.left, ![Me(w)] = @ \o Tail(r.taken)]
    /\ UNCHANGED <<todo, waiting, done, deck, cache>> /\ Steady
rob_busy(w) ==
    /\ pc[w] = "rob" /\ Goto(w, "home")
    /\ UNCHANGED <<cur, todo, waiting, done, q, deck, cache>> /\ Steady

\* Work at home ends the attempt; otherwise the next victim, round and round.
home(w) ==
    /\ pc[w] = "home"
    /\ IF q[Me(w)] # <<>> THEN Goto(w, "stop") /\ UNCHANGED idx
       ELSE Goto(w, "victim") /\ idx' = [idx EXCEPT ![w] = IF @ < Len(Victims(w)) THEN @ + 1 ELSE 1]
    /\ UNCHANGED <<cur, todo, waiting, done, q, deck, cache, stealing, want>>

\* Mutant of steal_stop: the flag stays set.
steal_stop_flag(w) ==
    /\ pc[w] = "stop" /\ Goto(w, IF cur[w] = NULL THEN "look" ELSE "got")
    /\ UNCHANGED <<cur, todo, waiting, done, q, deck, cache>> /\ Steady

steal_stop(w) ==
    /\ pc[w] = "stop" /\ stealing' = [stealing EXCEPT ![Me(w)] = 0]
    /\ Goto(w, IF cur[w] = NULL THEN "look" ELSE "got")
    /\ UNCHANGED <<cur, todo, waiting, done, q, deck, cache, idx, want>>

\* Mutant of take: any worker runs the original thread.
take_any(w) ==
    /\ pc[w] = "got" /\ Goto(w, "run")
    /\ UNCHANGED <<cur, todo, waiting, done, q, deck, cache>> /\ Steady

\* A task in hand: the original thread runs on worker 0 only; another worker announces
\* it (stealing = 2) and puts it back.
take(w) ==
    /\ pc[w] = "got"
    /\ IF cur[w] = Main /\ w # Zero
       THEN stealing' = [stealing EXCEPT ![Me(w)] = 2] /\ Goto(w, "back")
       ELSE /\ stealing' = IF cur[w] = Main THEN [stealing EXCEPT ![Me(w)] = 0] ELSE stealing
            /\ Goto(w, "run")
    /\ UNCHANGED <<cur, todo, waiting, done, q, deck, cache, idx, want>>
put_back(w) ==
    /\ pc[w] = "back" /\ enqueue_yielded(Me(w), cur[w]) /\ Leave(w)
    /\ UNCHANGED <<todo, waiting, done>> /\ Steady

Search(w) == get_cached(w) \/ peek(w) \/ get_shared(w) \/ none(w) \/ spin(w) \/ elect(w) \/ size_up(w)
             \/ home(w) \/ steal_stop(w) \/ take(w) \/ put_back(w)
Work(w) == spawn(w) \/ yield(w) \/ yield_near(w) \/ wait(w) \/ end(w)
Next == \E w \in Worker : Search(w) \/ rob(w) \/ rob_busy(w) \/ Work(w)
Spec == Init /\ [][Next]_vars

-----------------------------------------------------------------------------
\* Every spawned task is in exactly one place, given the tasks that the scheduler's
\* queues hold as a list: none is lost, queued twice, or run by two workers.
Conserved(queued) ==
    LET places == SelectSeq(queued, LAMBDA t : t # NULL) IN
    \A t \in Task :
        Cardinality({i \in DOMAIN places : places[i] = t}) + Cardinality({w \in Worker : cur[w] = t})
          + (IF waiting /\ t = Main THEN 1 ELSE 0) = (IF t \in Live THEN 1 ELSE 0)

Everything ==
    FlattenSeq([i \in 1..Cardinality(Shep) |-> q[SetToSeq(Shep)[i]]])
    \o [i \in 1..Cardinality(Worker) |-> deck[SetToSeq(Worker)[i]]]
    \o FlattenSeq([i \in 1..Cardinality(Worker) |-> cache[SetToSeq(Worker)[i]]])

\* Between the unlocked peeks, the steals, the flushes of the spawn caches and the return
\* of the original thread to worker 0, every task is in exactly one place.
TasksConserved == Conserved(Everything)

\* Only worker 0 runs the original thread ("McCoy thread can only run on worker 0", line
\* 840), and no thief takes it or another unstealable task off its shepherd.
MainOnZero == /\ \A w \in Worker : pc[w] = "run" /\ cur[w] = Main => w = Zero
              /\ \A w \in Worker : cur[w] \in Unstealable => Me(w) = Me(Zero)

\* The workers of shepherd 0 hand the original thread back and forth: put_back queues it
\* where the same worker may take it again before worker 0 looks.
HandBack == \E w \in Worker : pc[w] = "back"

\* A task that yielded near is left in the cache of a worker that has nothing on deck:
\* get_cached does not look there, and only another spawn of that worker brings it out.
LeftInCache == \E w \in Worker : deck[w] = NULL /\ cache[w] # <<>>
=============================================================================
