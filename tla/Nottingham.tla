----------------------------- MODULE Nottingham -----------------------------
(***************************************************************************)
(* The nottingham thread queues                                            *)
(* (src/threadqueues/nottingham_threadqueues.c): a stack in an array, for  *)
(* each shepherd.  Enqueue and get hold the lock as readers: they swap the *)
(* top entry (value, index, counter) and help to copy it into the array    *)
(* (qt_threadqueue_finish).  The others hold it as writers and are atomic  *)
(* here, while no reader holds it (module RwLock).                         *)
(***************************************************************************)
EXTENDS Integers, Sequences, FiniteSets, SequencesExt

CONSTANTS Queue, size0,       \* the queues; their size at first (1024)
          Task, Worker,
          home,               \* the queue of each worker
          Prog,               \* [Worker -> Seq(operations)]
          Unstealable, Main, Zero,    \* QTHREAD_UNSTEALABLE; the McCoy task and the worker it needs
          Chunk,              \* qthread_steal_chunksize()
          NULL

VARIABLES top, base, bottom, empty, spinlock, stealing,
          steal_disable,      \* never initialised
          yielded,            \* tasks in state QTHREAD_STATE_YIELDED
          pc, todo, hand,
          at, arg,            \* the queue a worker works on, the task it puts there
          old, snap,          \* `oldtop' and `snapshot'
          victims, loot
queues == <<top, base, bottom, empty, spinlock, stealing, steal_disable>>
locals == <<at, arg, old, snap, victims, loot>>
vars == <<queues, yielded, pc, todo, hand, locals>>

Entry(v, c) == [value |-> v, counter |-> c]
Top(v, i, c) == [value |-> v, index |-> i, counter |-> c]
Init ==
    /\ top = [q \in Queue |-> Top(NULL, 0, 0)] /\ bottom = [q \in Queue |-> 0]
    /\ base = [q \in Queue |-> [i \in 0..(size0 - 1) |-> Entry(NULL, 0)]]
    /\ empty = [q \in Queue |-> TRUE] /\ spinlock = [q \in Queue |-> NULL]
    /\ stealing = [q \in Queue |-> FALSE] /\ steal_disable \in [Queue -> BOOLEAN] /\ yielded = {}
    /\ pc = [w \in Worker |-> "idle"] /\ todo = Prog /\ hand = [w \in Worker |-> NULL]
    /\ at = home /\ arg = [w \in Worker |-> NULL]
    /\ old = [w \in Worker |-> Top(NULL, 0, 0)] /\ snap = [w \in Worker |-> Entry(NULL, 0)]
    /\ victims = [w \in Worker |-> <<>>] /\ loot = [w \in Worker |-> <<>>]

size(q) == Cardinality(DOMAIN base[q])
Up(q, i) == (i + 1) % size(q)
Down(q, i) == (i - 1) % size(q)

\* qt_threadqueue_finish, alone: the top entry is copied into the array unless it was.
Finished(b, t) ==
    IF b[t.index].counter = t.counter - 1 THEN [b EXCEPT ![t.index] = Entry(t.value, t.counter)] ELSE b

Goto(w, l) == pc' = [pc EXCEPT ![w] = l]
Set(f, w, v) == f' = [f EXCEPT ![w] = v]
Reading == {"p_finish", "p_help", "p_next", "p_cas", "g_test", "g_finish", "g_help", "g_next", "g_cas"}
Write(q) == \A w \in Worker : pc[w] \in Reading => at[w] # q
Op(w) == IF todo[w] = <<>> THEN <<"none">> ELSE Head(todo[w])
Idle(w, op) == pc[w] = "idle" /\ hand[w] = NULL /\ Op(w)[1] = op
Returned(w) == todo' = [todo EXCEPT ![w] = Tail(@)]

\* An enqueue ends: the caller goes on, or the thief with the next stolen task.
PutEnds(w) ==
    IF loot[w] = <<>> THEN Goto(w, "idle") /\ Returned(w) ELSE Goto(w, "loot") /\ UNCHANGED todo

-----------------------------------------------------------------------------
\* qt_threadqueue_enqueue
enqueue(w) ==
    /\ Idle(w, "put") /\ Set(arg, w, Op(w)[2]) /\ Set(at, w, Op(w)[3]) /\ Set(old, w, top[Op(w)[3]])
    /\ Goto(w, "p_finish") /\ UNCHANGED <<queues, yielded, todo, hand, snap, victims, loot>>

\* qt_threadqueue_finish: read the array, ...
finish(w) ==
    /\ pc[w] \in {"p_finish", "g_finish"} /\ Set(snap, w, base[at[w]][old[w].index])
    /\ LET next == IF pc[w] = "p_finish" THEN <<"p_help", "p_next">> ELSE <<"g_help", "g_next">>
       IN  Goto(w, IF base[at[w]][old[w].index].counter = old[w].counter - 1 THEN next[1] ELSE next[2])
    /\ UNCHANGED <<queues, yielded, todo, hand, at, arg, old, victims, loot>>

\* ... and swap, if nobody else did.
help(w) ==
    /\ pc[w] \in {"p_help", "g_help"}
    /\ base' = IF base[at[w]][old[w].index] = Entry(snap[w].value, old[w].counter - 1)
               THEN [base EXCEPT ![at[w]][old[w].index] = Entry(old[w].value, old[w].counter)] ELSE base
    /\ Goto(w, IF pc[w] = "p_help" THEN "p_next" ELSE "g_next")
    /\ UNCHANGED <<yielded, top, bottom, empty, spinlock, stealing, todo, hand, locals, steal_disable>>

put_next(w) ==
    /\ pc[w] = "p_next"
    /\ LET i == Up(at[w], old[w].index) IN
       IF i = bottom[at[w]] THEN Goto(w, "resize") /\ UNCHANGED snap
       ELSE Goto(w, "p_cas") /\ Set(snap, w, base[at[w]][i])
    /\ UNCHANGED <<queues, yielded, todo, hand, at, arg, old, victims, loot>>

\* Mutant of put_cas: the counter of the slot is used as it is.
put_cas_counter(w) ==
    /\ pc[w] = "p_cas"
    /\ LET q == at[w] IN
       IF top[q] = old[w]
       THEN /\ Set(top, q, Top(arg[w], Up(q, old[w].index), snap[w].counter))
            /\ Set(empty, q, FALSE) /\ PutEnds(w) /\ UNCHANGED old
       ELSE Set(old, w, top[q]) /\ Goto(w, "p_finish") /\ UNCHANGED <<top, empty, todo>>
    /\ UNCHANGED <<yielded, base, bottom, spinlock, stealing, hand, at, arg, snap, victims, loot, steal_disable>>

\* The `last chance' and the swap: both go back to the top they find.
put_cas(w) ==
    /\ pc[w] = "p_cas"
    /\ LET q == at[w] IN
       IF top[q] = old[w]
       THEN /\ Set(top, q, Top(arg[w], Up(q, old[w].index), snap[w].counter + 1))
            /\ Set(empty, q, FALSE) /\ PutEnds(w) /\ UNCHANGED old
       ELSE Set(old, w, top[q]) /\ Goto(w, "p_finish") /\ UNCHANGED <<top, empty, todo>>
    /\ UNCHANGED <<yielded, base, bottom, spinlock, stealing, hand, at, arg, snap, victims, loot, steal_disable>>

\* qt_threadqueue_resize: twice the size, from the bottom on; the top gets a new counter.
Resized(b, bot) ==
    LET n == Cardinality(DOMAIN b)
    IN  [i \in 0..(2 * n - 1) |-> IF i < n THEN b[(bot + i) % n] ELSE Entry(NULL, 0)]

\* qt_threadqueue_resize_and_enqueue, unless somebody made room meanwhile.
resize_and_enqueue(w) ==
    LET q    == at[w]
        n    == size(q)
        b    == Finished(base[q], top[q])
        full == Up(q, top[q].index) = bottom[q]
        b2   == IF full THEN Resized(b, bottom[q]) ELSE b
        i    == IF full THEN n ELSE Up(q, top[q].index)
    IN  /\ pc[w] = "resize" /\ Write(q)
        /\ Set(top, q, Top(arg[w], i, b2[i].counter + 1))
        /\ Set(base, q, [b2 EXCEPT ![i] = Entry(arg[w], b2[i].counter + 1)])
        /\ Set(bottom, q, IF full THEN 0 ELSE bottom[q]) /\ Set(empty, q, FALSE)
        /\ PutEnds(w) /\ UNCHANGED <<yielded, spinlock, stealing, hand, locals, steal_disable>>

\* qt_threadqueue_enqueue_yielded: at the bottom (a queue that is empty: as the only task).
enqueue_yielded(w) ==
    LET q    == home[w]
        b    == Finished(base[q], top[q])
        full == Up(q, top[q].index) = bottom[q]
        b2   == IF full THEN Resized(b, bottom[q]) ELSE b
        bot  == IF full THEN 0 ELSE bottom[q]
        down == (bot - 1) % Cardinality(DOMAIN b2)
        i    == Up(q, top[q].index)
    IN  /\ pc[w] = "idle" /\ hand[w] # NULL /\ Op(w)[1] = "yield" /\ Write(q)
        /\ IF top[q].index = bottom[q]
           THEN /\ Set(top, q, Top(hand[w], i, b[i].counter + 1))
                /\ Set(base, q, [b EXCEPT ![i] = Entry(hand[w], b[i].counter + 1)])
                /\ UNCHANGED <<bottom, empty>>
           ELSE /\ Set(base, q, [b2 EXCEPT ![bot] = Entry(hand[w], @.counter + 1),
                                           ![down] = Entry(NULL, @.counter + 1)])
                /\ Set(bottom, q, down) /\ Set(empty, q, FALSE)
                /\ Set(top, q, IF full THEN Top(top[q].value, size(q) - 1, top[q].counter + 1) ELSE top[q])
        /\ yielded' = yielded \cup {hand[w]}
        /\ Set(hand, w, NULL) /\ Returned(w) /\ UNCHANGED <<spinlock, stealing, pc, locals, steal_disable>>

-----------------------------------------------------------------------------
\* qt_scheduler_get_thread
get_thread(w) ==
    /\ Idle(w, "get") /\ Set(at, w, home[w]) /\ Set(old, w, top[home[w]]) /\ Goto(w, "g_test")
    /\ UNCHANGED <<queues, yielded, todo, hand, arg, snap, victims, loot>>

\* Nothing there, or only the original thread and this is not its worker: steal.
get_test(w) ==
    /\ pc[w] = "g_test"
    /\ IF old[w].index = bottom[at[w]] \/ (old[w].value = Main /\ w # Zero)
       THEN Goto(w, "steal") /\ Set(stealing, at[w], TRUE) ELSE Goto(w, "g_finish") /\ UNCHANGED stealing
    /\ UNCHANGED <<top, base, bottom, empty, spinlock, yielded, todo, hand, locals, steal_disable>>
get_next(w) ==
    /\ pc[w] = "g_next" /\ Set(snap, w, base[at[w]][Down(at[w], old[w].index)]) /\ Goto(w, "g_cas")
    /\ UNCHANGED <<queues, yielded, todo, hand, at, arg, old, victims, loot>>

get_cas(w) ==
    /\ pc[w] = "g_cas"
    /\ LET q == at[w] IN
       IF top[q] = old[w]
       THEN /\ Set(top, q, Top(snap[w].value, Down(q, old[w].index), snap[w].counter + 1))
            /\ Set(hand, w, old[w].value) /\ yielded' = yielded \ {old[w].value} /\ Goto(w, "idle") /\ Returned(w) /\ UNCHANGED old
       ELSE Set(old, w, top[q]) /\ Goto(w, "g_test") /\ UNCHANGED <<top, yielded, hand, todo>>
    /\ UNCHANGED <<base, bottom, empty, spinlock, stealing, at, arg, snap, victims, loot, steal_disable>>

\* The task runs, and ends unless it yields.
run(w) == /\ pc[w] = "idle" /\ hand[w] # NULL /\ Op(w)[1] # "yield" /\ Set(hand, w, NULL)
          /\ UNCHANGED <<queues, yielded, pc, todo, locals>>

-----------------------------------------------------------------------------
\* qt_threadqueue_dequeue_helper: one thief for each queue; who waited for another looks again.
steal(w) ==
    /\ pc[w] = "steal" /\ spinlock[home[w]] = NULL
    /\ IF stealing[home[w]] /\ ~steal_disable[home[w]]
       THEN /\ \E order \in SetToSeqs(Queue \ {home[w]}) : Set(victims, w, order)
            /\ Set(spinlock, home[w], w) /\ Goto(w, "rob")
       ELSE Goto(w, "idle") /\ UNCHANGED <<spinlock, victims>>
    /\ UNCHANGED <<yielded, top, base, bottom, empty, stealing, todo, hand, at, arg, old, snap, loot, steal_disable>>

\* The tasks of q from the bottom to the top.
Items(q) == [i \in 1..((top[q].index - bottom[q]) % size(q)) |->
               LET k == (bottom[q] + i) % size(q) IN IF k = top[q].index THEN top[q].value ELSE base[q][k].value]
stealable(t) == t \notin Unstealable \cup yielded

\* How far qt_threadqueue_dequeue_steal goes: to the Chunk'th stealable task, and not past
\* a last one that is not stealable.
Reach(q) ==
    LET its   == Items(q)
        count == [k \in 0..Len(its) |-> Cardinality({i \in 1..k : stealable(its[i])})]
        far   == IF its # <<>> /\ ~stealable(its[Len(its)]) THEN Len(its) - 1 ELSE Len(its)
    IN  CHOOSE k \in 0..far : /\ k = far \/ count[k] = Chunk
                              /\ \A j \in 0..(k - 1) : count[j] < Chunk

\* Mutant of dequeue_steal: tasks that are passed over are not put back.
dequeue_steal_drop(w) ==
    LET q   == Head(victims[w])
        its == Items(q)
        n   == Reach(q)
    IN  /\ pc[w] = "rob" /\ victims[w] # <<>> /\ ~empty[q] /\ Write(q)
        /\ Set(bottom, q, (bottom[q] + n) % size(q))
        /\ Set(base, q, Finished(base[q], top[q])) /\ UNCHANGED top
        /\ UNCHANGED empty /\ Set(loot, w, SelectSeq(SubSeq(its, 1, n), stealable))
        /\ IF \E i \in 1..n : stealable(its[i]) THEN Goto(w, "loot") /\ UNCHANGED victims
           ELSE Set(victims, w, Tail(victims[w])) /\ UNCHANGED pc
        /\ UNCHANGED <<yielded, spinlock, stealing, todo, hand, at, arg, old, snap, steal_disable>>

\* qt_threadqueue_dequeue_steal, and qt_threadqueue_enqueue_unstealable, which puts the
\* tasks that were passed over back at the bottom: the slots left behind get new counters.
dequeue_steal(w) ==
    LET q     == Head(victims[w])
        its   == Items(q)
        n     == Reach(q)
        pass  == SelectSeq(SubSeq(its, 1, n), LAMBDA t : ~stealable(t))
        slot  == [i \in 1..n |-> (bottom[q] + i) % size(q)]
        stay  == [j \in 1..Len(pass) |-> slot[n - Len(pass) + j]]
        all   == n = Len(its)
        b     == Finished(base[q], top[q])
        b2    == [k \in DOMAIN b |-> IF \E i \in 1..n : slot[i] = k
                    THEN Entry(IF \E j \in 1..Len(pass) : stay[j] = k
                               THEN pass[CHOOSE j \in 1..Len(pass) : stay[j] = k] ELSE NULL, b[k].counter + 1)
                    ELSE b[k]]
    IN  /\ pc[w] = "rob" /\ victims[w] # <<>> /\ ~empty[q] /\ Write(q)
        /\ Set(base, q, b2) /\ Set(bottom, q, (bottom[q] + n - Len(pass)) % size(q))
        /\ Set(top, q, IF all /\ n > 0
                       THEN Top(b2[top[q].index].value, top[q].index, b2[top[q].index].counter) ELSE top[q])
        /\ Set(empty, q, Cardinality({i \in 1..(Len(its) - 1) : stealable(its[i])}) < Chunk)
        /\ Set(loot, w, SelectSeq(SubSeq(its, 1, n), stealable))
        /\ IF \E i \in 1..n : stealable(its[i]) THEN Goto(w, "loot") /\ UNCHANGED victims
           ELSE Set(victims, w, Tail(victims[w])) /\ UNCHANGED pc
        /\ UNCHANGED <<yielded, spinlock, stealing, todo, hand, at, arg, old, snap, steal_disable>>
skip_empty(w) ==
    /\ pc[w] = "rob" /\ victims[w] # <<>> /\ empty[Head(victims[w])]
    /\ Set(victims, w, Tail(victims[w])) /\ UNCHANGED <<queues, yielded, pc, todo, hand, at, arg, old, snap, loot>>

\* qthread_steal ends without anything ...
steal_nothing(w) ==
    /\ pc[w] = "rob" /\ victims[w] = <<>> /\ Set(spinlock, home[w], NULL) /\ Goto(w, "idle")
    /\ Set(stealing, home[w], FALSE) /\ UNCHANGED <<yielded, top, base, bottom, empty, todo, hand, locals, steal_disable>>

\* ... or qt_threadqueue_enqueue_multiple puts all but the first in the thief's queue.
enqueue_multiple(w) ==
    /\ pc[w] = "loot" /\ Len(loot[w]) > 1
    /\ Set(arg, w, loot[w][2]) /\ Set(loot, w, <<loot[w][1]>> \o SubSeq(loot[w], 3, Len(loot[w])))
    /\ Set(old, w, top[home[w]]) /\ Set(at, w, home[w]) /\ Goto(w, "p_finish")
    /\ UNCHANGED <<queues, yielded, todo, hand, snap, victims>>
steal_first(w) ==
    /\ pc[w] = "loot" /\ Len(loot[w]) = 1 /\ Set(hand, w, loot[w][1]) /\ Set(loot, w, <<>>)
    /\ Set(spinlock, home[w], NULL) /\ Set(stealing, home[w], FALSE) /\ Goto(w, "idle") /\ Returned(w)
    /\ UNCHANGED <<yielded, top, base, bottom, empty, at, arg, old, snap, victims, steal_disable>>

Step(w) ==
    \/ enqueue(w) \/ finish(w) \/ help(w) \/ put_next(w) \/ put_cas(w) \/ resize_and_enqueue(w)
    \/ enqueue_yielded(w) \/ get_thread(w) \/ get_test(w) \/ get_next(w) \/ get_cas(w) \/ run(w)
    \/ steal(w) \/ dequeue_steal(w) \/ skip_empty(w) \/ steal_nothing(w) \/ enqueue_multiple(w) \/ steal_first(w)
Next == \E w \in Worker : Step(w)
Spec == Init /\ [][Next]_vars
-----------------------------------------------------------------------------
\* For one queue: the stack, top first.
q1 == CHOOSE q \in Queue : TRUE
Stack == INSTANCE TaskQueue WITH Taker <- Worker, Lifo <- TRUE, items <- Reverse(Items(q1))

\* Where a task is: in a queue, in somebody's hands, or on its way into a queue.
Places(t) ==
    Cardinality({<<q, i>> \in Queue \X (1..8) : i <= Len(Items(q)) /\ Items(q)[i] = t})
    + Cardinality({w \in Worker : hand[w] = t})
    + Cardinality({w \in Worker : \E i \in DOMAIN loot[w] : loot[w][i] = t})
    + Cardinality({w \in Worker : arg[w] = t /\ pc[w] \in {"p_finish", "p_help", "p_next", "p_cas", "resize"}})

\* No task is in two places, and one that is in no worker's hand stays somewhere: nothing
\* is lost by steals, passed-over tasks or resizing.
NoneLost == \A t \in Task : /\ Places(t)' <= 1
                            /\ Places(t) = 1 /\ (\A w \in Worker : hand[w] # t) => Places(t)' = 1

\* Nobody asks for a task any more -- unless stealing is off for its queue, as it may be
\* from the start.
Rested == \A w \in Worker : steal_disable[home[w]] \/ (todo[w] = <<>> /\ hand[w] = NULL)
==============================================================================
