----------------------------- MODULE LoxleyBase -----------------------------
(***************************************************************************)
(* The basic loxley thread queues                                          *)
(* (src/threadqueues/loxleybase_threadqueues.c): one stack (module         *)
(* QtStack) under a spinlock for each shepherd, and a flag `empty' that    *)
(* thieves read without the lock and enqueuers clear after they left it.   *)
(***************************************************************************)
EXTENDS Integers, Sequences, FiniteSets, SequencesExt

CONSTANTS Queue, Task, Worker,
          home,               \* the queue of each worker
          Prog,               \* [Worker -> Seq(operations)]
          Unstealable, Main, Zero, Chunk, NULL

VARIABLES stack, empty, stealing, steallock, yielded, pc, todo, hand, at, victims, loot
queues == <<stack, empty, stealing, steallock, yielded>>
vars == <<queues, pc, todo, hand, at, victims, loot>>

Init ==
    /\ stack = [q \in Queue |-> <<>>] /\ empty = [q \in Queue |-> TRUE]
    /\ stealing = [q \in Queue |-> FALSE] /\ steallock = [q \in Queue |-> NULL] /\ yielded = {}
    /\ pc = [w \in Worker |-> "idle"] /\ todo = Prog /\ hand = [w \in Worker |-> NULL]
    /\ at = home /\ victims = [w \in Worker |-> <<>>] /\ loot = [w \in Worker |-> <<>>]

Goto(w, l) == pc' = [pc EXCEPT ![w] = l]
Set(f, w, v) == f' = [f EXCEPT ![w] = v]
Op(w) == IF todo[w] = <<>> THEN <<"none">> ELSE Head(todo[w])
Idle(w, op) == pc[w] = "idle" /\ hand[w] = NULL /\ Op(w)[1] = op
Returned(w) == todo' = [todo EXCEPT ![w] = Tail(@)]

-----------------------------------------------------------------------------
\* The enqueues put the task on the stack, under the lock, ...
enqueue(w) ==
    /\ Idle(w, "put") /\ Set(at, w, Op(w)[3]) /\ Set(stack, Op(w)[3], Append(stack[Op(w)[3]], Op(w)[2]))
    /\ Goto(w, "flag") /\ UNCHANGED <<empty, stealing, steallock, yielded, todo, hand, victims, loot>>
enqueue_yielded(w) ==
    LET q == home[w] IN
    /\ pc[w] = "idle" /\ hand[w] # NULL /\ Op(w)[1] = "yield" /\ Set(at, w, q)
    /\ Set(stack, q, <<hand[w]>> \o stack[q]) /\ yielded' = yielded \cup {hand[w]} /\ Set(hand, w, NULL)
    /\ Goto(w, "flag") /\ UNCHANGED <<empty, stealing, steallock, todo, victims, loot>>

\* ... and clear the flag without it.
enqueue_ends(w) ==
    /\ pc[w] = "flag" /\ Set(empty, at[w], FALSE) /\ Goto(w, "idle") /\ Returned(w)
    /\ UNCHANGED <<stack, stealing, steallock, yielded, hand, at, victims, loot>>

\* qt_scheduler_get_thread: pop, or try to steal, in a loop.
get_thread(w) ==
    LET s == stack[home[w]] IN
    /\ Idle(w, "get")
    /\ IF s # <<>> /\ (Last(s) = Main => w = Zero)
       THEN /\ Set(stack, home[w], Front(s)) /\ Set(hand, w, Last(s)) /\ yielded' = yielded \ {Last(s)}
            /\ Returned(w) /\ UNCHANGED <<stealing, pc>>
       ELSE Set(stealing, home[w], TRUE) /\ Goto(w, "steal") /\ UNCHANGED <<stack, yielded, todo, hand>>
    /\ UNCHANGED <<empty, steallock, at, victims, loot>>
run(w) ==
    /\ pc[w] = "idle" /\ hand[w] # NULL /\ Op(w)[1] # "yield" /\ Set(hand, w, NULL)
    /\ UNCHANGED <<queues, pc, todo, at, victims, loot>>

\* qt_threadqueue_dequeue_helper: who had to wait for another thief pops again.
dequeue_helper(w) ==
    LET q == home[w] IN
    /\ pc[w] = "steal" /\ steallock[q] = NULL
    /\ IF stealing[q] THEN /\ Set(steallock, q, w) /\ Goto(w, "rob")
                           /\ \E order \in SetToSeqs(Queue \ {q}) : Set(victims, w, order)
       ELSE Goto(w, "idle") /\ UNCHANGED <<steallock, victims>>
    /\ UNCHANGED <<stack, empty, stealing, yielded, todo, hand, at, loot>>

-----------------------------------------------------------------------------
stealable(t) == t \notin Unstealable \cup yielded
Walk(s) ==
    LET found(k) == Cardinality({i \in 1..k : stealable(s[i])})
    IN  CHOOSE k \in 0..Len(s) : (k = Len(s) \/ found(k) = Chunk) /\ \A j \in 0..(k - 1) : found(j) < Chunk

steal_skip(w) ==
    /\ pc[w] = "rob" /\ victims[w] # <<>> /\ empty[Head(victims[w])]
    /\ Set(victims, w, Tail(victims[w])) /\ UNCHANGED <<queues, pc, todo, hand, at, loot>>

\* qt_threadqueue_enqueue_unstealable: what was passed over stays at the base.
enqueue_unstealable(s, k) == SelectSeq(SubSeq(s, 1, k), LAMBDA t : ~stealable(t)) \o SubSeq(s, k + 1, Len(s))


\* qt_threadqueue_steal, under the victim's lock: up to a chunk from the base; the victim
\* is marked empty when the walk reaches the top.
steal(w) ==
    LET q == Head(victims[w])
        k == Walk(stack[q])
        r == SelectSeq(SubSeq(stack[q], 1, k), stealable)
    IN  /\ pc[w] = "rob" /\ victims[w] # <<>> /\ ~empty[q]
        /\ Set(stack, q, enqueue_unstealable(stack[q], k))
        /\ Set(empty, q, empty[q] \/ k = Len(stack[q])) /\ Set(loot, w, r)
        /\ IF r = <<>> THEN Set(victims, w, Tail(victims[w])) /\ UNCHANGED pc
           ELSE Set(victims, w, <<>>) /\ Goto(w, "loot")
        /\ UNCHANGED <<stealing, steallock, yielded, todo, hand, at>>

\* qt_threadqueue_enqueue_multiple: all but the first are pushed; then the flag, and the
\* thief leaves.
enqueue_multiple(w) ==
    /\ pc[w] = "loot" /\ Set(stack, home[w], stack[home[w]] \o Tail(loot[w]))
    /\ Set(loot, w, <<loot[w][1]>>) /\ Goto(w, "stole")
    /\ UNCHANGED <<empty, stealing, steallock, yielded, todo, hand, at, victims>>
steal_ends(w) ==
    LET q == home[w] IN
    /\ pc[w] = "stole" /\ Set(empty, q, FALSE) /\ Set(stealing, q, FALSE) /\ Set(steallock, q, NULL)
    /\ Set(hand, w, loot[w][1]) /\ Set(loot, w, <<>>) /\ Goto(w, "idle") /\ Returned(w)
    /\ UNCHANGED <<stack, yielded, at, victims>>

\* Mutant of steal_nothing: the lock is kept.
steal_nothing_locked(w) ==
    /\ pc[w] = "rob" /\ victims[w] = <<>> /\ Set(stealing, home[w], FALSE) /\ Goto(w, "idle")
    /\ UNCHANGED <<stack, empty, steallock, yielded, todo, hand, at, victims, loot>>
steal_nothing(w) ==
    /\ pc[w] = "rob" /\ victims[w] = <<>> /\ Set(stealing, home[w], FALSE) /\ Set(steallock, home[w], NULL)
    /\ Goto(w, "idle") /\ UNCHANGED <<stack, empty, yielded, todo, hand, at, victims, loot>>

Step(w) ==
    \/ enqueue(w) \/ enqueue_yielded(w) \/ enqueue_ends(w) \/ get_thread(w) \/ run(w) \/ dequeue_helper(w)
    \/ steal_skip(w) \/ steal(w) \/ enqueue_multiple(w) \/ steal_ends(w) \/ steal_nothing(w)
Next == \E w \in Worker : Step(w)
Spec == Init /\ [][Next]_vars

-----------------------------------------------------------------------------
Places(t) ==
    Cardinality({<<q, i>> \in Queue \X (1..8) : i <= Len(stack[q]) /\ stack[q][i] = t})
    + Cardinality({w \in Worker : hand[w] = t}) + Cardinality({w \in Worker : \E i \in DOMAIN loot[w] : loot[w][i] = t})
\* No task is ever in two places, and one that is not in a worker's hand stays somewhere:
\* tasks that a thief passes over go back in its victim's stack.
NoneLost == \A t \in Task : /\ Places(t)' <= 1
                            /\ Places(t) = 1 /\ (\A w \in Worker : hand[w] # t) => Places(t)' = 1

\* A queue with something to steal says so to thieves, although the flag is cleared outside
\* of the lock: unless whoever put it there is just about to.
WorkIsAdvertised ==
    \A q \in Queue : (\E i \in DOMAIN stack[q] : stealable(stack[q][i])) /\ empty[q]
        => \E w \in Worker : (pc[w] = "flag" /\ at[w] = q) \/ (pc[w] = "stole" /\ home[w] = q)

\* Nobody asks for a task any more -- unless the original thread is on top of its stack
\* and it is not the worker to take it.
Rested == \A w \in Worker : \/ todo[w] = <<>> /\ hand[w] = NULL
                            \/ stack[home[w]] # <<>> /\ Last(stack[home[w]]) = Main
==============================================================================
