------------------------------- MODULE Loxley -------------------------------
(***************************************************************************)
(* The loxley thread queues (src/threadqueues/loxley_threadqueues.c): for  *)
(* each shepherd a shared stack under `trylock' and a stack for each       *)
(* worker, plus one for threads that are no workers.  Stacks are sequences *)
(* from base to top (module QtStack); local critical sections are atomic.  *)
(***************************************************************************)
EXTENDS Integers, Sequences, FiniteSets, SequencesExt

CONSTANTS Queue, Task, Worker,
          home, id,           \* the queue of each worker and its index there
          Prog,               \* [Worker -> Seq(operations)]
          Unstealable, Main, Zero,    \* the McCoy task and the worker it needs
          Chunk,              \* qthread_steal_chunksize()
          length,             \* local_length
          UINT,               \* 2^32 of the machine, smaller in the instances
          penalty_min, penalty_max, penalty_limit,
          NULL

VARIABLES shared, local, bias, penalty, track, trylock, steallock, stealing, empty,
          steal_disable,      \* never initialised
          pc, todo, hand, victims, loot
stacks == <<shared, local>>
tuning == <<bias, penalty, track>>
queues == <<stacks, tuning, trylock, steallock, stealing, empty, steal_disable>>
vars == <<queues, pc, todo, hand, victims, loot>>

Id == 0..(length - 1)
PerLocal(v) == [q \in Queue |-> [i \in Id |-> v]]
Init ==
    /\ shared = [q \in Queue |-> <<>>] /\ local = PerLocal(<<>>)
    /\ bias = PerLocal(0) /\ penalty = PerLocal(penalty_min) /\ track = PerLocal(0)
    /\ trylock = [q \in Queue |-> NULL] /\ steallock = [q \in Queue |-> NULL]
    /\ stealing = [q \in Queue |-> FALSE] /\ empty = [q \in Queue |-> TRUE]
    /\ steal_disable \in [Queue -> BOOLEAN]
    /\ pc = [w \in Worker |-> "idle"] /\ todo = Prog /\ hand = [w \in Worker |-> NULL]
    /\ victims = [w \in Worker |-> <<>>] /\ loot = [w \in Worker |-> <<>>]

Goto(w, l) == pc' = [pc EXCEPT ![w] = l]
Set(f, w, v) == f' = [f EXCEPT ![w] = v]
Op(w) == IF todo[w] = <<>> THEN <<"none">> ELSE Head(todo[w])
Idle(w, op) == pc[w] = "idle" /\ hand[w] = NULL /\ Op(w)[1] = op
Returned(w) == todo' = [todo EXCEPT ![w] = Tail(@)]

\* qt_stack_pop: nothing for a worker other than 0 while the original thread is on top.
Popped(s, w) == s # <<>> /\ (Last(s) = Main => w = Zero)

-----------------------------------------------------------------------------
\* qt_threadqueue_enqueue of Op(w)[2] in Op(w)[3]; a biased worker keeps to its own stack.
enqueue_biased(w) ==
    LET q == Op(w)[3] IN
    /\ Idle(w, "put") /\ bias[q][id[w]] > 0
    /\ local' = [local EXCEPT ![q][id[w]] = Append(@, Op(w)[2])]
    /\ bias' = [bias EXCEPT ![q][id[w]] = @ - 1] /\ Goto(w, "flag")
    /\ UNCHANGED <<shared, penalty, track, trylock, steallock, stealing, empty, steal_disable, todo, hand, victims, loot>>
enqueue_try(w) ==
    LET q == Op(w)[3] IN
    /\ Idle(w, "put") /\ bias[q][id[w]] = 0 /\ trylock[q] = NULL
    /\ Set(trylock, q, w) /\ Goto(w, "push")
    /\ UNCHANGED <<stacks, tuning, steallock, stealing, empty, steal_disable, todo, hand, victims, loot>>

\* `track' is unsigned: a count of failures is a large number.
enqueue_shared(w) ==
    LET q == Op(w)[3]
        n == (track[q][id[w]] + 1) % UINT
        p == penalty[q][id[w]]
    IN  /\ pc[w] = "push" /\ Set(shared, q, Append(shared[q], Op(w)[2])) /\ Set(trylock, q, NULL)
        /\ track' = [track EXCEPT ![q][id[w]] = IF n > penalty_limit THEN 0 ELSE n]
        /\ penalty' = [penalty EXCEPT ![q][id[w]] =
                         IF n > penalty_limit /\ p > penalty_min THEN p \div 2 ELSE p]
        /\ Goto(w, "flag")
        /\ UNCHANGED <<local, bias, steallock, stealing, empty, steal_disable, todo, hand, victims, loot>>

\* Mutant of enqueue_contended: no bound.
enqueue_contended_grow(w) ==
    LET q == Op(w)[3] IN
    /\ Idle(w, "put") /\ bias[q][id[w]] = 0 /\ trylock[q] \notin {NULL, w}
    /\ local' = [local EXCEPT ![q][id[w]] = Append(@, Op(w)[2])]
    /\ track' = [track EXCEPT ![q][id[w]] = 0]
    /\ penalty' = [penalty EXCEPT ![q][id[w]] = 2 * @]
    /\ bias' = [bias EXCEPT ![q][id[w]] = penalty'[q][id[w]]] /\ Goto(w, "flag")
    /\ UNCHANGED <<shared, trylock, steallock, stealing, empty, steal_disable, todo, hand, victims, loot>>
enqueue_contended(w) ==
    LET q   == Op(w)[3]
        n   == (track[q][id[w]] - 1) % UINT
        low == n < (-penalty_limit) % UINT
        p   == penalty[q][id[w]]
        p2  == IF low /\ p < penalty_max THEN 2 * p ELSE p
    IN  /\ Idle(w, "put") /\ bias[q][id[w]] = 0 /\ trylock[q] \notin {NULL, w}
        /\ local' = [local EXCEPT ![q][id[w]] = Append(@, Op(w)[2])]
        /\ track' = [track EXCEPT ![q][id[w]] = IF low THEN 0 ELSE n]
        /\ penalty' = [penalty EXCEPT ![q][id[w]] = p2]
        /\ bias' = [bias EXCEPT ![q][id[w]] = p2] /\ Goto(w, "flag")
        /\ UNCHANGED <<shared, trylock, steallock, stealing, empty, steal_disable, todo, hand, victims, loot>>

\* Mutant of enqueue_ends: the thieves are not told.
enqueue_ends(w) ==
    /\ pc[w] = "flag" /\ Set(empty, Op(w)[3], FALSE) /\ Goto(w, "idle") /\ Returned(w)
    /\ UNCHANGED <<stacks, tuning, trylock, steallock, stealing, steal_disable, hand, victims, loot>>

\* qt_threadqueue_enqueue_yielded: at the base of the shared stack.
enqueue_yielded(w) ==
    LET q == home[w] IN
    /\ pc[w] = "idle" /\ hand[w] # NULL /\ Op(w)[1] = "yield" /\ trylock[q] = NULL
    /\ Set(shared, q, <<hand[w]>> \o shared[q]) /\ Set(empty, q, FALSE)
    /\ Set(hand, w, NULL) /\ Returned(w)
    /\ UNCHANGED <<local, tuning, trylock, steallock, stealing, steal_disable, pc, victims, loot>>

-----------------------------------------------------------------------------
\* qt_scheduler_get_thread: from the worker's own stack, ...
Gets(w, t) == Set(hand, w, t) /\ Goto(w, "idle") /\ Returned(w)
get_local(w) ==
    LET s == local[home[w]][id[w]] IN
    /\ Idle(w, "get")
    /\ IF Popped(s, w)
       THEN local' = [local EXCEPT ![home[w]][id[w]] = Front(s)] /\ Gets(w, Last(s))
       ELSE Goto(w, "try") /\ UNCHANGED <<local, todo, hand>>
    /\ UNCHANGED <<shared, tuning, trylock, steallock, stealing, empty, steal_disable, victims, loot>>

\* ... else from the shared one: ...
get_try(w) ==
    LET q == home[w] IN
    /\ pc[w] = "try"
    /\ IF trylock[q] = NULL THEN Set(trylock, q, w) /\ Goto(w, "pop") ELSE Goto(w, "wait") /\ UNCHANGED trylock
    /\ UNCHANGED <<stacks, tuning, steallock, stealing, empty, steal_disable, todo, hand, victims, loot>>
get_shared(w) ==
    LET q == home[w] IN
    /\ pc[w] = "pop" /\ Set(trylock, q, NULL)
    /\ IF Popped(shared[q], w)
       THEN Set(shared, q, Front(shared[q])) /\ Gets(w, Last(shared[q]))
       ELSE Goto(w, "others") /\ UNCHANGED <<shared, todo, hand>>
    /\ UNCHANGED <<local, tuning, steallock, stealing, empty, steal_disable, victims, loot>>

\* ... who had to wait takes two, and keeps the second.
get_two(w) ==
    LET q    == home[w]
        s    == shared[q]
        rest == Front(s)
    IN  /\ pc[w] = "wait" /\ trylock[q] = NULL
        /\ IF ~Popped(s, w) THEN Goto(w, "others") /\ UNCHANGED <<shared, todo, hand, loot>>
           ELSE IF ~Popped(rest, w) THEN Set(shared, q, rest) /\ Gets(w, Last(s)) /\ UNCHANGED loot
           ELSE /\ Set(shared, q, Front(rest)) /\ Set(loot, w, <<Last(s), Last(rest)>>)
                /\ Goto(w, "retain") /\ UNCHANGED <<todo, hand>>
        /\ UNCHANGED <<local, tuning, trylock, steallock, stealing, empty, steal_disable, victims>>

\* Mutant of get_retain: the second task is forgotten.
get_retain_drop(w) ==
    /\ pc[w] = "retain" /\ Gets(w, loot[w][1]) /\ Set(loot, w, <<>>)
    /\ UNCHANGED <<stacks, tuning, trylock, steallock, stealing, empty, steal_disable, victims>>
get_retain(w) ==
    /\ pc[w] = "retain" /\ local' = [local EXCEPT ![home[w]][id[w]] = Append(@, loot[w][2])]
    /\ Gets(w, loot[w][1]) /\ Set(loot, w, <<>>)
    /\ UNCHANGED <<shared, tuning, trylock, steallock, stealing, empty, steal_disable, victims>>

\* qt_threadqueue_dequeue_helper: from the other workers' stacks, in turn, ...
get_others(w) ==
    LET q   == home[w]
        ix  == [k \in 1..(length - 1) |-> (id[w] + k) % length]
        hit == {k \in DOMAIN ix : Popped(local[q][ix[k]], w)}
    IN  /\ pc[w] = "others"
        /\ IF hit = {} THEN Goto(w, "steal") /\ Set(stealing, q, TRUE) /\ UNCHANGED <<local, todo, hand>>
           ELSE LET k == CHOOSE k \in hit : \A j \in hit : k <= j
                    s == local[q][ix[k]]
                IN  local' = [local EXCEPT ![q][ix[k]] = Front(s)] /\ Gets(w, Last(s)) /\ UNCHANGED stealing
        /\ UNCHANGED <<shared, tuning, trylock, steallock, empty, steal_disable, victims, loot>>

\* ... else from another shepherd, one thief at a time; who comes second tries again.
get_steal(w) ==
    LET q == home[w] IN
    /\ pc[w] = "steal" /\ steallock[q] = NULL
    /\ IF steal_disable[q] \/ ~stealing[q] THEN Goto(w, "idle") /\ UNCHANGED <<steallock, victims>>
       ELSE /\ Set(steallock, q, w) /\ Goto(w, "rob")
            /\ \E order \in SetToSeqs(Queue \ {q}) : Set(victims, w, order)
    /\ UNCHANGED <<stacks, tuning, trylock, stealing, empty, steal_disable, todo, hand, loot>>
run(w) ==
    /\ pc[w] = "idle" /\ hand[w] # NULL /\ Op(w)[1] # "yield" /\ Set(hand, w, NULL)
    /\ UNCHANGED <<queues, pc, todo, victims, loot>>

-----------------------------------------------------------------------------
\* qthread_steal: queues that say they are empty are passed by, ...
steal_skip(w) ==
    /\ pc[w] = "rob" /\ victims[w] # <<>> /\ empty[Head(victims[w])]
    /\ Set(victims, w, Tail(victims[w])) /\ UNCHANGED <<queues, pc, todo, hand, loot>>
steal_lock(w) ==
    /\ pc[w] = "rob" /\ victims[w] # <<>>
    /\ LET q == Head(victims[w]) IN ~empty[q] /\ trylock[q] = NULL /\ Set(trylock, q, w)
    /\ Goto(w, "take") /\ UNCHANGED <<stacks, tuning, steallock, stealing, empty, steal_disable, todo, hand, victims, loot>>

stealable(t) == t \notin Unstealable
\* qt_threadqueue_steal_helper of s with room for n more: what is taken and what is left.
Walk(s, n) ==
    LET found(k) == Cardinality({i \in 1..k : stealable(s[i])})
    IN  CHOOSE k \in 0..Len(s) : (k = Len(s) \/ found(k) = n) /\ \A j \in 0..(k - 1) : found(j) < n
steal_helper(s, n) ==
    LET k == Walk(s, n)
    IN  [taken |-> SelectSeq(SubSeq(s, 1, k), stealable),
         left  |-> SelectSeq(SubSeq(s, 1, k), LAMBDA t : ~stealable(t)) \o SubSeq(s, k + 1, Len(s))]

\* Mutant of steal_all: every stack gives a whole chunk.
steal_all_each(q) ==
    LET first == steal_helper(shared[q], Chunk)
        step(acc, i) == LET r == steal_helper(local[q][i], Chunk)
                        IN  [taken |-> acc.taken \o r.taken, left |-> [acc.left EXCEPT ![i] = r.left]]
    IN  <<first.left, FoldLeft(step, [taken |-> first.taken, left |-> local[q]], [k \in 1..length |-> k - 1])>>

\* qt_threadqueue_steal: the shared stack, then the workers', until there is a chunk.
steal_all(q) ==
    LET first == steal_helper(shared[q], Chunk)
        step(acc, i) == LET r == steal_helper(local[q][i], Chunk - Len(acc.taken))
                        IN  [taken |-> acc.taken \o r.taken, left |-> [acc.left EXCEPT ![i] = r.left]]
    IN  <<first.left, FoldLeft(step, [taken |-> first.taken, left |-> local[q]], [k \in 1..length |-> k - 1])>>

\* ... others lose a chunk, under all their locks.
steal_take(w) ==
    LET q == Head(victims[w])
        r == steal_all(q)
    IN  /\ pc[w] = "take" /\ Set(shared, q, r[1]) /\ Set(local, q, r[2].left) /\ Set(trylock, q, NULL)
        /\ Set(empty, q, empty[q] \/ Len(r[2].taken) < Chunk)
        /\ Set(loot, w, r[2].taken)
        /\ IF r[2].taken = <<>> THEN Set(victims, w, Tail(victims[w])) /\ Goto(w, "rob")
           ELSE Set(victims, w, <<>>) /\ Goto(w, "loot")
        /\ UNCHANGED <<tuning, steallock, stealing, steal_disable, todo, hand>>

\* qt_threadqueue_enqueue_multiple: all but the first go to the thief's shepherd.
enqueue_multiple(w) ==
    LET q == home[w] IN
    /\ pc[w] = "loot" /\ trylock[q] = NULL /\ Set(shared, q, shared[q] \o Tail(loot[w]))
    /\ Set(empty, q, FALSE) /\ Set(stealing, q, FALSE) /\ Set(steallock, q, NULL)
    /\ Gets(w, loot[w][1]) /\ Set(loot, w, <<>>)
    /\ UNCHANGED <<local, tuning, trylock, steal_disable, victims>>

\* Mutant of steal_nothing: the lock is kept.
steal_nothing(w) ==
    /\ pc[w] = "rob" /\ victims[w] = <<>> /\ Set(stealing, home[w], FALSE) /\ Set(steallock, home[w], NULL)
    /\ Goto(w, "idle")
    /\ UNCHANGED <<stacks, tuning, trylock, empty, steal_disable, todo, hand, victims, loot>>

Step(w) ==
    \/ enqueue_biased(w) \/ enqueue_try(w) \/ enqueue_shared(w) \/ enqueue_contended(w) \/ enqueue_ends(w)
    \/ enqueue_yielded(w) \/ get_local(w) \/ get_try(w) \/ get_shared(w) \/ get_two(w) \/ get_retain(w)
    \/ get_others(w) \/ get_steal(w) \/ run(w) \/ steal_skip(w) \/ steal_lock(w) \/ steal_take(w)
    \/ enqueue_multiple(w) \/ steal_nothing(w)
Next == \E w \in Worker : Step(w)
Spec == Init /\ [][Next]_vars

-----------------------------------------------------------------------------
Places(t) ==
    Cardinality({<<q, i>> \in Queue \X (1..8) : i <= Len(shared[q]) /\ shared[q][i] = t})
    + Cardinality({<<q, k, i>> \in Queue \X Id \X (1..8) : i <= Len(local[q][k]) /\ local[q][k][i] = t})
    + Cardinality({w \in Worker : hand[w] = t}) + Cardinality({w \in Worker : \E i \in DOMAIN loot[w] : loot[w][i] = t})
Waiting(t) == \E w \in Worker : hand[w] = t
\* A task in a queue, or retained, or stolen, is in one place and stays somewhere until a
\* worker has it in hand: what one worker keeps back and what thieves pass over included.
NoneLost == \A t \in Task : /\ Places(t)' <= 1
                            /\ Places(t) = 1 /\ ~Waiting(t) => Places(t)' = 1

\* A thief never has more than a chunk.
ChunkAtMost == \A w \in Worker : pc[w] = "loot" => Len(loot[w]) \in 1..Chunk

\* The penalty stays between its bounds although `track' wraps, and no worker keeps to its
\* own stack for longer than the largest penalty.
PenaltyBounded == \A q \in Queue, i \in Id :
    penalty[q][i] \in penalty_min..penalty_max /\ bias[q][i] \in 0..penalty_max

\* Nobody asks for a task any more -- unless stealing is off for its queue, as it may be
\* from the start, or the original thread lies on top of a stack and hides what is below
\* from everybody but its worker.
Hidden(w) == \E s \in {shared[home[w]]} \cup {local[home[w]][i] : i \in Id} : s # <<>> /\ Last(s) = Main
Rested == \A w \in Worker : steal_disable[home[w]] \/ Hidden(w) \/ (todo[w] = <<>> /\ hand[w] = NULL)
==============================================================================
