------------------------------ MODULE LifoQueue ------------------------------
(***************************************************************************)
(* The lock-free stack of src/threadqueues/lifo_threadqueues.c: any number *)
(* of enqueuers push with compare-and-swap, one worker pops, and appends   *)
(* yielded tasks at the bottom with a plain store.  Nodes come from a pool *)
(* and are used again as soon as they are freed.                           *)
(***************************************************************************)
EXTENDS Naturals, Sequences, FiniteSets

CONSTANTS Task, Node,
          Enqueuer, Prog,    \* other workers, and the tasks each spawns here
          w,                 \* the worker that owns the queue
          Yielder,           \* tasks that yield once
          NULL

VARIABLES stack, next, thread,    \* the queue, and the fields of each node
          pool,                   \* the free nodes
          pc, node, old,          \* of each enqueuer and of the worker
          todo, again, hand
vars == <<stack, next, thread, pool, pc, node, old, todo, again, hand>>

Proc == Enqueuer \cup {w}
Init ==
    /\ stack = NULL /\ pool = Node
    /\ next = [n \in Node |-> NULL] /\ thread = [n \in Node |-> NULL]
    /\ pc = [p \in Proc |-> IF p = w THEN "get" ELSE "put"]
    /\ node = [p \in Proc |-> NULL] /\ old = [p \in Proc |-> NULL]
    /\ todo = Prog /\ again = Yielder /\ hand = NULL

Goto(p, l) == pc' = [pc EXCEPT ![p] = l]
Chain[n \in Node] == IF next[n] = NULL THEN <<n>> ELSE <<n>> \o Chain[next[n]]
Nodes == IF stack = NULL THEN <<>> ELSE Chain[stack]

\* qt_threadqueue_enqueue: a node is filled and the stack read ...
alloc(p) ==
    /\ pc[p] = "put" /\ IF p = w THEN hand # NULL ELSE todo[p] # <<>>
    /\ \E n \in pool :
       /\ pool' = pool \ {n} /\ node' = [node EXCEPT ![p] = n]
       /\ thread' = [thread EXCEPT ![n] = IF p = w THEN hand ELSE Head(todo[p])]
       /\ next' = [next EXCEPT ![n] = NULL]
    /\ old' = [old EXCEPT ![p] = stack] /\ Goto(p, "cas")
    /\ UNCHANGED <<stack, todo, again, hand>>

\* ... and swapped in, with what the failed swap found as the next try.
push(p) ==
    /\ pc[p] = "cas"
    /\ next' = [next EXCEPT ![node[p]] = old[p]]
    /\ IF stack = old[p]
       THEN /\ stack' = node[p] /\ Goto(p, IF p = w THEN "get" ELSE "put") /\ UNCHANGED old
            /\ IF p = w THEN hand' = NULL /\ UNCHANGED todo ELSE todo' = [todo EXCEPT ![p] = Tail(@)] /\ UNCHANGED hand
       ELSE old' = [old EXCEPT ![p] = stack] /\ UNCHANGED <<stack, pc, hand, todo>>
    /\ UNCHANGED <<thread, pool, node, again>>

\* qt_threadqueue_dequeue: read the top and its successor, then swap.  The top of the
\* stack may have changed meanwhile, but nobody else can have removed it.
read_top ==
    /\ pc[w] = "get" /\ stack # NULL
    /\ old' = [old EXCEPT ![w] = stack] /\ Goto(w, "pop")
    /\ UNCHANGED <<stack, next, thread, pool, node, todo, again, hand>>

pop ==
    /\ pc[w] = "pop"
    /\ IF stack = old[w]
       THEN /\ stack' = next[old[w]] /\ hand' = thread[old[w]]
            /\ pool' = pool \cup {old[w]} /\ Goto(w, "run") /\ UNCHANGED old
       ELSE old' = [old EXCEPT ![w] = stack] /\ UNCHANGED <<stack, hand, pool, pc>>
    /\ UNCHANGED <<next, thread, node, todo, again>>

\* The task runs; it ends or yields.
run ==
    /\ pc[w] = "run"
    /\ IF hand \in again THEN again' = again \ {hand} /\ Goto(w, "yield") /\ UNCHANGED hand
       ELSE hand' = NULL /\ Goto(w, "get") /\ UNCHANGED again
    /\ UNCHANGED <<stack, next, thread, pool, node, old, todo>>

\* qt_threadqueue_enqueue_yielded: walk to the bottom of the stack read first, and append;
\* an empty stack is pushed on instead.
yield_read ==
    /\ pc[w] = "yield"
    /\ old' = [old EXCEPT ![w] = stack] /\ Goto(w, IF stack = NULL THEN "put" ELSE "append")
    /\ UNCHANGED <<stack, next, thread, pool, node, todo, again, hand>>

append ==
    /\ pc[w] = "append"
    /\ LET walk == Chain[old[w]] IN
       \E n \in pool : /\ next' = [next EXCEPT ![walk[Len(walk)]] = n, ![n] = NULL]
                       /\ thread' = [thread EXCEPT ![n] = hand] /\ pool' = pool \ {n}
    /\ hand' = NULL /\ Goto(w, "get") /\ UNCHANGED <<stack, node, old, todo, again>>

\* The stack holds the nodes in keep, in this order.
Relink(keep) ==
    /\ stack' = IF keep = <<>> THEN NULL ELSE keep[1]
    /\ next' = [n \in Node |-> IF \E i \in DOMAIN keep : keep[i] = n
                  THEN LET i == CHOOSE i \in DOMAIN keep : keep[i] = n
                       IN  IF i = Len(keep) THEN NULL ELSE keep[i + 1]
                  ELSE next[n]]

\* Mutant of filter: the node of the last task looked at is freed, removed or not.
filter_last(k, gone) ==
    /\ pc[w] = "get" /\ k \in 1..Len(Nodes)
    /\ LET out == {Nodes[i] : i \in {j \in 1..k : thread[Nodes[j]] \in gone}} IN
       /\ Relink(SelectSeq(Nodes, LAMBDA n : n \notin out))
       /\ pool' = pool \cup out \cup {Nodes[k]} /\ again' = again \ {thread[n] : n \in out}
    /\ UNCHANGED <<thread, pc, node, old, todo, hand>>

\* qt_threadqueue_filter, by the worker: unlink the nodes of the tasks in gone among the
\* first k, with plain stores.
filter(k, gone) ==
    /\ pc[w] = "get" /\ k \in 1..Len(Nodes)
    /\ LET out == {Nodes[i] : i \in {j \in 1..k : thread[Nodes[j]] \in gone}}
       IN  /\ Relink(SelectSeq(Nodes, LAMBDA n : n \notin out))
           /\ pool' = pool \cup out /\ again' = again \ {thread[n] : n \in out}
    /\ UNCHANGED <<thread, pc, node, old, todo, hand>>

Enqueue(p) == alloc(p) \/ push(p)
Dequeue == read_top \/ pop \/ run \/ yield_read \/ append
Filter == \E k \in 1..Cardinality(Node), gone \in SUBSET Task : filter(k, gone)
Next == Dequeue \/ \E p \in Proc : Enqueue(p)
Spec == Init /\ [][Next]_vars

-----------------------------------------------------------------------------
Items == [i \in DOMAIN Nodes |-> thread[Nodes[i]]]
Queue == INSTANCE TaskQueue WITH Taker <- {w}, Lifo <- TRUE, items <- Items, hand <- [p \in {w} |-> hand]

\* Every task put in was run and, if it yields, run again.
Delivered == Items = <<>> /\ hand = NULL /\ again = {} /\ \A p \in Enqueuer : todo[p] = <<>>

\* With filters: every node is free, in the stack once, or in the hands of an enqueuer,
\* and every task that is not removed stays.
NodesConserved ==
    /\ Cardinality({Nodes[i] : i \in DOMAIN Nodes}) = Len(Nodes)
    /\ \A n \in Node : 1 = (IF n \in pool THEN 1 ELSE 0) + (IF \E i \in DOMAIN Nodes : Nodes[i] = n THEN 1 ELSE 0)
                           + Cardinality({p \in Proc : pc[p] = "cas" /\ node[p] = n})
==============================================================================
