---------------------------- MODULE LockFreeQueue ----------------------------
(***************************************************************************)
(* The linked queue with compare-and-swap and hazard pointers that is both *)
(* qlfqueue_t (src/ds/qlfqueue.c) and the mtsfifo thread queue             *)
(* (src/threadqueues/mtsfifo_threadqueues.c).  Nodes come from a pool and  *)
(* are used again once a scan finds no hazard pointer to them; each access *)
(* to shared memory is a step.                                             *)
(***************************************************************************)
EXTENDS Naturals, Sequences, FiniteSets

CONSTANTS Task, Node, Proc,
          Prog,       \* [Proc -> Seq(<<"enq", task>> or <<"deq">> or <<"get">>)]
          NULL

VARIABLES head, tail, next, value,    \* the queue, and the fields of each node
          pool, retired,              \* free nodes; those that wait for a scan, per process
          hp,                         \* <<hazard pointer 0, hazard pointer 1>> of each process
          pc, todo, hand,
          h, t, n, node, p,           \* the local variables of the operations
          raced                       \* history: a filter ran beside an operation
locals == <<h, t, n, node, p>>
vars == <<head, tail, next, value, pool, retired, hp, pc, todo, hand, locals, raced>>

Dummy == CHOOSE x \in Node : TRUE
Nothing == [x \in Proc |-> NULL]
Init ==
    /\ head = Dummy /\ tail = Dummy /\ pool = Node \ {Dummy}
    /\ next = [x \in Node |-> NULL] /\ value = [x \in Node |-> NULL]
    /\ retired = [x \in Proc |-> {}] /\ hp = [x \in Proc |-> <<NULL, NULL>>]
    /\ pc = [x \in Proc |-> "idle"] /\ todo = Prog /\ hand = Nothing
    /\ h = Nothing /\ t = Nothing /\ n = Nothing /\ node = Nothing /\ p = Nothing
    /\ raced = FALSE

Goto(x, l) == pc' = [pc EXCEPT ![x] = l]
Set(f, x, v) == f' = [f EXCEPT ![x] = v]
Starts(x, op) == pc[x] = "idle" /\ hand[x] = NULL /\ todo[x] # <<>> /\ Head(todo[x])[1] = op
Returns(x) == Goto(x, "idle") /\ todo' = [todo EXCEPT ![x] = Tail(@)]
Queue == <<head, tail, next, value, pool, retired>>

\* hazardous_ptr
hazardous_ptr(x, which, ptr) == hp' = [hp EXCEPT ![x][which + 1] = ptr]

-----------------------------------------------------------------------------
\* qlfqueue_enqueue, qt_threadqueue_enqueue

enq_alloc(x) ==
    /\ Starts(x, "enq")
    /\ \E y \in pool : /\ pool' = pool \ {y} /\ Set(node, x, y) /\ Set(next, y, NULL)
                       /\ Set(value, y, Head(todo[x])[2])
    /\ Goto(x, "enq") /\ UNCHANGED <<head, tail, retired, hp, todo, hand, h, t, n, p, raced>>

enq_read_tail(x) ==
    /\ pc[x] = "enq" /\ Set(t, x, tail) /\ Goto(x, "enq_hazard")
    /\ UNCHANGED <<Queue, hp, todo, hand, h, n, node, p, raced>>
enq_hazard(x) ==
    /\ pc[x] = "enq_hazard" /\ hazardous_ptr(x, 0, t[x]) /\ Goto(x, "enq_check")
    /\ UNCHANGED <<Queue, todo, hand, locals, raced>>

\* Mutant of enq_check: the hazard pointer is not validated.
enq_check_not(x) ==
    /\ pc[x] = "enq_check" /\ Goto(x, "enq_next")
    /\ UNCHANGED <<Queue, hp, todo, hand, locals, raced>>

\* Is the tail still the tail?  Only then is the hazard pointer known to protect it.
enq_check(x) ==
    /\ pc[x] = "enq_check" /\ Goto(x, IF t[x] = tail THEN "enq_next" ELSE "enq")
    /\ UNCHANGED <<Queue, hp, todo, hand, locals, raced>>
enq_read_next(x) ==
    /\ pc[x] = "enq_next" /\ Set(n, x, next[t[x]])
    /\ Goto(x, IF next[t[x]] = NULL THEN "enq_cas" ELSE "enq_help")
    /\ UNCHANGED <<Queue, hp, todo, hand, h, t, node, p, raced>>
enq_help(x) ==
    /\ pc[x] = "enq_help" /\ Goto(x, "enq")
    /\ tail' = IF tail = t[x] THEN n[x] ELSE tail
    /\ UNCHANGED <<head, next, value, pool, retired, hp, todo, hand, locals, raced>>
enq_cas(x) ==
    /\ pc[x] = "enq_cas"
    /\ IF next[t[x]] = NULL THEN Set(next, t[x], node[x]) /\ Goto(x, "enq_swing")
       ELSE Goto(x, "enq") /\ UNCHANGED next
    /\ UNCHANGED <<head, tail, value, pool, retired, hp, todo, hand, locals, raced>>
enq_swing(x) ==
    /\ pc[x] = "enq_swing" /\ tail' = IF tail = t[x] THEN node[x] ELSE tail
    /\ hazardous_ptr(x, 0, NULL) /\ Returns(x)
    /\ UNCHANGED <<head, next, value, pool, retired, hand, locals, raced>>

-----------------------------------------------------------------------------
\* qlfqueue_dequeue and qt_threadqueue_dequeue ("deq"); qt_scheduler_get_thread ("get")

deq_read_head(x) ==
    /\ pc[x] = "deq" \/ Starts(x, "deq") \/ Starts(x, "get")
    /\ Set(h, x, head) /\ Goto(x, "deq_hazard")
    /\ UNCHANGED <<Queue, hp, todo, hand, t, n, node, p, raced>>
deq_hazard(x) ==
    /\ pc[x] = "deq_hazard" /\ hazardous_ptr(x, 0, h[x]) /\ Goto(x, "deq_check")
    /\ UNCHANGED <<Queue, todo, hand, locals, raced>>
deq_check(x) ==
    /\ pc[x] = "deq_check" /\ Goto(x, IF h[x] = head THEN "deq_tail" ELSE "deq")
    /\ UNCHANGED <<Queue, hp, todo, hand, locals, raced>>
deq_read_tail(x) ==
    /\ pc[x] = "deq_tail" /\ Set(t, x, tail) /\ Goto(x, "deq_next")
    /\ UNCHANGED <<Queue, hp, todo, hand, h, n, node, p, raced>>

\* Mutant of deq_read_next: a queue whose head is its tail counts as empty.
deq_read_next_tail(x) ==
    /\ pc[x] = "deq_next" /\ Set(n, x, IF h[x] = t[x] THEN NULL ELSE next[h[x]])
    /\ Goto(x, "deq_hazard1") /\ UNCHANGED <<Queue, hp, todo, hand, h, t, node, p, raced>>

deq_read_next(x) ==
    /\ pc[x] = "deq_next" /\ Set(n, x, next[h[x]]) /\ Goto(x, "deq_hazard1")
    /\ UNCHANGED <<Queue, hp, todo, hand, h, t, node, p, raced>>

\* The second hazard pointer is set, but nothing is validated after it.  An empty queue
\* ends a dequeue; get_thread tries again.
deq_hazard1(x) ==
    /\ pc[x] = "deq_hazard1" /\ hazardous_ptr(x, 1, n[x])
    /\ IF n[x] = NULL
       THEN IF Head(todo[x])[1] = "get" THEN Goto(x, "deq") /\ UNCHANGED todo ELSE Returns(x)
       ELSE Goto(x, IF h[x] = t[x] THEN "deq_help" ELSE "deq_value") /\ UNCHANGED todo
    /\ UNCHANGED <<Queue, hand, locals, raced>>

\* The tail falls behind.  A dequeue starts over; get_thread goes on.
deq_help(x) ==
    /\ pc[x] = "deq_help" /\ tail' = IF tail = t[x] THEN n[x] ELSE tail
    /\ Goto(x, IF Head(todo[x])[1] = "get" THEN "deq_value" ELSE "deq")
    /\ UNCHANGED <<head, next, value, pool, retired, hp, todo, hand, locals, raced>>
deq_value(x) ==
    /\ pc[x] = "deq_value" /\ Set(p, x, value[n[x]]) /\ Goto(x, "deq_cas")
    /\ UNCHANGED <<Queue, hp, todo, hand, h, t, n, node, raced>>

\* Mutant of deq_cas: the head is stored without comparing.
deq_cas_store(x) ==
    /\ pc[x] = "deq_cas" /\ head' = n[x] /\ Set(hand, x, p[x]) /\ Returns(x)
    /\ Set(retired, x, retired[x] \cup {h[x]}) /\ Set(hp, x, <<NULL, NULL>>)
    /\ UNCHANGED <<tail, next, value, pool, locals, raced>>

\* The head is swapped; the old one goes to hazardous_release_node.
deq_cas(x) ==
    /\ pc[x] = "deq_cas"
    /\ IF head = h[x]
       THEN /\ head' = n[x] /\ Set(hand, x, p[x]) /\ Returns(x)
            /\ Set(retired, x, retired[x] \cup {h[x]}) /\ Set(hp, x, <<NULL, NULL>>)
       ELSE Goto(x, "deq") /\ UNCHANGED <<head, hand, retired, hp, todo>>
    /\ UNCHANGED <<tail, next, value, pool, locals, raced>>

\* The scan that follows a release once the list of retired nodes is full (at which
\* length is left open): nodes without a hazard pointer go to the pool.
scan(x) ==
    LET hazards == {hp[y][i] : y \in Proc \ {x}, i \in 1..2}
        safe    == retired[x] \ hazards
    IN  /\ pc[x] = "idle" /\ safe # {}
        /\ pool' = pool \cup safe /\ Set(retired, x, retired[x] \cap hazards)
        /\ UNCHANGED <<head, tail, next, value, hp, pc, todo, hand, locals, raced>>

\* The task is run, or the element used.
run(x) == /\ hand[x] # NULL /\ Set(hand, x, NULL)
          /\ UNCHANGED <<Queue, hp, pc, todo, locals, raced>>

\* qt_threadqueue_filter by x while the others are stopped wherever they are: the nodes
\* of the tasks in gone are unlinked, the tail is moved if it was one of them.
Chain[x \in Node] == IF next[x] = NULL THEN <<x>> ELSE <<x>> \o Chain[next[x]]
filter(x, gone) ==
    /\ pc[x] = "idle" /\ hand[x] = NULL
    /\ LET all  == Chain[head]
           keep == SelectSeq(all, LAMBDA y : y = head \/ value[y] \notin gone)
           out  == {all[i] : i \in DOMAIN all} \ {keep[i] : i \in DOMAIN keep}
       IN  /\ out # {}
           /\ next' = [y \in Node |-> IF \E i \in DOMAIN keep : keep[i] = y
                         THEN LET i == CHOOSE i \in DOMAIN keep : keep[i] = y
                              IN  IF i = Len(keep) THEN NULL ELSE keep[i + 1]
                         ELSE next[y]]
           /\ tail' = IF all[Len(all)] \in out THEN keep[Len(keep)] ELSE tail
           /\ Set(retired, x, retired[x] \cup out)
    /\ raced' = (raced \/ \E y \in Proc : pc[y] # "idle")
    /\ UNCHANGED <<head, value, pool, hp, pc, todo, hand, locals>>

Enqueue(x) == enq_alloc(x) \/ enq_read_tail(x) \/ enq_hazard(x) \/ enq_check(x) \/ enq_read_next(x)
              \/ enq_help(x) \/ enq_cas(x) \/ enq_swing(x)
Dequeue(x) == deq_read_head(x) \/ deq_hazard(x) \/ deq_check(x) \/ deq_read_tail(x) \/ deq_read_next(x)
              \/ deq_hazard1(x) \/ deq_help(x) \/ deq_value(x) \/ deq_cas(x)
Filter == \E x \in Proc, gone \in (SUBSET Task) \ {{}} : filter(x, gone)
Step(x) == Enqueue(x) \/ Dequeue(x) \/ run(x)
Next == \E x \in Proc : Step(x) \/ scan(x)
Spec == Init /\ [][Next]_vars

-----------------------------------------------------------------------------
Items == [i \in 1..(Len(Chain[head]) - 1) |-> value[Chain[head][i + 1]]]
Abstract == INSTANCE TaskQueue WITH Taker <- Proc, Lifo <- FALSE, items <- Items

\* A dequeue that finds next_ptr NULL, and so returns NULL, looks at an empty queue.
EmptyIsEmpty ==
    \A x \in Proc : pc[x] = "deq_next" /\ pc'[x] = "deq_hazard1" /\ n'[x] = NULL => Items = <<>>

\* What hazard pointer 0 protects is not freed while the operation goes on.
HazardsProtect ==
    raced \/ \A x \in Proc :
                    /\ pc[x] \in {"enq_next", "enq_help", "enq_cas"} => t[x] \notin pool
                    /\ pc[x] \in {"deq_tail", "deq_next", "deq_hazard1", "deq_value", "deq_cas"} => h[x] \notin pool

\* The tail is in the queue and at most one node behind: the next task will be linked
\* behind the last one -- unless a filter, which takes no heed of
\* other operations, ran beside one.
EndsAtTail == raced \/ \E i \in DOMAIN Chain[head] : Chain[head][i] = tail /\ i >= Len(Chain[head]) - 1

\* Every operation has ended (get_thread: there was something to get).
Delivered == \A x \in Proc : todo[x] = <<>> /\ hand[x] = NULL
==============================================================================
