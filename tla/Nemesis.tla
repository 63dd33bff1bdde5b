------------------------------- MODULE Nemesis -------------------------------
(***************************************************************************)
(* The NEMESIS thread queue (src/threadqueues/nemesis_threadqueues.c): any *)
(* number of tasks are put in without a lock, one worker takes them out.   *)
(* A node is named by its task.  Each access to shared memory is a step.   *)
(***************************************************************************)
EXTENDS Naturals, Sequences, FiniteSets, SequencesExt

CONSTANTS Task,
          Enqueuer, Prog,    \* other workers, and the tasks each spawns here
          w,                 \* the worker that owns the queue
          Yielder,           \* tasks that yield once
          NULL

VARIABLES next, head, tail, shadow_head,
          pc, prev,          \* of each enqueuer and of the worker
          todo, again,       \* tasks still to put in; tasks that still yield
          ret, hand          \* the node being dequeued; the task the worker runs
vars == <<next, head, tail, shadow_head, pc, prev, todo, again, ret, hand>>

Proc == Enqueuer \cup {w}
Init ==
    /\ next = [t \in Task |-> NULL] /\ head = NULL /\ tail = NULL /\ shadow_head = NULL
    /\ pc = [p \in Proc |-> IF p = w THEN "get" ELSE "put"] /\ prev = [p \in Proc |-> NULL]
    /\ todo = Prog /\ again = Yielder /\ ret = NULL /\ hand = NULL

\* The task that p puts in: its next one, or the one that yields.
Arg(p) == IF p = w THEN ret ELSE Head(todo[p])
Goto(p, l) == pc' = [pc EXCEPT ![p] = l]

\* qt_threadqueue_enqueue (and _yielded): swap the tail ...
swap_tail(p) ==
    /\ pc[p] = "put" /\ IF p = w THEN hand # NULL ELSE todo[p] # <<>>
    /\ LET t == IF p = w THEN hand ELSE Head(todo[p]) IN
       /\ next' = [next EXCEPT ![t] = NULL] /\ tail' = t
       /\ prev' = [prev EXCEPT ![p] = tail]
       /\ IF p = w THEN ret' = t /\ hand' = NULL ELSE UNCHANGED <<ret, hand>>
    /\ Goto(p, "link") /\ UNCHANGED <<head, shadow_head, todo, again>>

\* ... then link the node behind the old tail, or make it the head.
link(p) ==
    /\ pc[p] = "link"
    /\ IF prev[p] = NULL THEN head' = Arg(p) /\ UNCHANGED next
       ELSE next' = [next EXCEPT ![prev[p]] = Arg(p)] /\ UNCHANGED head
    /\ Goto(p, IF p = w THEN "get" ELSE "put")
    /\ IF p = w THEN UNCHANGED todo ELSE todo' = [todo EXCEPT ![p] = Tail(@)]
    /\ UNCHANGED <<tail, shadow_head, prev, again, ret, hand>>

-----------------------------------------------------------------------------
\* qt_scheduler_get_thread and qt_internal_NEMESIS_dequeue

\* Spin while both heads are NULL; then head moves to shadow_head.
move_head ==
    /\ pc[w] = "get" /\ shadow_head = NULL /\ head # NULL
    /\ shadow_head' = head /\ Goto(w, "clear")
    /\ UNCHANGED <<next, head, tail, prev, todo, again, ret, hand>>
clear_head ==
    /\ pc[w] = "clear" /\ head' = NULL /\ Goto(w, "get")
    /\ UNCHANGED <<next, tail, shadow_head, prev, todo, again, ret, hand>>

\* The first node has a successor: take it.  Otherwise it may be the last ...
Take(r) == hand' = r /\ ret' = NULL /\ Goto(w, "run")

pop ==
    /\ pc[w] = "get" /\ shadow_head # NULL
    /\ IF next[shadow_head] # NULL
       THEN /\ shadow_head' = next[shadow_head] /\ next' = [next EXCEPT ![shadow_head] = NULL]
            /\ Take(shadow_head)
       ELSE shadow_head' = NULL /\ ret' = shadow_head /\ Goto(w, "cas") /\ UNCHANGED <<next, hand>>
    /\ UNCHANGED <<head, tail, prev, todo, again>>

\* Mutant of cas_tail: the tail is not compared, the node is taken to be the last.
cas_tail_store ==
    /\ pc[w] = "cas" /\ tail' = NULL /\ Take(ret)
    /\ UNCHANGED <<next, head, shadow_head, prev, todo, again>>

\* ... which the compare-and-swap of the tail decides: another node is behind it, ...
cas_tail ==
    /\ pc[w] = "cas"
    /\ IF tail = ret THEN tail' = NULL /\ Take(ret)
       ELSE Goto(w, "wait") /\ UNCHANGED <<tail, ret, hand>>
    /\ UNCHANGED <<next, head, shadow_head, prev, todo, again>>

\* ... whose enqueuer has yet to link it.
wait_link ==
    /\ pc[w] = "wait" /\ next[ret] # NULL
    /\ shadow_head' = next[ret] /\ next' = [next EXCEPT ![ret] = NULL] /\ Take(ret)
    /\ UNCHANGED <<head, tail, prev, todo, again>>

\* The task runs; it ends or yields.
run ==
    /\ pc[w] = "run"
    /\ IF hand \in again THEN again' = again \ {hand} /\ Goto(w, "put") /\ UNCHANGED hand
       ELSE hand' = NULL /\ Goto(w, "get") /\ UNCHANGED again
    /\ UNCHANGED <<next, head, tail, shadow_head, prev, todo, ret>>

\* What qt_internal_NEMESIS_dequeue_st finds, one node after the other.
Chain[t \in Task] == IF next[t] = NULL THEN <<t>> ELSE <<t>> \o Chain[next[t]]
Listed == IF shadow_head # NULL THEN Chain[shadow_head] ELSE IF head # NULL THEN Chain[head] ELSE <<>>
ChainOf(s) == [t \in Task |-> IF \E i \in 1..Len(s) - 1 : s[i] = t THEN s[(CHOOSE i \in 1..Len(s) - 1 : s[i] = t) + 1]
                              ELSE IF \E i \in DOMAIN Listed : Listed[i] = t THEN NULL ELSE next[t]]

\* qt_threadqueue_filter, while nobody puts tasks in: k tasks are looked at, those in
\* gone are removed, and what was kept becomes the queue.  What was not looked at is in
\* shadow_head by then, and shadow_head is cleared.
filter(k, gone) ==
    /\ pc[w] = "get" /\ \A p \in Enqueuer : pc[p] = "put"
    /\ k \in 1..Len(Listed)
    /\ LET kept == SelectSeq(SubSeq(Listed, 1, k), LAMBDA t : t \notin gone) IN
       /\ next' = ChainOf(kept)
       /\ head' = (IF kept = <<>> THEN NULL ELSE kept[1])
       /\ tail' = (IF kept = <<>> THEN NULL ELSE kept[Len(kept)])
    /\ shadow_head' = NULL
    /\ again' = again \ (gone \cap {Listed[i] : i \in 1..k})
    /\ UNCHANGED <<pc, prev, todo, ret, hand>>

Enqueue(p) == swap_tail(p) \/ link(p)
Dequeue == move_head \/ clear_head \/ pop \/ cas_tail \/ wait_link \/ run
Filter == \E k \in 1..Cardinality(Task), gone \in SUBSET Task : filter(k, gone)
Next == Dequeue \/ \E p \in Proc : Enqueue(p)
Spec == Init /\ [][Next]_vars

-----------------------------------------------------------------------------
\* The order of the queue is that of the swaps: a node whose link is missing is followed
\* by the one whose enqueuer holds it as prev.
Pending(x) == {p \in Proc : pc[p] = "link" /\ prev[p] = x}
Succ(x) == IF x # NULL /\ next[x] # NULL THEN next[x]
           ELSE IF Pending(x) # {} THEN Arg(CHOOSE p \in Pending(x) : TRUE) ELSE NULL
From[x \in Task] == IF Succ(x) = NULL THEN <<x>> ELSE <<x>> \o From[Succ(x)]
First == IF pc[w] \in {"cas", "wait"} THEN ret
         ELSE IF shadow_head # NULL THEN shadow_head
         ELSE IF head # NULL THEN head ELSE Succ(NULL)
Items == IF First = NULL THEN <<>> ELSE From[First]

Queue == INSTANCE TaskQueue WITH Taker <- {w}, Lifo <- FALSE, items <- Items, hand <- [p \in {w} |-> hand]

\* Every task put in was run and, if it yields, run again.
Delivered == Items = <<>> /\ hand = NULL /\ again = {} /\ \A p \in Enqueuer : todo[p] = <<>>

\* The next task will be linked behind the last one, also after filters.
EndsAtTail == tail = IF Items = <<>> THEN NULL ELSE Last(Items)
==============================================================================
