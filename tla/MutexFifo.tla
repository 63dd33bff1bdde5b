------------------------------ MODULE MutexFifo ------------------------------
(***************************************************************************)
(* The thread queue with one lock for each end                             *)
(* (src/threadqueues/mutexfifo_threadqueues.c).  A node is named by its    *)
(* task; the head is a node whose task is gone.                            *)
(***************************************************************************)
EXTENDS Naturals, Sequences, FiniteSets, SequencesExt

CONSTANTS Task, Dummy,
          Proc, Prog,     \* [Proc -> Seq(<<"put", task>> or <<"get">>)]
          NULL

VARIABLES head, tail, next, head_lock, tail_lock, pc, todo, hand,
          raced           \* history: a filter ran while an enqueuer had the lock of its end
vars == <<head, tail, next, head_lock, tail_lock, pc, todo, hand, raced>>

Node == Task \cup {Dummy}
Init ==
    /\ head = Dummy /\ tail = Dummy /\ next = [x \in Node |-> NULL]
    /\ head_lock = NULL /\ tail_lock = NULL
    /\ pc = [x \in Proc |-> "idle"] /\ todo = Prog /\ hand = [x \in Proc |-> NULL]
    /\ raced = FALSE

Goto(x, l) == pc' = [pc EXCEPT ![x] = l]
Op(x) == IF todo[x] = <<>> \/ hand[x] # NULL THEN <<"none">> ELSE Head(todo[x])
Returns(x) == Goto(x, "idle") /\ todo' = [todo EXCEPT ![x] = Tail(@)]

\* qt_threadqueue_enqueue: two stores under tail_lock.
lock_tail(x) ==
    /\ pc[x] = "idle" /\ Op(x)[1] = "put" /\ tail_lock = NULL
    /\ tail_lock' = x /\ Goto(x, "link")
    /\ UNCHANGED <<head, tail, next, head_lock, todo, hand, raced>>
link(x) ==
    /\ pc[x] = "link" /\ next' = [next EXCEPT ![tail] = Op(x)[2], ![Op(x)[2]] = NULL]
    /\ Goto(x, "tail") /\ UNCHANGED <<head, tail, head_lock, tail_lock, todo, hand, raced>>
move_tail(x) ==
    /\ pc[x] = "tail" /\ tail' = Op(x)[2] /\ tail_lock' = NULL /\ Returns(x)
    /\ UNCHANGED <<head, next, head_lock, hand, raced>>

\* qt_threadqueue_dequeue, repeated by qt_scheduler_get_thread while it finds nothing.
lock_head(x) ==
    /\ pc[x] = "idle" /\ Op(x)[1] = "get" /\ head_lock = NULL
    /\ head_lock' = x /\ Goto(x, "take")
    /\ UNCHANGED <<head, tail, next, tail_lock, todo, hand, raced>>

\* Mutant of take: the lock stays taken when the queue is empty.
take_locked(x) ==
    /\ pc[x] = "take"
    /\ IF next[head] = NULL THEN Goto(x, "idle") /\ UNCHANGED <<head, hand, todo, head_lock>>
       ELSE head' = next[head] /\ hand' = [hand EXCEPT ![x] = next[head]] /\ Returns(x) /\ head_lock' = NULL
    /\ UNCHANGED <<tail, next, tail_lock, raced>>

take(x) ==
    /\ pc[x] = "take" /\ head_lock' = NULL
    /\ IF next[head] = NULL THEN Goto(x, "idle") /\ UNCHANGED <<head, hand, todo>>
       ELSE head' = next[head] /\ hand' = [hand EXCEPT ![x] = next[head]] /\ Returns(x)
    /\ UNCHANGED <<tail, next, tail_lock, raced>>
run(x) == /\ hand[x] # NULL /\ hand' = [hand EXCEPT ![x] = NULL]
          /\ UNCHANGED <<head, tail, next, head_lock, tail_lock, pc, todo, raced>>

\* qt_threadqueue_filter holds head_lock only, also when it moves the tail.
Chain[x \in Node] == IF next[x] = NULL THEN <<x>> ELSE <<x>> \o Chain[next[x]]
Filtered(keep) ==
    next' = [y \in Node |-> IF \E i \in DOMAIN keep : keep[i] = y
               THEN LET i == CHOOSE i \in DOMAIN keep : keep[i] = y
                    IN  IF i = Len(keep) THEN NULL ELSE keep[i + 1]
               ELSE next[y]]
\* Mutant of filter: the tail stays when the last task is removed.
filter_tail(gone) ==
    /\ head_lock = NULL
    /\ LET all  == Chain[head]
           keep == SelectSeq(all, LAMBDA y : y = head \/ y \notin gone)
       IN  keep # all /\ Filtered(keep)
    /\ raced' = (raced \/ tail_lock # NULL)
    /\ UNCHANGED <<head, tail, head_lock, tail_lock, pc, todo, hand>>
filter(gone) ==
    /\ head_lock = NULL
    /\ LET all  == Chain[head]
           keep == SelectSeq(all, LAMBDA y : y = head \/ y \notin gone)
       IN  /\ keep # all
           /\ Filtered(keep)
           /\ tail' = IF all[Len(all)] # keep[Len(keep)] THEN keep[Len(keep)] ELSE tail
    /\ raced' = (raced \/ tail_lock # NULL)
    /\ UNCHANGED <<head, head_lock, tail_lock, pc, todo, hand>>
Filter == \E gone \in (SUBSET Task) \ {{}} : filter(gone)

Step(x) == lock_tail(x) \/ link(x) \/ move_tail(x) \/ lock_head(x) \/ take(x) \/ run(x)
Next == \E x \in Proc : Step(x)
Spec == Init /\ [][Next]_vars

-----------------------------------------------------------------------------
Items == Tail(Chain[head])
Abstract == INSTANCE TaskQueue WITH Taker <- Proc, Lifo <- FALSE, items <- Items

\* Every task put in was taken out.
Delivered == \A x \in Proc : todo[x] = <<>> /\ hand[x] = NULL

\* The next task will be linked behind the last one, also after filters -- except that a
\* filter, which has head_lock only, may move the tail away from under an enqueuer.
EndsAtTail == raced \/ tail_lock # NULL \/ tail = Last(Chain[head])
==============================================================================
