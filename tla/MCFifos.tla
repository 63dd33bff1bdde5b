------------------------------ MODULE MCFifos ------------------------------
(***************************************************************************)
(* Small instances of the queues without locks or with one lock for each   *)
(* end, and of the hazard pointers that protect their nodes.  A behaviour  *)
(* is one of the component named by which.                                 *)
(***************************************************************************)
EXTENDS Integers, Sequences, FiniteSets, TLC

CONSTANTS Which, NULL

VARIABLES which, next, head, tail, shadow_head, pc, prev, todo, again, ret, hand, stack,
          thread, pool, node, old, value, retired, hp, h, t, n, p, raced, head_lock,
          tail_lock, linked, freed, freelist, ptr, plist, looked, elements, wpc, rpc, cur, sent, received,
          allsheps, neighbors, theQ, last_consumed, ads, generation, last_ad_issued,
          last_ad_consumed, ip, left, ad, lc, got
all == <<which, next, head, tail, shadow_head, pc, prev, todo, again, ret, hand, stack,
         thread, pool, node, old, value, retired, hp, h, t, n, p, raced, head_lock, tail_lock,
         linked, freed, freelist, ptr, plist, looked, elements, wpc, rpc, cur, sent, received, allsheps,
         neighbors, theQ, last_consumed, ads, generation, last_ad_issued, last_ad_consumed,
         ip, left, ad, lc, got>>

\* A component has the variables that are named in the set S; those of the others are 0.
But(name, S, formula) == IF name \in S THEN TRUE ELSE formula
Unused(v) == v = 0
Same(v) == UNCHANGED v
Others(S, F(_)) ==
    /\ But("next", S, F(next)) /\ But("head", S, F(head)) /\ But("tail", S, F(tail))
    /\ But("shadow_head", S, F(shadow_head)) /\ But("pc", S, F(pc))
    /\ But("prev", S, F(prev)) /\ But("todo", S, F(todo)) /\ But("again", S, F(again))
    /\ But("ret", S, F(ret)) /\ But("hand", S, F(hand)) /\ But("stack", S, F(stack))
    /\ But("thread", S, F(thread)) /\ But("pool", S, F(pool)) /\ But("node", S, F(node))
    /\ But("old", S, F(old)) /\ But("value", S, F(value)) /\ But("retired", S, F(retired))
    /\ But("hp", S, F(hp)) /\ But("h", S, F(h)) /\ But("t", S, F(t)) /\ But("n", S, F(n))
    /\ But("p", S, F(p)) /\ But("raced", S, F(raced)) /\ But("head_lock", S, F(head_lock))
    /\ But("tail_lock", S, F(tail_lock)) /\ But("linked", S, F(linked))
    /\ But("freed", S, F(freed)) /\ But("freelist", S, F(freelist))
    /\ But("ptr", S, F(ptr)) /\ But("plist", S, F(plist)) /\ But("looked", S, F(looked))
    /\ But("elements", S, F(elements)) /\ But("wpc", S, F(wpc))
    /\ But("rpc", S, F(rpc)) /\ But("cur", S, F(cur)) /\ But("sent", S, F(sent))
    /\ But("received", S, F(received)) /\ But("allsheps", S, F(allsheps))
    /\ But("neighbors", S, F(neighbors)) /\ But("theQ", S, F(theQ))
    /\ But("last_consumed", S, F(last_consumed)) /\ But("ads", S, F(ads))
    /\ But("generation", S, F(generation)) /\ But("last_ad_issued", S, F(last_ad_issued))
    /\ But("last_ad_consumed", S, F(last_ad_consumed)) /\ But("ip", S, F(ip))
    /\ But("left", S, F(left)) /\ But("ad", S, F(ad)) /\ But("lc", S, F(lc))
    /\ But("got", S, F(got))

-----------------------------------------------------------------------------
(* Two enqueuers, 1 and 2, and the worker 3 that owns the queue; with      *)
(* filters, one of each.                                                   *)

Two == <<<<"t1", "t2">>, <<"t3">>>>
Just == <<<<"t1", "t2", "t3">>>>
N == INSTANCE Nemesis WITH Task <- {"t1", "t2", "t3"}, Enqueuer <- {1, 2}, Prog <- Two, w <- 3,
                           Yielder <- {"t1", "t3"}
NF == INSTANCE Nemesis WITH Task <- {"t1", "t2", "t3"}, Enqueuer <- {1, 2}, Prog <- Two, w <- 3,
                            Yielder <- {"t1"}
L == INSTANCE LifoQueue WITH Task <- {"t1", "t2", "t3"}, Node <- {"n1", "n2", "n3"}, Enqueuer <- {1, 2},
                             Prog <- Two, w <- 3, Yielder <- {"t1", "t3"}
LF == INSTANCE LifoQueue WITH Task <- {"t1", "t2", "t3"}, Node <- {"n1", "n2", "n3"}, Enqueuer <- {1},
                              Prog <- Just, w <- 3, Yielder <- {"t1"}
lvars == L!vars
nvars == N!vars

(* Nodes that are reused; workers that wait for tasks; enqueues beside     *)
(* filters.                                                                *)

E(x) == <<"enq", x>>
D == <<"deq">>
Reuse   == <<<<E("t1"), D, E("t2")>>, <<D>>, <<E("t3")>>>>
Getters == <<<<E("t1"), E("t2")>>, <<<<"get">>>>, <<<<"get">>>>>>
Filters == <<<<E("t1"), E("t2")>>, <<D>>>>
F3 == INSTANCE LockFreeQueue WITH Task <- {"t1", "t2", "t3"}, Node <- {"n1", "n2", "n3"}, Proc <- 1..3, Prog <- Reuse
FG == INSTANCE LockFreeQueue WITH Task <- {"t1", "t2"}, Node <- {"n1", "n2", "n3"}, Proc <- 1..3, Prog <- Getters
FF == INSTANCE LockFreeQueue WITH Task <- {"t1", "t2"}, Node <- {"n1", "n2", "n3"}, Proc <- 1..2, Prog <- Filters
fvars == F3!vars

(* Two enqueuers and two dequeuers.                                        *)

Ends == <<<<<<"put", "t1">>, <<"put", "t2">>>>, <<<<"put", "t3">>>>, <<<<"get">>, <<"get">>>>, <<<<"get">>>>>>
M == INSTANCE MutexFifo WITH Task <- {"t1", "t2", "t3"}, Dummy <- "dummy", Proc <- 1..4, Prog <- Ends
mvars == M!vars

(* Two workers whose lists hold two nodes.                                 *)

H == INSTANCE HazardPtrs WITH Worker <- {1, 2}, Node <- {"n1", "n2", "n3"}, Slack <- 0
hvars == H!vars

(* A ring of four slots, more than twice around.                           *)

S == INSTANCE SwsrQueue WITH size <- 4, Total <- 9
ASSUME S!SizeAssumption
ringvars == S!vars

(* Three shepherds, the third far away, with one caller each.              *)

Apart == [x \in (1..3) \X (1..3) |-> IF x[1] = x[2] THEN 0 ELSE IF 3 \in {x[1], x[2]} THEN 25 ELSE 12]
In(e) == [op |-> "enqueue", elem |-> e]
There(e, s) == [op |-> "enqueue_there", elem |-> e, there |-> s]
Out == [op |-> "dequeue", elem |-> 0]
Along == <<<<There(1, 2), There(2, 2), Out>>, <<There(3, 3), Out>>, <<In(4), Out, Out>>>>
Mixed == <<<<There(1, 2), There(2, 2), Out>>, <<There(3, 3), In(4), Out, Out>>, <<Out, In(5), Out>>>>
Q == INSTANCE Qdqueue WITH Shep <- 1..3, Distance <- Apart, Task <- 1..3, At <- <<1, 2, 3>>, Script <- Along, Near <- 10
QA == INSTANCE Qdqueue WITH Shep <- 1..3, Distance <- Apart, Task <- 1..3, At <- <<1, 2, 3>>, Script <- Mixed, Near <- 10
qvars == Q!vars

-----------------------------------------------------------------------------

NemUses   == {"next", "head", "tail", "shadow_head", "pc", "prev", "todo", "again", "ret", "hand"}
LifoUses  == {"stack", "next", "thread", "pool", "pc", "node", "old", "todo", "again", "hand"}
FreeUses  == {"head", "tail", "next", "value", "pool", "retired", "hp", "pc", "todo", "hand", "h", "t",
              "n", "node", "p", "raced"}
MutexUses == {"head", "tail", "next", "head_lock", "tail_lock", "pc", "todo", "hand", "raced"}
HazUses   == {"hp", "linked", "freed", "freelist", "pc", "ptr", "plist", "looked"}
SwsrUses  == {"head", "tail", "elements", "wpc", "rpc", "cur", "sent", "received"}
DistUses  == {"allsheps", "neighbors", "theQ", "last_consumed", "ads", "generation", "last_ad_issued",
              "last_ad_consumed", "pc", "ip", "left", "ad", "lc", "got"}

Init ==
    /\ which \in Which
    /\ \/ which = "nemesis" /\ N!Init /\ Others(NemUses, Unused)
       \/ which = "nemesis_filter" /\ NF!Init /\ Others(NemUses, Unused)
       \/ which = "lifo" /\ L!Init /\ Others(LifoUses, Unused)
       \/ which = "lifo_filter" /\ LF!Init /\ Others(LifoUses, Unused)
       \/ which = "free_reuse" /\ F3!Init /\ Others(FreeUses, Unused)
       \/ which = "free_get" /\ FG!Init /\ Others(FreeUses, Unused)
       \/ which = "free_filter" /\ FF!Init /\ Others(FreeUses, Unused)
       \/ which = "mutex" /\ M!Init /\ Others(MutexUses, Unused)
       \/ which = "mutex_filter" /\ M!Init /\ Others(MutexUses, Unused)
       \/ which = "hazard" /\ H!Init /\ Others(HazUses, Unused)
       \/ which = "swsr" /\ S!Init /\ Others(SwsrUses, Unused)
       \/ which = "dist" /\ Q!Init /\ Others(DistUses, Unused)
       \/ which = "dist_alone" /\ QA!Init /\ Others(DistUses, Unused)

Next ==
    /\ UNCHANGED which
    /\ \/ which = "nemesis" /\ N!Next /\ Others(NemUses, Same)
       \/ which = "nemesis_filter" /\ (NF!Next \/ NF!Filter) /\ Others(NemUses, Same)
       \/ which = "lifo" /\ L!Next /\ Others(LifoUses, Same)
       \/ which = "lifo_filter" /\ (LF!Next \/ LF!Filter) /\ Others(LifoUses, Same)
       \/ which = "free_reuse" /\ F3!Next /\ Others(FreeUses, Same)
       \/ which = "free_get" /\ FG!Next /\ Others(FreeUses, Same)
       \/ which = "free_filter" /\ (FF!Next \/ FF!Filter) /\ Others(FreeUses, Same)
       \/ which = "mutex" /\ M!Next /\ Others(MutexUses, Same)
       \/ which = "mutex_filter" /\ (M!Next \/ M!Filter) /\ Others(MutexUses, Same)
       \/ which = "hazard" /\ H!Next /\ Others(HazUses, Same)
       \/ which = "swsr" /\ S!Next /\ Others(SwsrUses, Same)
       \/ which = "dist" /\ Q!Next /\ Others(DistUses, Same)
       \/ which = "dist_alone" /\ QA!AloneNext /\ Others(DistUses, Same)

\* Workers are operating system threads: each keeps running, and one that tries a lock
\* over and over gets it.
Runs(i) ==
    \/ which = "nemesis" /\ i \in {1, 2} /\ N!Enqueue(i)
    \/ which = "nemesis" /\ i = 3 /\ (N!Enqueue(i) \/ N!Dequeue)
    \/ which = "lifo" /\ i \in {1, 2} /\ L!Enqueue(i)
    \/ which = "lifo" /\ i = 3 /\ (L!Enqueue(i) \/ L!Dequeue)
    \/ which = "free_get" /\ i \in 1..3 /\ (FG!Step(i) \/ FG!scan(i))
    \/ which = "mutex" /\ (M!link(i) \/ M!move_tail(i) \/ M!take(i) \/ M!run(i))
    \/ which = "hazard" /\ i \in {1, 2} /\ H!Scan(i)
    \/ which = "swsr" /\ i = 1 /\ S!Writer
    \/ which = "swsr" /\ i = 2 /\ S!Reader
    \/ which = "dist" /\ i \in 1..3 /\ Q!Step(i)
Locks(i) == which = "mutex" /\ (M!lock_tail(i) \/ M!lock_head(i))
fifovars == CASE which = "nemesis" -> nvars
              [] which = "lifo" -> lvars
              [] which = "free_get" -> fvars
              [] which = "mutex" -> mvars
              [] which = "hazard" -> hvars
              [] which = "swsr" -> ringvars
              [] which = "dist" -> qvars
              [] OTHER -> 0
FairSpec ==
    /\ Init /\ [][Next]_all
    /\ \A i \in 1..4 : /\ WF_fifovars(UNCHANGED which /\ Runs(i))
                       /\ SF_mvars(Locks(i))

-----------------------------------------------------------------------------

\* Each queue is first in, first out (the stack: last in, with yielded tasks at the
\* bottom), with no task lost, doubled or overtaken: whatever the interleaving of swaps
\* and links with NEMESIS's shadow head, of the two locks of mutexfifo, and of operations
\* that compare with nodes that were freed and used again meanwhile.
nqueue == N!Queue!vars
lqueue == L!Queue!vars
rqueue == F3!Abstract!vars
mqueue == M!Abstract!vars
ImplementsQueue ==
    /\ /\ which = "nemesis" => N!Queue!Init
       /\ which = "lifo" => L!Queue!Init
       /\ which = "free_reuse" => F3!Abstract!Init
       /\ which = "free_get" => FG!Abstract!Init
       /\ which = "mutex" => M!Abstract!Init
    /\ [][/\ which = "nemesis" => N!Queue!Next \/ UNCHANGED nqueue
          /\ which = "lifo" => L!Queue!Next \/ UNCHANGED lqueue
          /\ which = "free_reuse" => F3!Abstract!Next \/ UNCHANGED rqueue
          /\ which = "free_get" => FG!Abstract!Next \/ UNCHANGED rqueue
          /\ which = "mutex" => M!Abstract!Next \/ UNCHANGED mqueue]_all

\* The tail is the last task whenever somebody may enqueue, also after filters took tasks
\* out of the middle and the ends (qt_threadqueue_filter); the exception, in mutexfifo and
\* mtsfifo, is a filter beside another operation.
EndsAtTail == /\ which = "nemesis_filter" => NF!EndsAtTail
              /\ which = "free_filter" => FF!EndsAtTail
              /\ which = "mutex_filter" => M!EndsAtTail

\* Filters by the owner of a LIFO queue between the pushes of others neither lose nor
\* double a node: each is free, in the stack once, or in the hands of an enqueuer.
NodesConserved == which = "lifo_filter" => LF!NodesConserved

\* What hazard pointer 0 of a queue operation protects is not freed while it goes on, not
\* even after a filter unlinked it (if it ran beside no other operation).
HazardsProtect == /\ which = "free_reuse" => F3!HazardsProtect
                  /\ which = "free_filter" => FF!HazardsProtect

\* Nobody uses a node that was given back ("if found, cannot free it", hazardptrs.c line
\* 159), however announcements, checks, unlinks and scans interleave.
UsedNotFreed == which = "hazard" => H!UsedNotFreed

\* What the reader of a qswsrqueue gets is what the writer wrote, in order, also around a
\* full ring.
InOrder == which = "swsr" => S!InOrder

\* While both are idle, the qswsrqueue says it is empty exactly when all was received.
EmptyIsTrue == which = "swsr" => S!EmptyIsTrue

\* The heap of advertisements of a qdqueue keeps the nearest advertiser first, however
\* pushes by neighbours and by the owner's own search mix with its pops.
NearestFirst == which = "dist" => Q!NearestFirst

\* No element of a qdqueue is handed out twice.
AtMostOnce == which = "dist" => Q!AtMostOnce


\* The ring and the distributed queue hand out what was put in, in order or nearest first,
\* and once: see the four properties it joins.
ElementsOnce == InOrder /\ EmptyIsTrue /\ NearestFirst /\ AtMostOnce

\* A dequeue that finds nothing is right about it.  One of the lock-free queue that finds no
\* next node, and so returns NULL, looks at an empty queue, although it read head, tail and
\* next one after the other; and when the callers run one at a time, qdqueue_dequeue returns
\* NULL only when every queue is empty, whatever the advertisements and the last_consumed
\* fields say.
NothingWasThere == [][/\ which = "free_reuse" => F3!EmptyIsEmpty
                      /\ which = "dist_alone" => QA!NullMeansEmpty]_all

\* Every task and element put in arrives; every qdqueue operation returns: following
\* advertisements does not go round for ever; and a scan of hazard pointers ends although
\* idle workers leave announcements behind.
Delivered == CASE which = "nemesis" -> N!Delivered
               [] which = "lifo" -> L!Delivered
               [] which = "free_get" -> FG!Delivered
               [] which = "mutex" -> M!Delivered
               [] which = "hazard" -> pc[1] # "scan"
               [] which = "swsr" -> S!Delivered
               [] which = "dist" -> Q!Delivered
               [] OTHER -> TRUE
AllReturn == []<>Delivered
=============================================================================
