------------------------------- MODULE Qdqueue -------------------------------
(***************************************************************************)
(* The distributed queue (src/ds/qdqueue.c): one lock-free queue for each  *)
(* shepherd, and advertisements by which a shepherd with a surplus tells   *)
(* its neighbours where to look.  The lock-free queues are atomic here     *)
(* (module LockFreeQueue shows that they implement that).                  *)
(***************************************************************************)
EXTENDS Integers, Sequences, FiniteSets, SequencesExt, FiniteSetsExt

CONSTANTS Shep,          \* shepherds
          Distance,      \* [Shep \X Shep -> Nat], what qthread_distance says
          Task, At,      \* callers, and the shepherd each of them runs on
          Script,        \* [Task -> Seq(operations)]
          Near,          \* NONME_DIST
          NULL

VARIABLES allsheps, neighbors, theQ, last_consumed, ads, generation, last_ad_issued, last_ad_consumed,
          pc, ip,        \* where each caller is, and in which operation
          left,          \* what it still has to visit
          ad, lc,        \* its local variables
          got            \* what its dequeues returned
shared == <<allsheps, neighbors, theQ, last_consumed, ads, generation, last_ad_issued, last_ad_consumed>>
local == <<pc, ip, left, ad, lc, got>>
vars == <<shared, local>>

Others(s) == Shep \ {s}

\* qdqueue_internal_sortedsheps: the other shepherds by distance, equals in random order.
sortedsheps(s) ==
    {order \in SetToSeqs(Others(s)) :
        \A i, j \in DOMAIN order : i < j => Distance[<<s, order[i]>>] <= Distance[<<s, order[j]>>]}

\* qdqueue_internal_getneighbors: those less than Near farther than the nearest, in random order.
getneighbors(s) ==
    SetToSeqs({n \in Others(s) :
                  Distance[<<s, n>>] < Min({Distance[<<s, o>>] : o \in Others(s)}) + Near})

\* qdqueue_create.
Init ==
    /\ allsheps \in {order \in [Shep -> UNION {sortedsheps(s) : s \in Shep}] :
                        \A s \in Shep : order[s] \in sortedsheps(s)}
    /\ neighbors \in {order \in [Shep -> UNION {getneighbors(s) : s \in Shep}] :
                        \A s \in Shep : order[s] \in getneighbors(s)}
    /\ theQ = [s \in Shep |-> <<>>] /\ last_consumed = [s \in Shep |-> NULL]
    /\ ads = [s \in Shep |-> <<>>] /\ generation = [s \in Shep |-> [o \in Shep |-> 0]]
    /\ last_ad_issued = [s \in Shep |-> 1] /\ last_ad_consumed = [s \in Shep |-> 1]
    /\ pc = [t \in Task |-> "next"] /\ ip = [t \in Task |-> 1] /\ left = [t \in Task |-> <<>>]
    /\ ad = [t \in Task |-> [shep |-> NULL, generation |-> 0]] /\ lc = [t \in Task |-> NULL]
    /\ got = [t \in Task |-> <<>>]

\* An advertisement's place in the heap of s: itself first, the others by distance.
Place(s, o) == IF o = s THEN 0 ELSE CHOOSE i \in DOMAIN allsheps[s] : allsheps[s][i] = o

\* Mutant of adheap_push: an advertisement is always put first.
adheap_push_first(s, o, gen) ==
    IF generation[s][o] < gen \/ gen = 0
    THEN /\ generation' = IF gen = 0 THEN generation ELSE [generation EXCEPT ![s][o] = gen]
         /\ ads' = IF o \in Range(ads[s]) THEN ads ELSE [ads EXCEPT ![s] = <<o>> \o @]
    ELSE UNCHANGED <<generation, ads>>

\* qdqueue_adheap_push, under the heap's lock: in front of the first, or behind the last
\* one in the heap that comes before it.  Generation 0 pushes whatever generation is there.
adheap_push(s, o, gen) ==
    IF generation[s][o] < gen \/ gen = 0
    THEN /\ generation' = IF gen = 0 THEN generation ELSE [generation EXCEPT ![s][o] = gen]
         /\ ads' = IF o \in Range(ads[s]) THEN ads
                   ELSE LET before == Cardinality({x \in Range(ads[s]) : Place(s, x) < Place(s, o)})
                        IN  [ads EXCEPT ![s] = InsertAt(@, before + 1, o)]
    ELSE UNCHANGED <<generation, ads>>

Goto(t, where) == pc' = [pc EXCEPT ![t] = where]
Op(t) == Script[t][ip[t]]
Doing(t, kind) == pc[t] = "next" /\ ip[t] <= Len(Script[t]) /\ Op(t).op = kind
Return(t) == Goto(t, "next") /\ ip' = [ip EXCEPT ![t] = @ + 1]
Returns(t, v) == Return(t) /\ got' = [got EXCEPT ![t] = Append(@, v)]

\* The body the two enqueues share: was the queue empty (`stat')?  Then add the element.
Enqueues(t, s) ==
    /\ pc[t] = "next" /\ left' = [left EXCEPT ![t] = <<s>>]
    /\ Goto(t, IF theQ[s] = <<>> THEN "add" ELSE "add_ad")
    /\ UNCHANGED <<shared, ip, ad, lc, got>>

\* qdqueue_enqueue and qdqueue_enqueue_there.
enqueue(t) == Doing(t, "enqueue") /\ Enqueues(t, At[t])
enqueue_there(t) == Doing(t, "enqueue_there") /\ Enqueues(t, Op(t).there)

\* qlfqueue_enqueue.
add(t) ==
    /\ pc[t] \in {"add", "add_ad"}
    /\ theQ' = [theQ EXCEPT ![left[t][1]] = Append(@, Op(t).elem)]
    /\ IF pc[t] = "add" THEN Return(t) ELSE Goto(t, "stale") /\ UNCHANGED ip
    /\ UNCHANGED <<allsheps, neighbors, last_consumed, ads, generation, last_ad_issued, last_ad_consumed,
                   left, ad, lc, got>>

\* `only advertise if our existing ads are stale'; the number is taken after the test.
stale(t) ==
    /\ pc[t] = "stale"
    /\ IF last_ad_issued[left[t][1]] <= last_ad_consumed[left[t][1]]
       THEN Goto(t, "number") /\ UNCHANGED ip
       ELSE Return(t)
    /\ UNCHANGED <<shared, left, ad, lc, got>>
number(t) ==
    LET s == left[t][1] IN
    /\ pc[t] = "number"
    /\ ad' = [ad EXCEPT ![t] = [shep |-> s, generation |-> last_ad_issued[s]]]
    /\ last_ad_issued' = [last_ad_issued EXCEPT ![s] = @ + 1]
    /\ left' = [left EXCEPT ![t] = neighbors[s]]
    /\ Goto(t, "advertise")
    /\ UNCHANGED <<allsheps, neighbors, theQ, last_consumed, ads, generation, last_ad_consumed, ip, lc, got>>
advertise(t) ==
    /\ pc[t] = "advertise"
    /\ IF left[t] = <<>>
       THEN Return(t) /\ UNCHANGED <<generation, ads, left>>
       ELSE /\ adheap_push(left[t][1], ad[t].shep, ad[t].generation)
            /\ left' = [left EXCEPT ![t] = Tail(@)] /\ UNCHANGED <<pc, ip>>
    /\ UNCHANGED <<allsheps, neighbors, theQ, last_consumed, last_ad_issued, last_ad_consumed, ad, lc, got>>

-----------------------------------------------------------------------------
\* An attempt on the queue of s: with an element it succeeds, and that is where this
\* shepherd found work.
Takes(t, s) ==
    /\ theQ[s] # <<>>
    /\ theQ' = [theQ EXCEPT ![s] = Tail(@)] /\ Returns(t, Head(theQ[s]))
    /\ last_consumed' = [last_consumed EXCEPT ![At[t]] = s]
    /\ UNCHANGED <<allsheps, neighbors, ads, generation, last_ad_issued, last_ad_consumed, left, ad, lc>>

\* qdqueue_dequeue: its own queue, ...
dequeue(t) ==
    /\ Doing(t, "dequeue")
    /\ \/ Takes(t, At[t])
       \/ /\ theQ[At[t]] = <<>>
          /\ last_consumed' = [last_consumed EXCEPT ![At[t]] = NULL] /\ Goto(t, "pop")
          /\ UNCHANGED <<allsheps, neighbors, theQ, ads, generation, last_ad_issued, last_ad_consumed,
                         ip, left, ad, lc, got>>

\* ... then the advertisements (qdqueue_adheap_pop, under the lock); none: all shepherds.
adheap_pop(t) ==
    /\ pc[t] = "pop"
    /\ IF ads[At[t]] = <<>>
       THEN /\ left' = [left EXCEPT ![t] = allsheps[At[t]]] /\ Goto(t, "scan") /\ UNCHANGED <<ads, ad>>
       ELSE LET o == Head(ads[At[t]]) IN
            /\ ads' = [ads EXCEPT ![At[t]] = Tail(@)]
            /\ ad' = [ad EXCEPT ![t] = [shep |-> o, generation |-> generation[At[t]][o]]]
            /\ Goto(t, "look") /\ UNCHANGED left
    /\ UNCHANGED <<allsheps, neighbors, theQ, last_consumed, generation, last_ad_issued, last_ad_consumed,
                   ip, lc, got>>

\* Who did the advertiser last get work from?
look(t) ==
    /\ pc[t] = "look" /\ lc' = [lc EXCEPT ![t] = last_consumed[ad[t].shep]]
    /\ Goto(t, IF last_consumed[ad[t].shep] = ad[t].shep THEN "consumed"
               ELSE IF last_consumed[ad[t].shep] = NULL THEN "pop" ELSE "follow")
    /\ UNCHANGED <<shared, ip, left, ad, got>>

\* The compare-and-swap loop that raises last_ad_consumed.
consumed(t) ==
    /\ pc[t] = "consumed"
    /\ last_ad_consumed' = [last_ad_consumed EXCEPT ![ad[t].shep] = Max({@, ad[t].generation})]
    /\ Goto(t, "take")
    /\ UNCHANGED <<allsheps, neighbors, theQ, last_consumed, ads, generation, last_ad_issued, ip, left, ad, lc, got>>

\* Mutant of take: a copy stays in the queue.
take_twice(t) ==
    /\ pc[t] = "take" /\ theQ[ad[t].shep] # <<>> /\ Returns(t, Head(theQ[ad[t].shep]))
    /\ UNCHANGED <<shared, left, ad, lc>>

take(t) ==
    /\ pc[t] = "take"
    /\ \/ Takes(t, ad[t].shep)
       \/ theQ[ad[t].shep] = <<>> /\ Goto(t, "pop") /\ UNCHANGED <<shared, ip, left, ad, lc, got>>

\* `it got work from somewhere!': look there, ...
follow(t) ==
    /\ pc[t] = "follow" /\ adheap_push(At[t], lc[t], 0) /\ Goto(t, "reset")
    /\ UNCHANGED <<allsheps, neighbors, theQ, last_consumed, last_ad_issued, last_ad_consumed, ip, left, ad, lc, got>>

\* Mutant of reset: the advertiser keeps saying where it last found work.
reset_not(t) ==
    /\ pc[t] = "reset" /\ Goto(t, "pop") /\ UNCHANGED <<shared, ip, left, ad, lc, got>>

\* ... and reset what the advertiser says, `to avoid infinite loops'.
reset(t) ==
    /\ pc[t] = "reset"
    /\ last_consumed' = IF last_consumed[ad[t].shep] = lc[t]
                        THEN [last_consumed EXCEPT ![ad[t].shep] = NULL] ELSE last_consumed
    /\ Goto(t, "pop")
    /\ UNCHANGED <<allsheps, neighbors, theQ, ads, generation, last_ad_issued, last_ad_consumed, ip, left, ad, lc, got>>

\* Mutant of scan: the shepherd farthest away is left out.
scan_short(t) ==
    /\ pc[t] = "scan"
    /\ \/ /\ Len(left[t]) <= 1 /\ Returns(t, NULL) /\ UNCHANGED <<shared, left, ad, lc>>
       \/ /\ Len(left[t]) > 1 /\ lc' = [lc EXCEPT ![t] = last_consumed[left[t][1]]]
          /\ Goto(t, "remote") /\ UNCHANGED <<shared, ip, left, ad, got>>

\* All shepherds, nearest first: its last_consumed is read before its queue is tried.
scan(t) ==
    /\ pc[t] = "scan"
    /\ \/ /\ left[t] = <<>> /\ Returns(t, NULL) /\ UNCHANGED <<shared, left, ad, lc>>
       \/ /\ left[t] # <<>> /\ lc' = [lc EXCEPT ![t] = last_consumed[left[t][1]]]
          /\ Goto(t, "remote") /\ UNCHANGED <<shared, ip, left, ad, got>>
remote(t) ==
    /\ pc[t] = "remote"
    /\ \/ Takes(t, left[t][1])
       \/ /\ theQ[left[t][1]] = <<>>
          /\ Goto(t, IF lc[t] \in {NULL, left[t][1]} THEN "more" ELSE "source")
          /\ UNCHANGED <<shared, ip, left, ad, lc, got>>
source(t) ==
    /\ pc[t] = "source"
    /\ \/ Takes(t, lc[t])
       \/ theQ[lc[t]] = <<>> /\ Goto(t, "more") /\ UNCHANGED <<shared, ip, left, ad, lc, got>>
more(t) ==
    /\ pc[t] = "more"
    /\ IF ads[At[t]] # <<>> THEN Goto(t, "pop") /\ UNCHANGED left
       ELSE Goto(t, "scan") /\ left' = [left EXCEPT ![t] = Tail(@)]
    /\ UNCHANGED <<shared, ip, ad, lc, got>>

Step(t) ==
    \/ enqueue(t) \/ enqueue_there(t) \/ add(t) \/ stale(t) \/ number(t) \/ advertise(t)
    \/ dequeue(t) \/ adheap_pop(t) \/ look(t) \/ consumed(t) \/ take(t) \/ follow(t) \/ reset(t)
    \/ scan(t) \/ remote(t) \/ source(t) \/ more(t)
Next == \E t \in Task : Step(t)
Spec == Init /\ [][Next]_vars
\* The same with callers that run one at a time.
Alone(t) == Step(t) /\ \A u \in Task \ {t} : pc[u] = "next"
AloneNext == \E t \in Task : Alone(t)

-----------------------------------------------------------------------------
Elements == {Script[t][i].elem : <<t, i>> \in
                {p \in Task \X (1..10) : p[2] <= Len(Script[p[1]]) /\ Script[p[1]][p[2]].op # "dequeue"}}
Queued(e) == Cardinality({<<s, i>> \in Shep \X (1..10) : i <= Len(theQ[s]) /\ theQ[s][i] = e})
Taken(e) == Cardinality({<<t, i>> \in Task \X (1..10) : i <= Len(got[t]) /\ got[t][i] = e})

\* The heap of advertisements keeps the nearest advertiser first, however pushes by
\* neighbours and by the owner's own search mix with its pops.
NearestFirst ==
    \A s \in Shep : \A i, j \in DOMAIN ads[s] : i < j => Place(s, ads[s][i]) < Place(s, ads[s][j])

\* Nothing is lost and nothing is handed out twice.
AtMostOnce == \A e \in Elements : Queued(e) + Taken(e) <= 1

\* When the callers run one at a time, a dequeue returns NULL only when every queue is
\* empty, whatever the advertisements and the last_consumed fields say.
NullMeansEmpty ==
    \A t \in Task : got'[t] # got[t] /\ Last(got'[t]) = NULL => \A s \in Shep : theQ[s] = <<>>

\* Every operation has returned.
Delivered == \A t \in Task : pc[t] = "next" /\ ip[t] = Len(Script[t]) + 1
==============================================================================
