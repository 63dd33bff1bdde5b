------------------------------ MODULE AllPairs ------------------------------
(***************************************************************************)
(* qt_allpairs (src/patterns/allpairs.c): a function is called on every    *)
(* pair of elements of two qarrays.  A worker per shepherd takes work      *)
(* units from a qdqueue; meanwhile a loop over the segments of the first   *)
(* array runs a loop over those of the second, which queues the unit of    *)
(* the two segments at the shepherd of either.                             *)
(*                                                                         *)
(* A segment is <<start, stop>> and has an owner.  qarray_iter_constloop   *)
(* runs a thread per shepherd over the segments it owns, in order, and     *)
(* returns when all are done (QArrayIter).  qdqueue_dequeue takes a unit   *)
(* of its own shepherd or steals one (external).                           *)
(***************************************************************************)
EXTENDS Integers, Sequences, FiniteSets, Functions, FiniteSetsExt

CONSTANTS Sheps,
          Array1, Array2,   \* sequences of [start, stop, shep]
          Output            \* whether output is given
Segs1 == DOMAIN Array1
Segs2 == DOMAIN Array2
Units == Segs1 \X Segs2
Elems(A) == UNION {A[i].start..(A[i].stop - 1) : i \in DOMAIN A}

VARIABLES cpc,          \* the caller
          generated,    \* the units that the loops have queued
          queue,        \* [shepherd -> units]
          pc, wu,       \* the workers
          calls,        \* [pair -> times distfunc was called]
          output,       \* [row][column] -> the pair it holds, NULL before
          donecount
vars == <<cpc, generated, queue, pc, wu, calls, output, donecount>>
NULL == <<>>

Init == /\ cpc = "fork" /\ generated = {} /\ donecount = 0
        /\ queue = [s \in Sheps |-> {}]
        /\ pc = [s \in Sheps |-> "none"] /\ wu = [s \in Sheps |-> NULL]
        /\ calls = [p \in Elems(Array1) \X Elems(Array2) |-> 0]
        /\ output = [p \in Elems(Array1) \X Elems(Array2) |-> NULL]

---------------------------------------------------------------------------
(* qt_allpairs_internal.                                                   *)

fork == /\ cpc = "fork" /\ cpc' = "feed"
        /\ pc' = [s \in Sheps |-> "take"]
        /\ UNCHANGED <<generated, queue, wu, calls, output, donecount>>

\* The strider of segment i is at i: those before it of the same shepherd are through.
Row(i) == {u \in generated : u[1] = i}
OuterAt(i) == \A k \in Segs1 : k < i /\ Array1[k].shep = Array1[i].shep => Cardinality(Row(k)) = Len(Array2)
InnerAt(i, j) == \A k \in Segs2 : k < j /\ Array2[k].shep = Array2[j].shep => <<i, k>> \in generated
\* qt_ap_genwork runs the loop over array2 for its segment of array1.
qt_ap_genwork(i) == cpc = "feed" /\ OuterAt(i) /\ Cardinality(Row(i)) < Len(Array2)
\* qt_ap_genwork2, on the shepherd of segment j: a coin decides between the two.
qt_ap_genwork2_both(i, j) == /\ qt_ap_genwork(i) /\ InnerAt(i, j) /\ <<i, j>> \notin generated
                             /\ queue' = [s \in Sheps |-> IF s \in {Array1[i].shep, Array2[j].shep}
                                                          THEN queue[s] \union {<<i, j>>} ELSE queue[s]]
                             /\ generated' = generated \union {<<i, j>>}
                             /\ UNCHANGED <<cpc, pc, wu, calls, output, donecount>>
qt_ap_genwork2(i, j) == /\ qt_ap_genwork(i) /\ InnerAt(i, j) /\ <<i, j>> \notin generated
                        /\ \E s \in {Array1[i].shep, Array2[j].shep} :
                             queue' = [queue EXCEPT ![s] = @ \union {<<i, j>>}]
                        /\ generated' = generated \union {<<i, j>>}
                        /\ UNCHANGED <<cpc, pc, wu, calls, output, donecount>>
no_more_work == /\ cpc = "feed" /\ generated = Units
                /\ cpc' = "wait"
                /\ UNCHANGED <<generated, queue, pc, wu, calls, output, donecount>>
\* The queue is destroyed with what is left in it.
returns_early == /\ cpc = "wait" /\ cpc' = "returned"
                 /\ UNCHANGED <<generated, queue, pc, wu, calls, output, donecount>>
returns == /\ cpc = "wait" /\ donecount >= Cardinality(Sheps)
           /\ cpc' = "returned"
           /\ UNCHANGED <<generated, queue, pc, wu, calls, output, donecount>>

---------------------------------------------------------------------------
(* qt_ap_worker.                                                           *)

take(s) == /\ pc[s] = "take"
           /\ \E f \in IF queue[s] # {} THEN {s} ELSE {t \in Sheps : queue[t] # {}} : \E u \in queue[f] :
                /\ queue' = [queue EXCEPT ![f] = @ \ {u}]
                /\ wu' = [wu EXCEPT ![s] = u]
           /\ pc' = [pc EXCEPT ![s] = "work"]
           /\ UNCHANGED <<cpc, generated, calls, output, donecount>>
\* `if (args->no_more_work)' tests the pointer: an empty queue ends the worker.
leave(s) == /\ pc[s] = "take" /\ \A t \in Sheps : queue[t] = {}
            /\ donecount' = donecount + 1
            /\ pc' = [pc EXCEPT ![s] = "done"]
            /\ UNCHANGED <<cpc, generated, queue, wu, calls, output>>
\* The pairs of a unit, and the cell each result goes to.
Block(u) == (Array1[u[1]].start..(Array1[u[1]].stop - 1)) \X (Array2[u[2]].start..(Array2[u[2]].stop - 1))
OutCell(u, p) == p
work(s) == /\ pc[s] = "work"
           /\ calls' = [p \in DOMAIN calls |-> calls[p] + (IF p \in Block(wu[s]) THEN 1 ELSE 0)]
           /\ output' = [c \in DOMAIN output |->
                IF Output /\ \E p \in Block(wu[s]) : OutCell(wu[s], p) = c
                THEN CHOOSE p \in Block(wu[s]) : OutCell(wu[s], p) = c ELSE output[c]]
           /\ pc' = [pc EXCEPT ![s] = "take"]
           /\ wu' = [wu EXCEPT ![s] = NULL]
           /\ UNCHANGED <<cpc, generated, queue, donecount>>

Worker(s) == take(s) \/ leave(s) \/ work(s)
Caller == fork \/ no_more_work \/ returns
Next == Caller \/ (\E i \in Segs1, j \in Segs2 : qt_ap_genwork2(i, j)) \/ \E s \in Sheps : Worker(s)
Spec == Init /\ [][Next]_vars

---------------------------------------------------------------------------
(* Properties.                                                             *)

(* distfunc is called at most once on a pair, and a unit that has been     *)
(* queued is done, in one worker's hands or still in the queue: units of   *)
(* two shepherds do not overlap and none is lost between the loops and the *)
(* workers.                                                                *)
PairsOnce == \A i \in Segs1, j \in Segs2 : \A p \in Block(<<i, j>>) :
    calls[p] + Cardinality({s \in Sheps : wu[s] = <<i, j>>}) + Cardinality({s \in Sheps : <<i, j>> \in queue[s]})
      = IF <<i, j>> \in generated THEN 1 ELSE 0

(* A cell of the output holds the result of its own pair as soon as the    *)
(* function has been called on it.                                         *)
OutputRight == \A p \in DOMAIN output : output[p] = IF Output /\ calls[p] > 0 THEN p ELSE NULL

(* The queue and the arguments on the caller's stack are not used after    *)
(* the call has returned.                                                  *)
FreedUnused == cpc = "returned" => \A s \in Sheps : pc[s] = "done"

Rested == cpc = "returned"
=============================================================================
