------------------------------ MODULE TaskQueue ------------------------------
(***************************************************************************)
(* What a thread queue promises to the shepherd that owns it: tasks come   *)
(* out one at a time, each as often as it was put in, in the order of the  *)
(* queue.                                                                  *)
(***************************************************************************)
EXTENDS Sequences, SequencesExt

CONSTANTS Task, Taker,
          Lifo,        \* new tasks go in front
          NULL

VARIABLES items, hand
vars == <<items, hand>>

Init == items = <<>> /\ hand = [w \in Taker |-> NULL]

Put(t) == items' = (IF Lifo THEN <<t>> \o items ELSE Append(items, t)) /\ UNCHANGED hand

Get(w) ==
    /\ items # <<>> /\ hand[w] = NULL
    /\ hand' = [hand EXCEPT ![w] = Head(items)] /\ items' = Tail(items)

\* The task in hand ends, or yields and goes to the end of the queue (or, of a stack that
\* it found empty, to the top).
Drop(w) == hand[w] # NULL /\ hand' = [hand EXCEPT ![w] = NULL] /\ UNCHANGED items
Yield(w) ==
    /\ hand[w] # NULL
    /\ items' = Append(items, hand[w]) \/ (Lifo /\ items' = <<hand[w]>> \o items)
    /\ hand' = [hand EXCEPT ![w] = NULL]

Next == (\E t \in Task : Put(t)) \/ (\E w \in Taker : Get(w) \/ Drop(w) \/ Yield(w))
Spec == Init /\ [][Next]_vars
==============================================================================
