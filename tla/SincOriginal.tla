---------------------------- MODULE SincOriginal ----------------------------
(***************************************************************************)
(* The "original" sinc (src/sincs/original.c): the expected submissions    *)
(* are spread over one count per worker, and remaining (here counter) is   *)
(* the number of workers whose count is not zero.  A submission takes one  *)
(* from the first positive count it meets.  The rest is as in              *)
(* SincDoneCount.                                                          *)
(***************************************************************************)
EXTENDS SincDoneCount, SequencesExt

CONSTANT Wps           \* num_wps: the workers are numbers, 1..Wps are on the first shepherd, ...

VARIABLES counts,      \* sinc->counts
          at           \* how far a submission's search has come

ovars == <<vars, counts, at>>
N == Cardinality(Worker)

\* will_spawn split over the workers, the extras on the first of them.
Share(n)     == [w \in Worker |-> n \div N + (IF w <= n % N THEN 1 ELSE 0)]
Remaining(n) == IF n \div N > 0 THEN N ELSE n % N

\* The order in which a submission on worker w visits the counts.
Local(w)  == [i \in 1..Wps |-> ((w - 1) \div Wps) * Wps + ((w - 1 + i - 1) % Wps) + 1]
Others(w) == SetToSortSeq(Worker \ {Local(w)[i] : i \in 1..Wps}, <)
Order(t)  == Local(WorkerOf[t]) \o Others(WorkerOf[t])
Slot(t)   == Order(t)[at[t]]

InitO ==
    /\ InitWith(Remaining(InitialCount))
    /\ counts = Share(InitialCount)
    /\ at = [t \in Task |-> 1]

\* The worker's own count first; whoever raises it from 0 empties ready and
\* then counts the worker in remaining.
expect_o(t) ==
    /\ \/ /\ At(t, "idle") /\ Is(t, "expect")
          /\ counts' = [counts EXCEPT ![WorkerOf[t]] = @ + Call(t).n]
          /\ IF Call(t).n > 0 /\ counts[WorkerOf[t]] = 0 THEN Goto(t, "empty") ELSE Return(t)
          /\ UNCHANGED <<counter, ready>>
       \/ /\ At(t, "empty")
          /\ ready' = FALSE
          /\ Goto(t, "remaining")
          /\ UNCHANGED <<counter, counts>>
       \/ /\ At(t, "remaining")
          /\ counter' = counter + 1
          /\ Return(t)
          /\ UNCHANGED <<ready, counts>>
    /\ UNCHANGED <<rest, at>>

\* *count > 0: try this one, otherwise look at the next; a submission that
\* meets no positive count is dropped.
submit_look(t) ==
    /\ At(t, "decr")
    /\ \/ at[t] > N /\ Return(t) /\ at' = [at EXCEPT ![t] = 1]
       \/ at[t] <= N /\ counts[Slot(t)] > 0 /\ Goto(t, "take") /\ UNCHANGED at
       \/ at[t] <= N /\ counts[Slot(t)] <= 0 /\ at' = [at EXCEPT ![t] = @ + 1] /\ UNCHANGED <<pc, todo>>
    /\ UNCHANGED <<counter, ready, rest, counts>>

\* qthread_incr(count, -1): undone when another submission was faster; the last
\* one of a worker goes on to remaining.
submit_take(t) ==
    /\ At(t, "take")
    /\ counts' = [counts EXCEPT ![Slot(t)] = @ - 1]
    /\ \/ counts[Slot(t)] < 1 /\ Goto(t, "undo") /\ UNCHANGED at
       \/ counts[Slot(t)] = 1 /\ Goto(t, "left") /\ UNCHANGED at
       \/ counts[Slot(t)] > 1 /\ Return(t) /\ at' = [at EXCEPT ![t] = 1]
    /\ UNCHANGED <<counter, ready, rest>>

\* Mutant of submit_undo: a submission that lost the race for a count gives up.
submit_undo_gives_up(t) ==
    /\ At(t, "undo")
    /\ counts' = [counts EXCEPT ![Slot(t)] = @ + 1]
    /\ at' = [at EXCEPT ![t] = 1]
    /\ Return(t)
    /\ UNCHANGED <<counter, ready, rest>>

submit_undo(t) ==
    /\ At(t, "undo")
    /\ counts' = [counts EXCEPT ![Slot(t)] = @ + 1]
    /\ at' = [at EXCEPT ![t] = @ + 1]
    /\ Goto(t, "decr")
    /\ UNCHANGED <<counter, ready, rest>>

submit_left(t) ==
    /\ At(t, "left")
    /\ counter' = counter - 1
    /\ at' = [at EXCEPT ![t] = 1]
    /\ IF counter = 1 THEN Goto(t, "collate") ELSE Return(t)
    /\ UNCHANGED <<ready, rest, counts>>

\* The values, remaining, the counts, and ready, which is emptied even by reset(0).
reset_o(t) ==
    /\ \/ /\ At(t, "idle") /\ Is(t, "reset")
          /\ values' = [w \in Worker |-> {}]
          /\ submitted' = {}
          /\ Goto(t, "count")
          /\ UNCHANGED <<counter, ready, counts>>
       \/ /\ At(t, "count")
          /\ counter' = Remaining(Call(t).n)
          /\ counts' = Share(Call(t).n)
          /\ Goto(t, "rempty")
          /\ UNCHANGED <<ready, values, submitted>>
       \/ /\ At(t, "rempty")
          /\ ready' = FALSE
          /\ Return(t)
          /\ UNCHANGED <<counter, values, submitted, counts>>
    /\ UNCHANGED <<result, alive, got, born, at>>

\* Nothing is filled: the memory is freed.
destroy_o(t) ==
    /\ At(t, "idle") /\ Is(t, "destroy")
    /\ alive' = FALSE
    /\ Return(t)
    /\ UNCHANGED <<counter, ready, values, result, got, born, submitted, counts, at>>

\* As in SincDoneCount, on syncvars.
wait_o(t) == wait(t) /\ UNCHANGED <<counts, at>>
\* Mutant of collate_o: only the worker's own partial value.
collate_o(t) == (collate(t) \/ collate_fill(t)) /\ UNCHANGED <<counts, at>>

StepO(t) ==
    /\ UNCHANGED oldc
    /\ \/ expect_o(t) \/ submit_look(t) \/ submit_take(t) \/ submit_undo(t) \/ submit_left(t)
       \/ collate_o(t) \/ wait_o(t) \/ reset_o(t) \/ destroy_o(t)
       \/ (submit_value(t) \/ spawn(t)) /\ UNCHANGED <<counts, at>>

NextO == \E t \in Task : StepO(t)

-----------------------------------------------------------------------------

\* Waiters pass only when no count is left to be submitted, but for the moments in
\* which an expect or a reset is on its way to emptying ready (qt_sinc_wait(3)).
NoEarlyReleaseO ==
    alive /\ ready /\ (\E w \in Worker : counts[w] > 0)
      => \E t \in Task : pc[t] \in {"empty", "rempty"}
=============================================================================
