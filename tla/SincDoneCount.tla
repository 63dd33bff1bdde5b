--------------------------- MODULE SincDoneCount ---------------------------
(***************************************************************************)
(* The counting sincs, src/sincs/donecount.c (the default) and             *)
(* src/sincs/donecount_cas.c: a counter of submissions still expected, a   *)
(* full/empty word that waiters read, and one partial value per worker     *)
(* that the last submission collates into the result.  donecount_cas.c     *)
(* changes the counter with a loop of compare-and-swap instead of an       *)
(* atomic increment, and its reset(0) fills ready.                         *)
(* Values are sets of tokens and the reduction is union, so that a result  *)
(* shows which submissions it contains.  Full/empty operations are atomic  *)
(* (module FullEmpty).                                                     *)
(***************************************************************************)
EXTENDS Integers, FiniteSets, Sequences

CONSTANTS
    Task,         \* the tasks, numbers; task 1 runs first and spawns the others
    Worker,       \* workers; each has a slot in rdata->values
    WorkerOf,     \* the worker a task runs on
    Programs,     \* the programs to explore: [Task -> Seq(call)]
    InitialCount  \* the expect argument of qt_sinc_init

VARIABLES
    counter, ready,    \* sinc->counter; is sinc->ready full?
    values, result,    \* rdata->values, rdata->result
    alive,             \* not yet destroyed
    pc, todo,          \* a task's place and its remaining calls
    got,               \* what its last qt_sinc_wait copied to target
    born,              \* the tasks that have been spawned
    submitted,         \* history: the values submitted since init or reset
    oldc               \* donecount_cas.c: a task's last reading of the counter

rest == <<values, result, alive, got, born, submitted>>
vars == <<counter, ready, values, result, alive, pc, todo, got, born, submitted, oldc>>

\* A call is [op |-> "submit", "expect", "wait", "reset", "destroy" or "spawn", n |-> a number].
Call(t)    == Head(todo[t])
At(t, l)   == pc[t] = l /\ todo[t] # <<>> /\ t \in born
Is(t, op)  == todo[t] # <<>> /\ Call(t).op = op
Goto(t, l) == pc' = [pc EXCEPT ![t] = l] /\ UNCHANGED todo
Return(t)  == pc' = [pc EXCEPT ![t] = "idle"] /\ todo' = [todo EXCEPT ![t] = Tail(@)]

\* qt_sinc_init: values hold the initial value, ready is empty unless nothing
\* is expected.
InitWith(c) ==
    /\ todo \in Programs
    /\ counter = c
    /\ ready = (InitialCount = 0)
    /\ values = [w \in Worker |-> {}]
    /\ result = {}
    /\ alive = TRUE
    /\ pc = [t \in Task |-> "idle"]
    /\ got = [t \in Task |-> {}]
    /\ born = {1}
    /\ submitted = {}
    /\ oldc = [t \in Task |-> 0]
Init == InitWith(InitialCount)

-----------------------------------------------------------------------------

\* qthread_incr of the counter; whoever raises it from 0 empties ready.
expect(t) ==
    \/ /\ At(t, "idle") /\ Is(t, "expect")
       /\ counter' = counter + Call(t).n
       /\ \/ Call(t).n # 0 /\ counter = 0 /\ Goto(t, "empty")
          \/ (Call(t).n = 0 \/ counter # 0) /\ Return(t)
       /\ UNCHANGED <<ready, rest>>
    \/ /\ At(t, "empty") /\ Is(t, "expect")
       /\ ready' = FALSE
       /\ Return(t)
       /\ UNCHANGED <<counter, rest>>

\* rdata->op into the slot of the task's worker.
submit_value(t) ==
    /\ At(t, "idle") /\ Is(t, "submit")
    /\ values' = [values EXCEPT ![WorkerOf[t]] = @ \cup {Call(t).n}]
    /\ submitted' = submitted \cup {Call(t).n}
    /\ Goto(t, "decr")
    /\ UNCHANGED <<counter, ready, result, alive, got, born>>

\* Mutant of submit_count: every submission that leaves the counter low collates.
submit_count_early(t) ==
    /\ At(t, "decr")
    /\ counter' = counter - 1
    /\ \/ counter <= 2 /\ Goto(t, "collate")
       \/ counter > 2 /\ Return(t)
    /\ UNCHANGED <<ready, values, result, alive, got, born, submitted>>

\* qthread_incr(&sinc->counter, -1); the final submission collates.
submit_count(t) ==
    /\ At(t, "decr")
    /\ counter' = counter - 1
    /\ \/ counter = 1 /\ Goto(t, "collate")
       \/ counter # 1 /\ Return(t)
    /\ UNCHANGED <<ready, values, result, alive, got, born, submitted>>

\* Mutant of collate: other workers' slots are forgotten.
collate_own(t) ==
    /\ At(t, "collate")
    /\ result' = values[WorkerOf[t]]
    /\ Goto(t, "fill")
    /\ UNCHANGED <<counter, ready, values, alive, got, born, submitted>>

\* qt_sinc_internal_collate: first the result, then the waiters.
collate(t) ==
    /\ At(t, "collate")
    /\ result' = UNION {values[w] : w \in Worker}
    /\ Goto(t, "fill")
    /\ UNCHANGED <<counter, ready, values, alive, got, born, submitted>>

\* Mutant of collate_fill: the sinc is looked at once more after the waiters were released.
collate_fill_looks(t) ==
    /\ \/ At(t, "fill") /\ ready' = TRUE /\ Goto(t, "look")
       \/ At(t, "look") /\ Return(t) /\ UNCHANGED ready
    /\ UNCHANGED <<counter, values, result, alive, got, born, submitted>>

collate_fill(t) ==
    /\ At(t, "fill")
    /\ ready' = TRUE
    /\ Return(t)
    /\ UNCHANGED <<counter, values, result, alive, got, born, submitted>>

\* qthread_readFF, then the copy of the result.
wait(t) ==
    /\ \/ /\ At(t, "idle") /\ Is(t, "wait")
          /\ ready
          /\ Goto(t, "copy")
          /\ UNCHANGED got
       \/ /\ At(t, "copy")
          /\ got' = [got EXCEPT ![t] = result]
          /\ Return(t)
    /\ UNCHANGED <<counter, ready, values, result, alive, born, submitted>>

\* The values, then the counter, then ready (which reset(0) leaves alone).
reset(t) ==
    /\ \/ /\ At(t, "idle") /\ Is(t, "reset")
          /\ values' = [w \in Worker |-> {}]
          /\ submitted' = {}
          /\ Goto(t, "count")
          /\ UNCHANGED <<counter, ready>>
       \/ /\ At(t, "count")
          /\ counter' = Call(t).n
          /\ IF Call(t).n # 0 THEN Goto(t, "rempty") ELSE Return(t)
          /\ UNCHANGED <<ready, values, submitted>>
       \/ /\ At(t, "rempty")
          /\ ready' = FALSE
          /\ Return(t)
          /\ UNCHANGED <<counter, values, submitted>>
    /\ UNCHANGED <<result, alive, got, born>>

\* qt_sinc_resize: the counter grows, and ready is only ever filled.
resize(t) ==
    /\ At(t, "idle") /\ Is(t, "resize")
    /\ counter' = counter + Call(t).n
    /\ ready' = (ready \/ counter + Call(t).n = 0)
    /\ Return(t)
    /\ UNCHANGED rest

\* qt_sinc_fini frees the values and fills ready; then the sinc is freed.
destroy(t) ==
    /\ At(t, "idle") /\ Is(t, "destroy")
    /\ alive' = FALSE
    /\ ready' = TRUE
    /\ Return(t)
    /\ UNCHANGED <<counter, values, result, got, born, submitted>>

\* qthread_fork of a task that will submit.
spawn(t) ==
    /\ At(t, "idle") /\ Is(t, "spawn")
    /\ born' = born \cup {Call(t).n}
    /\ Return(t)
    /\ UNCHANGED <<counter, ready, values, result, alive, got, submitted>>

-----------------------------------------------------------------------------
(* donecount_cas.c, where it differs.                                      *)

Load(t) == oldc' = [oldc EXCEPT ![t] = counter]

\* The first reading, and the loop: a failed compare-and-swap reads again.
expect_cas(t) ==
    \/ /\ At(t, "idle") /\ Is(t, "expect")
       /\ Load(t) /\ Goto(t, "cas+")
       /\ UNCHANGED <<counter, ready, rest>>
    \/ /\ At(t, "cas+")
       /\ counter # oldc[t]
       /\ Load(t)
       /\ UNCHANGED <<counter, ready, rest, pc, todo>>
    \/ /\ At(t, "cas+")
       /\ counter = oldc[t]
       /\ counter' = counter + Call(t).n
       /\ IF oldc[t] = 0 THEN Goto(t, "empty") ELSE Return(t)
       /\ UNCHANGED <<ready, rest, oldc>>
    \/ /\ At(t, "empty")
       /\ ready' = FALSE
       /\ Return(t)
       /\ UNCHANGED <<counter, rest, oldc>>

submit_cas(t) ==
    \/ /\ At(t, "decr")
       /\ Load(t) /\ Goto(t, "cas-")
       /\ UNCHANGED <<counter, ready, rest>>
    \/ /\ At(t, "cas-")
       /\ counter # oldc[t]
       /\ Load(t)
       /\ UNCHANGED <<counter, ready, rest, pc, todo>>
    \/ /\ At(t, "cas-")
       /\ counter = oldc[t]
       /\ counter' = counter - 1
       /\ IF oldc[t] = 1 THEN Goto(t, "collate") ELSE Return(t)
       /\ UNCHANGED <<ready, rest, oldc>>


\* As in donecount.c, but reset(0) fills ready.
reset_cas(t) ==
    /\ \/ /\ At(t, "idle") /\ Is(t, "reset")
          /\ values' = [w \in Worker |-> {}]
          /\ submitted' = {}
          /\ Goto(t, "count")
          /\ UNCHANGED <<counter, ready>>
       \/ /\ At(t, "count")
          /\ counter' = Call(t).n
          /\ Goto(t, "rempty")
          /\ UNCHANGED <<ready, values, submitted>>
       \/ /\ At(t, "rempty")
          /\ ready' = (Call(t).n = 0)
          /\ Return(t)
          /\ UNCHANGED <<counter, values, submitted>>
    /\ UNCHANGED <<result, alive, got, born, oldc>>

Common(t) == submit_value(t) \/ collate(t) \/ collate_fill(t) \/ wait(t) \/ destroy(t) \/ spawn(t)

Step(t)    == /\ expect(t) \/ submit_count(t) \/ reset(t) \/ resize(t) \/ Common(t)
              /\ UNCHANGED oldc
StepCAS(t) == \/ expect_cas(t) \/ submit_cas(t) \/ reset_cas(t)
              \/ Common(t) /\ UNCHANGED oldc

InitCAS == Init
Next    == \E t \in Task : Step(t)
NextCAS == \E t \in Task : StepCAS(t)

\* A task keeps running on its worker; a woken task is eventually run.
Spec    == Init /\ [][Next]_vars /\ \A t \in Task : WF_vars(Step(t))

-----------------------------------------------------------------------------

\* ready is full only when every expected submission was made, but for the moment
\* in which the task that raised the counter from 0 has yet to empty it: nobody
\* returns from qt_sinc_wait early (qt_sinc_wait(3): "blocks the calling task until
\* the specified sinc has received all of the submissions it expects").
NoEarlyRelease ==
    alive /\ ready /\ counter > 0 => \E t \in Task : pc[t] \in {"empty", "rempty"}

\* A wait that copies the result copies all values submitted, also those that
\* other workers put in their own slots (qt_sinc_internal_collate).
ResultComplete ==
    \A t \in Task : At(t, "copy") => result = submitted

\* Nobody touches a sinc that the task it released has destroyed: filling ready is
\* the last thing the final submission does to it.
NoUseAfterDestroy ==
    ~alive => \A t \in Task : pc[t] = "idle"

\* donecount_cas.c: two submissions that race for the counter are both counted, and
\* exactly one of them is the final one.
OneFinalSubmission ==
    /\ Cardinality({t \in Task : pc[t] \in {"collate", "fill"}}) <= 1
    /\ (alive /\ \A t \in Task : pc[t] = "idle") => (ready <=> counter = 0)

\* Every expected submission is made in these programs, so every waiter returns.
Returned == \A t \in Task : todo[t] = <<>>
=============================================================================
