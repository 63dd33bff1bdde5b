---------------------------- MODULE BarrierSinc ----------------------------
(***************************************************************************)
(* The barrier made of three sincs (src/barrier/sinc.c), each used as      *)
(* module SincDoneCount models it: a submission decrements the counter,    *)
(* the last one fills ready in a step of its own.                          *)
(***************************************************************************)
EXTENDS Barrier

CONSTANT ById          \* qt_barrier_enter_id: only participant 0 resets
VARIABLES count, counter, ready,   \* barrier->count; per sinc 1..3
          cur                      \* the sinc a task is at
vars == <<client, count, counter, ready, cur>>
Sinc == 1..3

\* qt_barrier_create
Init == /\ InitClient
        /\ count = Size
        /\ counter = [s \in Sinc |-> Size] /\ ready = [s \in Sinc |-> FALSE]
        /\ cur = [t \in Task |-> 1]

At(t, l, s) == pc[t] = l /\ cur[t] = s

\* qt_sinc_submit(barrier->sinc_s, NULL)
submit(t, s) ==
    /\ \/ At(t, "submit", s) /\ counter' = [counter EXCEPT ![s] = @ - 1] /\ UNCHANGED ready
          /\ Move(t, IF counter[s] = 1 THEN "fill" ELSE "wait")
       \/ At(t, "fill", s) /\ ready' = [ready EXCEPT ![s] = TRUE] /\ UNCHANGED counter
          /\ Move(t, "wait")
    /\ UNCHANGED <<count, cur>>

wait(t, s) ==
    /\ At(t, "wait", s) /\ ready[s]
    /\ Move(t, "reset")
    /\ UNCHANGED <<count, counter, ready, cur>>

\* The sinc to reset after sinc s.
Reused(s) == ((s + 1) % 3) + 1

GoOn(t, s) ==
    /\ IF s = 3 THEN Depart(t) ELSE Move(t, "submit")
    /\ cur' = [cur EXCEPT ![t] = (s % 3) + 1]

\* qt_sinc_reset of the sinc that nobody uses now: its counter, then ready.
reset(t, s) ==
    /\ \/ /\ At(t, "reset", s) /\ (ById => t = 0)
          /\ counter' = [counter EXCEPT ![Reused(s)] = count]
          /\ Move(t, "empty")
          /\ UNCHANGED <<ready, cur>>
       \/ /\ At(t, "reset", s) /\ ById /\ t # 0
          /\ GoOn(t, s)
          /\ UNCHANGED <<counter, ready>>
       \/ /\ At(t, "empty", s)
          /\ ready' = [ready EXCEPT ![Reused(s)] = FALSE]
          /\ GoOn(t, s)
          /\ UNCHANGED counter
    /\ UNCHANGED count

\* qt_barrier_resize hands the DIFFERENCE of the sizes to qt_sinc_reset.
resize ==
    /\ Regroup
    /\ LET new == Cardinality(Groups[phase + 1])
       IN  /\ count' = new
           /\ counter' = [s \in Sinc |-> new - count]
           /\ ready' = IF new = count THEN ready ELSE [s \in Sinc |-> FALSE]
    /\ UNCHANGED cur

Enter(t) ==
    \/ Arrive(t, "submit") /\ UNCHANGED <<count, counter, ready, cur>>
    \/ \E s \in Sinc : submit(t, s) \/ wait(t, s) \/ reset(t, s)
Next == resize \/ \E t \in Task : Enter(t)
Spec == Init /\ [][Next]_vars /\ \A t \in Task : WF_vars(Enter(t))
=============================================================================
