------------------------------ MODULE Barrier ------------------------------
(***************************************************************************)
(* What every barrier of src/barrier/ promises: nobody leaves a round      *)
(* before all members have entered it.  Between rounds, when nobody is     *)
(* inside, the barrier may be resized.                                     *)
(*                                                                         *)
(* And tasks that use a barrier: the members of a group enter it Rounds    *)
(* times, then the barrier is resized for the next group of Groups.  This  *)
(* is how test/features/barrier.c and qt_global_barrier use one.           *)
(***************************************************************************)
EXTENDS Integers, Sequences, FiniteSets
CONSTANTS Task,       \* numbers, from 0: the id passed to qt_barrier_enter_id
          Groups,     \* the successive groups of tasks
          Rounds      \* how often each group uses the barrier

VARIABLES entered, left,   \* how often each task entered and left
          member,          \* the participants
          phase,           \* the group's number
          pc               \* where a task is inside qt_barrier_enter
client == <<entered, left, member, phase, pc>>

-----------------------------------------------------------------------------
(* The promise.                                                            *)

promise == <<entered, left, member>>

PromiseInit == /\ entered = [t \in Task |-> 0] /\ left = [t \in Task |-> 0]
               /\ member \in SUBSET Task

enters(t) == /\ t \in member /\ entered[t] = left[t]
             /\ entered' = [entered EXCEPT ![t] = @ + 1]
             /\ UNCHANGED <<left, member>>

leaves(t) == /\ entered[t] > left[t]
             /\ \A u \in member : entered[u] > left[t]
             /\ left' = [left EXCEPT ![t] = @ + 1]
             /\ UNCHANGED <<entered, member>>

resizes == /\ \A t \in Task : entered[t] = left[t]
           /\ entered' = [t \in Task |-> 0] /\ left' = [t \in Task |-> 0]
           /\ member' \in SUBSET Task

PromiseNext == resizes \/ \E t \in Task : enters(t) \/ leaves(t)
Promise == PromiseInit /\ [][PromiseNext]_promise

-----------------------------------------------------------------------------
(* The tasks.                                                              *)

InitClient ==
    /\ entered = [t \in Task |-> 0] /\ left = [t \in Task |-> 0]
    /\ phase = 1 /\ member = Groups[1]
    /\ pc = [t \in Task |-> "idle"]

Arrive(t, l) ==
    /\ pc[t] = "idle" /\ t \in member /\ left[t] < Rounds
    /\ entered' = [entered EXCEPT ![t] = @ + 1]
    /\ pc' = [pc EXCEPT ![t] = l]
    /\ UNCHANGED <<left, member, phase>>
Move(t, l) ==
    /\ pc' = [pc EXCEPT ![t] = l]
    /\ UNCHANGED <<entered, left, member, phase>>
Depart(t) ==
    /\ left' = [left EXCEPT ![t] = @ + 1]
    /\ pc' = [pc EXCEPT ![t] = "idle"]
    /\ UNCHANGED <<entered, member, phase>>
Size == Cardinality(member)

Regroup ==
    /\ phase < Len(Groups)
    /\ \A t \in member : left[t] = Rounds /\ pc[t] = "idle"
    /\ phase' = phase + 1 /\ member' = Groups[phase + 1]
    /\ entered' = [t \in Task |-> 0] /\ left' = [t \in Task |-> 0]
    /\ UNCHANGED pc

\* Every task gets through all its rounds: a fast task that comes around again neither
\* overtakes nor blocks the slow ones still leaving.
Passed == phase = Len(Groups) /\ \A t \in member : left[t] = Rounds
=============================================================================
