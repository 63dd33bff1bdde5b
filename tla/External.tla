------------------------------ MODULE External ------------------------------
(***************************************************************************)
(* FEB and syncvar calls made outside the runtime (qthread_internal_self() *)
(* is NULL: an operating system thread that is not a worker).  The thread  *)
(* fills an argument block in its stack frame, forks a task that makes the *)
(* call, and, for the calls that may block, waits on a mutex in the block  *)
(* (src/feb.c, src/syncvar.c).                                             *)
(***************************************************************************)
EXTENDS Naturals, Sequences, FiniteSets

CONSTANTS Thread,     \* the external threads
          Script      \* the calls each of them makes, in order: [Thread -> Seq(kind)]

VARIABLES todo, pc,   \* the calls left and where each thread is
          args,       \* the frame with the argument block: <<>> when dead, or <<call>>
          mutex,      \* of the block: TRUE when locked
          forked,     \* the thread's tasks that have not finished: with the call each was forked for
          done        \* calls performed by tasks
vars == <<todo, pc, args, mutex, forked, done>>

Init ==
    /\ todo = Script /\ pc = [e \in Thread |-> "idle"]
    /\ args = [e \in Thread |-> <<>>] /\ mutex = [e \in Thread |-> FALSE]
    /\ forked = [e \in Thread |-> <<>>] /\ done = [e \in Thread |-> <<>>]

Goto(e, l) == pc' = [pc EXCEPT ![e] = l]
Fork(e) == forked' = [forked EXCEPT ![e] = Append(@, [k |-> Head(todo[e]), pc |-> "start"])]
Frame(e) == args' = [args EXCEPT ![e] = <<Head(todo[e])>>]

\* Mutant of feb_blocker_func: the mutex is not locked before the fork.
feb_blocker_func_unlocked(e) ==
    /\ pc[e] = "idle" /\ todo[e] # <<>> /\ Head(todo[e]).lib = "feb"
    /\ Frame(e) /\ Fork(e) /\ Goto(e, "wait") /\ UNCHANGED <<todo, mutex, done>>

\* qthread_feb_blocker_func: lock the mutex, fork the task ...
feb_blocker_func(e) ==
    /\ pc[e] = "idle" /\ todo[e] # <<>> /\ Head(todo[e]).lib = "feb"
    /\ Frame(e) /\ mutex' = [mutex EXCEPT ![e] = TRUE]
    /\ Fork(e) /\ Goto(e, "wait") /\ UNCHANGED <<todo, done>>

\* qthread_syncvar_blocker_func: the same for the calls that may block.
syncvar_blocker_func(e) ==
    /\ pc[e] = "idle" /\ todo[e] # <<>> /\ Head(todo[e]).lib = "syncvar" /\ Head(todo[e]).blocks
    /\ Frame(e) /\ mutex' = [mutex EXCEPT ![e] = TRUE]
    /\ Fork(e) /\ Goto(e, "wait") /\ UNCHANGED <<todo, done>>

\* Mutant of blocker_return: without waiting.
blocker_return_early(e) ==
    /\ pc[e] = "wait" /\ args' = [args EXCEPT ![e] = <<>>] /\ Goto(e, "rest")
    /\ UNCHANGED <<todo, mutex, forked, done>>

\* ... and wait until the task unlocks the mutex; the frame goes with the return.
blocker_return(e) ==
    /\ pc[e] = "wait" /\ ~mutex[e]
    /\ args' = [args EXCEPT ![e] = <<>>] /\ Goto(e, "idle")
    /\ todo' = [todo EXCEPT ![e] = Tail(@)]
    /\ UNCHANGED <<mutex, forked, done>>

\* The task reads the block (whatever the frame holds by then) and makes the call.
Perform(e, i, lib, blocks) ==
    /\ i \in DOMAIN forked[e] /\ forked[e][i].pc = "start"
    /\ forked[e][i].k.lib = lib /\ forked[e][i].k.blocks = blocks
    /\ done' = [done EXCEPT ![e] = @ \o args[e]]
    /\ forked' = [forked EXCEPT ![e][i].pc = "stored"]
    /\ UNCHANGED <<todo, pc, args, mutex>>
feb_blocker_thread(e, i)        == Perform(e, i, "feb", TRUE)
syncvar_blocker_thread(e, i)    == Perform(e, i, "syncvar", TRUE)

\* The result is in the block; the blocking kinds unlock its mutex.
blocker_unlock(e, i) ==
    /\ i \in DOMAIN forked[e] /\ forked[e][i].pc = "stored"
    /\ forked' = [forked EXCEPT ![e][i].pc = "gone"]
    /\ mutex' = IF forked[e][i].k.blocks THEN [mutex EXCEPT ![e] = FALSE] ELSE mutex
    /\ UNCHANGED <<todo, pc, args, done>>

Next == \E e \in Thread :
    \/ feb_blocker_func(e) \/ syncvar_blocker_func(e) \/ blocker_return(e)
    \/ \E i \in DOMAIN forked[e] : feb_blocker_thread(e, i) \/ syncvar_blocker_thread(e, i) \/ blocker_unlock(e, i)
Spec == Init /\ [][Next]_vars

\* A call made from outside the runtime has happened when it returns, with the arguments
\* it was given: "The empty/fill functions merely assert the empty or full state of the
\* given address" (include/qthread/qthread.h:411); the task never reads a dead frame.
ReturnsAfterTheCall ==
    \A e \in Thread : pc[e] = "idle" => done[e] = SubSeq(Script[e], 1, Len(Script[e]) - Len(todo[e]))

\* A task touches the argument block only while its frame exists.
FrameOutlivesTask ==
    \A e \in Thread : \A i \in DOMAIN forked[e] : forked[e][i].pc = "start" => args[e] # <<>>
=============================================================================
