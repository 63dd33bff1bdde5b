------------------------------- MODULE MCSync -------------------------------
(***************************************************************************)
(* Small instances of the synchronisation objects built on full/empty      *)
(* words: sincs, barriers, syncvars, and calls made from outside the       *)
(* runtime.  A behaviour is one of the component named by which.           *)
(***************************************************************************)
EXTENDS Integers, Sequences, FiniteSets

CONSTANTS Which,           \* the components to explore
          SincPrograms,    \* what the users of the counting sincs do,
          InitialCount,    \* and how many submissions they expect at first
          Scripts,         \* what the users of a syncvar do
          NULL

VARIABLES which, counter, ready, values, result, alive, pc, todo, got, born, submitted, oldc,
          counts, at, entered, left, member, phase, in_gate, out_gate, blockers, max_blockers,
          up, down, steps, participant, count, cur, lk, full, wt, data, tab, mlock, EFQ, FEQ,
          FFQ, free, call, script, res, mm, seen, args, mutex, forked, done
all == <<which, counter, ready, values, result, alive, pc, todo, got, born, submitted, oldc,
         counts, at, entered, left, member, phase, in_gate, out_gate, blockers, max_blockers,
         up, down, steps, participant, count, cur, lk, full, wt, data, tab, mlock, EFQ, FEQ,
         FFQ, free, call, script, res, mm, seen, args, mutex, forked, done>>

\* A component has the variables that are named in the set S; those of the others are 0.
But(n, S, p) == IF n \in S THEN TRUE ELSE p
Unused(v) == v = 0
Same(v) == UNCHANGED v
Others(S, F(_)) ==
    /\ But("counter", S, F(counter)) /\ But("ready", S, F(ready))
    /\ But("values", S, F(values)) /\ But("result", S, F(result))
    /\ But("alive", S, F(alive)) /\ But("pc", S, F(pc)) /\ But("todo", S, F(todo))
    /\ But("got", S, F(got)) /\ But("born", S, F(born))
    /\ But("submitted", S, F(submitted)) /\ But("oldc", S, F(oldc))
    /\ But("counts", S, F(counts)) /\ But("at", S, F(at)) /\ But("entered", S, F(entered))
    /\ But("left", S, F(left)) /\ But("member", S, F(member)) /\ But("phase", S, F(phase))
    /\ But("in_gate", S, F(in_gate)) /\ But("out_gate", S, F(out_gate))
    /\ But("blockers", S, F(blockers)) /\ But("max_blockers", S, F(max_blockers))
    /\ But("up", S, F(up)) /\ But("down", S, F(down)) /\ But("steps", S, F(steps))
    /\ But("participant", S, F(participant)) /\ But("count", S, F(count))
    /\ But("cur", S, F(cur)) /\ But("lk", S, F(lk)) /\ But("full", S, F(full))
    /\ But("wt", S, F(wt)) /\ But("data", S, F(data)) /\ But("tab", S, F(tab))
    /\ But("mlock", S, F(mlock)) /\ But("EFQ", S, F(EFQ)) /\ But("FEQ", S, F(FEQ))
    /\ But("FFQ", S, F(FFQ)) /\ But("free", S, F(free)) /\ But("call", S, F(call))
    /\ But("script", S, F(script)) /\ But("res", S, F(res)) /\ But("mm", S, F(mm))
    /\ But("seen", S, F(seen)) /\ But("args", S, F(args)) /\ But("mutex", S, F(mutex))
    /\ But("forked", S, F(forked)) /\ But("done", S, F(done))

-----------------------------------------------------------------------------
(* Sincs: three tasks; calls are [op, n].                                  *)

C(op, n) == [op |-> op, n |-> n]
spawns == <<C("spawn", 2), C("spawn", 3)>>

\* Two submissions are expected at first.  The owner uses the sinc twice;
\* submitting tasks expect more before their own submission; all three wait.
Disciplined ==
    {<< <<C("spawn", 2), C("submit", 1), C("wait", 0), C("reset", 2),
          C("spawn", 3), C("submit", 2), C("wait", 0)>>,
        <<C("submit", 3)>>, <<C("submit", 4)>> >>,
     << <<C("spawn", 2), C("submit", 1), C("wait", 0), C("expect", 1), C("spawn", 3), C("wait", 0), C("reset", 0)>>,
        <<C("submit", 3)>>, <<C("submit", 4)>> >>,
     << spawns \o <<C("wait", 0)>>,
        <<C("expect", 1), C("submit", 3), C("submit", 5)>>,
        <<C("expect", 2), C("submit", 4), C("submit", 6), C("submit", 7)>> >>,
     << spawns \o <<C("wait", 0)>>, <<C("submit", 3), C("wait", 0)>>, <<C("submit", 4), C("wait", 0)>> >>}

\* The waiter destroys the sinc, or resizes it, which the code allows once everything
\* was submitted.
Waits(p, t) == \E i \in DOMAIN p[t] : p[t][i].op = "wait"
Ending(S, op) == {[p EXCEPT ![1] = Append(@, C(op, 0))] : p \in {p \in S : ~Waits(p, 2) /\ ~Waits(p, 3)}}
Counted == Disciplined \cup Ending(Disciplined, "destroy")
Resized == {[p EXCEPT ![1] = Append(@, C("resize", 0))] : p \in Disciplined}

\* The submissions are all expected before the first of them is made, or by the
\* only task left.
Only(p, ops) == \A t \in {2, 3} : \A i \in DOMAIN p[t] : p[t][i].op \in ops
Static == {p \in Disciplined : Only(p, {"submit", "wait"})}
          \cup Ending({p \in Disciplined : Only(p, {"submit"})}, "destroy")

D == INSTANCE SincDoneCount WITH Task <- 1..3, Worker <- 1..2, WorkerOf <- <<1, 2, 2>>,
                                 Programs <- SincPrograms \cup (IF InitialCount = 0 THEN {} ELSE Resized)
K == INSTANCE SincDoneCount WITH Task <- 1..3, Worker <- 1..2, WorkerOf <- <<1, 2, 2>>,
                                 Programs <- SincPrograms
O == INSTANCE SincOriginal WITH Task <- 1..3, Worker <- 1..4, WorkerOf <- <<1, 2, 3>>, Wps <- 2,
                                Programs <- Static, InitialCount <- 2
dvars == D!vars
ovars == O!ovars

-----------------------------------------------------------------------------
(* Barriers: groups whose sizes are no powers of two, used twice; the      *)
(* barrier grows between the groups.                                       *)

Member == 0..4
B(t) == 0..(t - 1)
BF == INSTANCE BarrierFEB   WITH Task <- Member, Groups <- <<B(2), B(3)>>, Rounds <- 2
ASSUME BF!GroupsAssumption
BA == INSTANCE BarrierTrees WITH Task <- Member, Groups <- <<B(3), B(4)>>, Rounds <- 2,
                                 Kind <- "array", OwnIds <- TRUE
BL == INSTANCE BarrierTrees WITH Task <- Member, Groups <- <<B(3), B(5)>>, Rounds <- 2,
                                 Kind <- "log", OwnIds <- TRUE
BI == INSTANCE BarrierSinc  WITH Task <- Member, Groups <- <<B(3), B(2)>>, Rounds <- 2, ById <- TRUE
BS == INSTANCE BarrierSinc  WITH Task <- Member, Groups <- <<B(3), B(2)>>, Rounds <- 2, ById <- FALSE
Abs == INSTANCE Barrier WITH Task <- Member, Groups <- <<>>, Rounds <- 0
avars == Abs!promise
fvars == BF!vars
tvars == BA!vars
svars == BI!vars
Barriers == {"feb", "array", "log", "sinc_id", "sinc_all"}

\* qt_barrier_resize of src/barrier/sinc.c resets the sincs to the difference of the sizes.
BrokenBySize == which \in {"sinc_id", "sinc_all"} /\ phase > 1

-----------------------------------------------------------------------------
(* Syncvars: programs of three tasks, 1 to 3; calls are [op, a, v].        *)

S(t, op) == [op |-> op, a |-> "a", v |-> IF t = 1 THEN "v1" ELSE "v2"]
Run(x, y, z) == << [i \in DOMAIN x |-> S(1, x[i])], [i \in DOMAIN y |-> S(2, y[i])],
                   [i \in DOMAIN z |-> S(3, z[i])] >>

\* Waiting takers and writers, and the non-blocking operations beside them.
Takes == {"readFE", "writeEF", "empty"}
Takers == {Run(<<x, y>>, <<z>>, <<u>>) : x \in Takes, y \in Takes \cup {"fill"}, z \in Takes, u \in Takes}
AllTakes == {Run(<<x, y>>, <<z>>, <<>>) : x \in Takes, y \in {"fill", "readFE_nb", "writeEF_nb", "status"},
                                          z \in Takes \cup {"fill", "readFE_nb", "writeEF_nb", "status"}}
\* Task 1 empties the word and later fills it once; the others wait for it.
OneShot == {Run(<<"empty", w>>, <<r>>, <<r>>) : w \in {"writeEF", "writeF", "fill"}, r \in {"readFF", "readFF_nb"}}
\* As many puts as takes; task 1 does not put before it takes.
Balanced == {Run(<<"readFE", "writeEF">>, <<"readFE">>, <<"writeEF">>),
             Run(<<"readFE", "readFE">>, <<"writeEF">>, <<"writeEF">>),
             Run(<<"writeEF", "writeEF">>, <<"readFE">>, <<"readFE">>)}
Matched == OneShot \cup Balanced
SyncvarPrograms == Takers \cup AllTakes \cup Matched

\* Readers that wait beside a taker and a writer.
Readers == {Run(<<x, y>>, <<z>>, <<u>>) : x \in {"empty", "readFE"}, y \in {"readFF", "writeEF"},
                                          z \in {"readFF", "readFE"}, u \in {"writeEF"}}

V == INSTANCE Syncvar WITH Task <- 1..3, Obj <- {"m1", "m2", "m3"}
vvars == V!hvars
cvars == V!Cells!vars

-----------------------------------------------------------------------------
(* Two threads outside the runtime that make three blocking calls each.    *)

F == [lib |-> "feb", blocks |-> TRUE]
G == [lib |-> "syncvar", blocks |-> TRUE]
E == INSTANCE External WITH Thread <- {"e1", "e2"}, Script <- [e \in {"e1", "e2"} |-> <<F, G, F>>]

-----------------------------------------------------------------------------

SincUses == {"counter", "ready", "values", "result", "alive", "pc", "todo", "got", "born", "submitted",
             "oldc"}
OrigUses == {"counter", "ready", "values", "result", "alive", "pc", "todo", "got", "born", "submitted",
             "oldc", "counts", "at"}
FebUses  == {"entered", "left", "member", "phase", "pc", "in_gate", "out_gate", "blockers", "max_blockers"}
TreeUses == {"entered", "left", "member", "phase", "pc", "up", "down", "steps", "participant"}
BSincUses == {"entered", "left", "member", "phase", "pc", "count", "counter", "ready", "cur"}
VarUses  == {"lk", "full", "wt", "data", "tab", "mlock", "EFQ", "FEQ", "FFQ", "free", "pc", "call",
             "script", "res", "mm", "seen"}
ExtUses  == {"todo", "pc", "args", "mutex", "forked", "done"}

Init ==
    /\ which \in Which
    /\ \/ which = "donecount" /\ D!Init /\ Others(SincUses, Unused)
       \/ which = "cas" /\ K!InitCAS /\ Others(SincUses, Unused)
       \/ which = "original" /\ O!InitO /\ Others(OrigUses, Unused)
       \/ which = "feb" /\ BF!Init /\ Others(FebUses, Unused)
       \/ which = "array" /\ BA!Init /\ Others(TreeUses, Unused)
       \/ which = "log" /\ BL!Init /\ Others(TreeUses, Unused)
       \/ which = "sinc_id" /\ BI!Init /\ Others(BSincUses, Unused)
       \/ which = "sinc_all" /\ BS!Init /\ Others(BSincUses, Unused)
       \/ which = "syncvar" /\ V!HInit /\ Others(VarUses, Unused)
       \/ which = "external" /\ E!Init /\ Others(ExtUses, Unused)

Next ==
    /\ UNCHANGED which
    /\ \/ which = "donecount" /\ D!Next /\ Others(SincUses, Same)
       \/ which = "cas" /\ K!NextCAS /\ Others(SincUses, Same)
       \/ which = "original" /\ O!NextO /\ Others(OrigUses, Same)
       \/ which = "feb" /\ BF!Next /\ Others(FebUses, Same)
       \/ which = "array" /\ BA!Next /\ Others(TreeUses, Same)
       \/ which = "log" /\ BL!Next /\ Others(TreeUses, Same)
       \/ which = "sinc_id" /\ BI!Next /\ Others(BSincUses, Same)
       \/ which = "sinc_all" /\ BS!Next /\ Others(BSincUses, Same)
       \/ which = "syncvar" /\ V!HNext /\ Others(VarUses, Same)
       \/ which = "external" /\ E!Next /\ Others(ExtUses, Same)

Spec == Init /\ [][Next]_all

\* A runnable task runs; for syncvars also: a lock is eventually acquired.
Fairness ==
    /\ \A t \in 1..3 : /\ WF_dvars(which = "donecount" /\ D!Step(t))
                       /\ WF_dvars(which = "cas" /\ K!StepCAS(t))
                       /\ WF_ovars(which = "original" /\ O!StepO(t))
                       /\ SF_vvars(which = "syncvar" /\ V!HStep(t))
    /\ \A t \in Member : /\ WF_fvars(which = "feb" /\ BF!Enter(t))
                         /\ WF_tvars(which = "array" /\ BA!Enter(t))
                         /\ WF_tvars(which = "log" /\ BL!Enter(t))
                         /\ WF_svars(which = "sinc_id" /\ BI!Enter(t))
                         /\ WF_svars(which = "sinc_all" /\ BS!Enter(t))
    /\ WF_fvars(which = "feb" /\ BF!resize)
    /\ WF_tvars(which = "array" /\ BA!resize)
    /\ WF_tvars(which = "log" /\ BL!resize)
FairSpec == Spec /\ Fairness

-----------------------------------------------------------------------------

\* Nobody returns from qt_sinc_wait early: ready is full only when every expected
\* submission was made, but for the moment in which an expect or a reset has yet to
\* empty it (qt_sinc_wait(3): "blocks the calling task until the specified sinc has
\* received all of the submissions it expects").
NoEarlyRelease == /\ which \in {"donecount", "cas"} => D!NoEarlyRelease
                  /\ which = "original" => O!NoEarlyReleaseO

\* A wait that copies the result copies all values submitted, also those that
\* other workers put in their own slots (qt_sinc_internal_collate).
ResultComplete == /\ which \in {"donecount", "cas"} => D!ResultComplete
                  /\ which = "original" => O!ResultComplete

\* Nobody touches a counting sinc that the task it released has destroyed: filling
\* ready is the last thing the final submission does to it.
NoUseAfterDestroy == which \in {"donecount", "cas"} => D!NoUseAfterDestroy

\* Two submissions that race for the counter with compare-and-swap are both counted,
\* and exactly one of them is the final one (donecount_cas.c).
OneFinalSubmission == which = "cas" => K!OneFinalSubmission


\* Nobody leaves a barrier before all have entered (qthread_feb_barrier_create(3): "will
\* cause the thread to block until the specified number of threads has entered the same
\* barrier"): the steps of each of the barriers are steps of Barrier's promise, those of a
\* barrier of sincs until it is resized.
ImplementsBarrier ==
    /\ which \in Barriers => Abs!PromiseInit
    /\ [][(which \in Barriers /\ ~BrokenBySize) => Abs!PromiseNext \/ UNCHANGED avars]_all

\* The syncvar operations are atomic, as the FEB operations on plain words are:
\* qthread_syncvar_readFE(3), _writeEF(3), _fill(3), _empty(3);
\* only the non-blocking ones may also fail because another task has the word locked.
SyncvarsAreAtomic ==
    /\ which = "syncvar" => V!Cells!Init
    /\ [][which = "syncvar" => V!Atomically \/ UNCHANGED cvars]_all

\* A task blocked on a syncvar is queued in the addrstat that the table holds, and the
\* waiters bit says so whenever the word is unlocked (qthread_syncvar_remove races with
\* new waiters).
NoLostWaiter == which = "syncvar" => V!NoLostWaiter

\* No task holds or waits for the lock of an addrstat that has been given back to the
\* pool: "locking the hash table is unnecessary because we have locked the syncvar itself"
\* (syncvar.c, lines 408, 523, 574, ...), although qthread_syncvar_remove runs without the
\* syncvar.
NoDeadAddrstat == which = "syncvar" => V!NoDeadAddrstat

\* The assertions of the releasing syncvar operations: there is an addrstat, and the
\* waiters in it are the ones that the state announced ("someone snuck in!" otherwise).
AssertsHold == which = "syncvar" => V!AssertsHold

\* The waiters of a syncvar are kept: see the three properties it joins.
WaitersKept == NoLostWaiter /\ NoDeadAddrstat /\ AssertsHold

\* A blocking FEB or syncvar call made from outside the runtime has happened when it
\* returns, with the arguments it was given.
ReturnsAfterTheCall == which = "external" => E!ReturnsAfterTheCall

\* The task that makes the call for an outside thread touches the argument block only
\* while the thread's frame exists.
FrameOutlivesTask == which = "external" => E!FrameOutlivesTask

\* A call from outside of the runtime has been made, once, when it returns, and its task
\* leaves the caller's frame alone from then on: see the two properties it joins.
OutsideCallsMade == ReturnsAfterTheCall /\ FrameOutlivesTask

\* Every waiter returns: of a sinc whose submissions are all made, through every round of
\* a barrier (a fast task that comes around again neither overtakes nor blocks the slow
\* ones), and from the syncvar operations of a program whose puts and takes match.
Done == CASE which = "donecount" -> D!Returned
          [] which = "cas" -> K!Returned
          [] which = "original" -> O!Returned
          [] which = "feb" -> BF!Passed
          [] which = "array" -> BA!Passed
          [] which = "log" -> BL!Passed
          [] which \in {"sinc_id", "sinc_all"} -> BrokenBySize \/ (\A t \in member : left[t] = 2)
          [] which = "syncvar" -> V!Returned
          [] OTHER -> TRUE
AllReturn == (which = "syncvar" => script \in Matched) => <>Done
=============================================================================
