----------------------------- MODULE LoopQueue -----------------------------
(***************************************************************************)
(* The adaptive loops of src/qloop.c (the qt_loop_queue calls): workers    *)
(* take ranges of iterations from a shared queue until it is exhausted, or *)
(* until their shepherd is disabled; the caller yields until as many       *)
(* workers have finished as are still in the loop, and frees the loop.     *)
(*                                                                         *)
(* Every access to the shared words is a step.  `call' is chosen by Init:  *)
(* the type of queue, the number of workers, and whether the loop is       *)
(* started by qt_loop_queue_run or by qt_loop_queue_run_there.             *)
(***************************************************************************)
EXTENDS Integers, FiniteSets, FiniteSetTheorems, TLAPS

CONSTANTS Calls,  \* [type, workers, there (a shepherd or -1),
                  \*  off (shepherds that may be disabled; 0 never may),
                  \*  adds (calls of qt_loop_queue_addworker)]
          Start, Stop, Step

Iters == Start..(Stop - 1)
MaxWorker == CHOOSE n \in {c.workers : c \in Calls} : \A c \in Calls : c.workers <= n
Ids == 0..MaxWorker           \* the last one is that of addworker

VARIABLES call, chunksize,
          start, phase, lastblock, donecount, activesheps, freed, \* the loop's memory
          enabled,                                                \* shepherds
          pc, ret, ph, iters, sheps, range,                       \* the workers
          cpc, adds, ran
queue == <<start, phase, lastblock>>
local == <<ret, ph, iters, sheps, range>>
rest == <<call, chunksize, enabled, cpc, adds>>
vars == <<queue, local, rest, donecount, activesheps, freed, pc, ran>>

Type == call.type
Set(f, w, v) == [f EXCEPT ![w] = v]
Goto(w, l) == pc' = Set(pc, w, l)
NoRange == [a |-> 0, b |-> 0, step |-> 0]

\* qt_loop_queue_create: a tenth of a worker's share, but at least 1.
Chunksize(c) == LET n == ((Stop - Start) \div c.workers) \div 10 IN IF n = 0 THEN 1 ELSE n

Init == /\ call \in Calls
        /\ chunksize = Chunksize(call)
        /\ start = Start
        /\ phase = (Start + Stop) \div 2
        /\ lastblock = [w \in Ids |-> 0]
        /\ donecount = 0 /\ activesheps = 0 /\ freed = FALSE
        /\ enabled = Ids
        /\ pc = [w \in Ids |-> "none"]
        /\ ret = [w \in Ids |-> 0] /\ ph = ret /\ iters = ret /\ sheps = ret
        /\ range = [w \in Ids |-> NoRange]
        /\ cpc = "create" /\ adds = 0
        /\ ran = [i \in Iters |-> 0]

---------------------------------------------------------------------------
(* The caller.                                                             *)

\* setchunk is only for chunked queues.
setchunk(n) == /\ cpc = "create" /\ Type = "CHUNK"
               /\ chunksize' = n
               /\ UNCHANGED <<queue, local, call, enabled, cpc, adds, donecount, activesheps, freed, pc, ran>>

\* One qqloop_wrapper on every worker.
run == /\ cpc = "create" /\ call.there = -1
       /\ activesheps' = call.workers
       /\ pc' = [w \in Ids |-> IF w < call.workers THEN "get" ELSE pc[w]]
       /\ cpc' = "wait"
       /\ UNCHANGED <<queue, local, call, chunksize, enabled, adds, donecount, freed, ran>>

\* A single qqloop_wrapper, on the given shepherd.
run_there == /\ cpc = "create" /\ call.there >= 0
             /\ activesheps' = activesheps + 1
             /\ Goto(call.there, "get")
             /\ cpc' = "wait"
             /\ UNCHANGED <<queue, local, call, chunksize, enabled, adds, donecount, freed, ran>>

\* The caller yields while *dc < *as; then the loop is destroyed.  *dc is read first, and
\* only grows, so that the two reads are as good as one.
returns_early == /\ cpc = "wait" /\ donecount + 1 >= activesheps
                 /\ cpc' = "returned" /\ freed' = TRUE
                 /\ UNCHANGED <<queue, local, call, chunksize, enabled, adds, donecount, activesheps, pc, ran>>
returns == /\ cpc = "wait" /\ donecount >= activesheps
           /\ cpc' = "returned" /\ freed' = TRUE
           /\ UNCHANGED <<queue, local, call, chunksize, enabled, adds, donecount, activesheps, pc, ran>>

\* qt_loop_queue_addworker, called by a thread that knows that the loop is
\* running (one of its iterations, say): it announces itself first.
addworker_one == /\ cpc = "wait" /\ adds < call.adds /\ pc[MaxWorker] = "none"
                 /\ \E w \in Ids : pc[w] = "func"
                 /\ activesheps' = activesheps + 1
                 /\ adds' = adds + 1
                 /\ Goto(MaxWorker, "add")
                 /\ UNCHANGED <<queue, local, call, chunksize, enabled, cpc, donecount, freed, ran>>
addworker_two == /\ pc[MaxWorker] = "add"
                 /\ \/ donecount = 0 /\ Goto(MaxWorker, "get") /\ UNCHANGED activesheps
                    \/ donecount # 0 /\ Goto(MaxWorker, "none") /\ activesheps' = activesheps - 1
                 /\ UNCHANGED <<queue, local, rest, donecount, freed, ran>>

\* qthread_disable_shepherd.
disable(s) == /\ s \in call.off /\ s \in enabled /\ cpc = "wait"
              /\ enabled' = enabled \ {s}
              /\ UNCHANGED <<queue, local, call, chunksize, cpc, adds, donecount, activesheps, freed, pc, ran>>

---------------------------------------------------------------------------
(* get_iters: the four kinds of queue.                                     *)

Unshared == UNCHANGED <<rest, donecount, activesheps, freed, ran>>
Took(w, a, b) == /\ range' = Set(range, w, [a |-> a, b |-> b, step |-> Step])
                 /\ Goto(w, "func")
Nothing(w) == /\ range' = Set(range, w, NoRange)
              /\ Goto(w, "exit")
AtLeastOne(n) == IF n = 0 THEN 1 ELSE n
\* C division truncates toward zero.
Quot(a, b) == IF a >= 0 THEN a \div b ELSE -((-a) \div b)

\* With one worker, a guided or factored queue gives everything at once.
single(w) == /\ pc[w] = "get" /\ Type \in {"GUIDED", "FACTORED"} /\ call.workers = 1
             /\ \/ start < Stop /\ Took(w, start, Stop) /\ start' = Stop
                \/ start >= Stop /\ Nothing(w) /\ UNCHANGED start
             /\ UNCHANGED <<phase, lastblock, ret, ph, iters, sheps>> /\ Unshared

\* The first reads of the queue.
guided(w) == /\ pc[w] = "get" /\ Type = "GUIDED" /\ call.workers # 1
             /\ ret' = Set(ret, w, start)
             /\ sheps' = Set(sheps, w, activesheps)
             /\ IF start < Stop THEN Goto(w, "g_read") /\ UNCHANGED range ELSE Nothing(w)
             /\ UNCHANGED <<queue, ph, iters>> /\ Unshared
guided_read(w) == /\ pc[w] = "g_read"
                  /\ ret' = Set(ret, w, start)
                  /\ iters' = Set(iters, w, AtLeastOne(Quot(Stop - start, sheps[w])))
                  /\ Goto(w, "g_cas")
                  /\ UNCHANGED <<queue, ph, sheps, range>> /\ Unshared
\* After a failed swap the loop goes on while the value read is below stop.
guided_cas_blind(w) == /\ pc[w] = "g_cas"
                       /\ start' = ret[w] + iters[w]
                       /\ IF ret[w] < Stop THEN Took(w, ret[w], ret[w] + iters[w]) ELSE Nothing(w)
                       /\ UNCHANGED <<phase, lastblock, ret, ph, iters, sheps>> /\ Unshared
guided_cas(w) == /\ pc[w] = "g_cas"
                 /\ \/ /\ start = ret[w]
                       /\ start' = ret[w] + iters[w]
                       /\ IF ret[w] < Stop THEN Took(w, ret[w], ret[w] + iters[w]) ELSE Nothing(w)
                    \/ /\ start # ret[w]
                       /\ IF ret[w] < Stop THEN Goto(w, "g_read") /\ UNCHANGED range ELSE Nothing(w)
                       /\ UNCHANGED start
                 /\ UNCHANGED <<phase, lastblock, ret, ph, iters, sheps>> /\ Unshared

factored(w) == /\ pc[w] = "get" /\ Type = "FACTORED" /\ call.workers # 1
               /\ ret' = Set(ret, w, start)
               /\ ph' = Set(ph, w, phase)
               /\ sheps' = Set(sheps, w, activesheps)
               /\ IF start < Stop THEN Goto(w, "f_read") /\ UNCHANGED range ELSE Nothing(w)
               /\ UNCHANGED <<queue, iters>> /\ Unshared
factored_read(w) == /\ pc[w] = "f_read"
                    /\ ret' = Set(ret, w, start)
                    /\ Goto(w, "f_phase")
                    /\ UNCHANGED <<queue, ph, iters, sheps, range>> /\ Unshared
\* A new phase: the swap answers with the old value, so the local phase only
\* moves on when a second swap fails.
factored_phase(w) ==
    LET chunk == Quot(Stop - Quot(Stop + ret[w], 2), sheps[w])
        new == ret[w] + chunk * sheps[w]
    IN  /\ pc[w] = "f_phase"
        /\ \/ /\ ret[w] >= ph[w] /\ ret[w] < Stop
              /\ ph' = Set(ph, w, phase)
              /\ phase' = IF phase = ph[w] THEN (IF new # ph[w] THEN new ELSE Stop) ELSE phase
              /\ UNCHANGED <<iters, pc>>
           \/ /\ ~(ret[w] >= ph[w] /\ ret[w] < Stop)
              /\ iters' = Set(iters, w, AtLeastOne(Quot(Stop - ph[w], sheps[w])))
              /\ Goto(w, "f_cas")
              /\ UNCHANGED <<ph, phase>>
        /\ UNCHANGED <<start, lastblock, ret, sheps, range>> /\ Unshared
factored_cas(w) == /\ pc[w] = "f_cas"
                   /\ start' = IF start = ret[w] THEN ret[w] + iters[w] ELSE start
                   /\ CASE start = ret[w] /\ ret[w] < Stop -> Took(w, ret[w], ret[w] + iters[w])
                        [] ret[w] >= Stop -> Nothing(w)
                        [] OTHER -> Goto(w, "f_read") /\ UNCHANGED range
                   /\ UNCHANGED <<phase, lastblock, ret, ph, iters, sheps>> /\ Unshared

chunked(w) == /\ pc[w] = "get" /\ Type = "CHUNK"
              /\ ret' = Set(ret, w, start)
              /\ IF start < Stop THEN Goto(w, "c_incr") /\ UNCHANGED range ELSE Nothing(w)
              /\ UNCHANGED <<queue, ph, iters, sheps>> /\ Unshared
\* The fetch-and-add may find that others have passed the end.
chunked_incr(w) == /\ pc[w] = "c_incr"
                   /\ start' = start + chunksize
                   /\ IF start < Stop
                      THEN Took(w, start, IF start + chunksize > Stop THEN Stop ELSE start + chunksize)
                      ELSE Nothing(w)
                   /\ UNCHANGED <<phase, lastblock, ret, ph, iters, sheps>> /\ Unshared

\* The time that the last block took is anything; iters is dynamicBlock, and 0
\* in sheps stands for a fast block, whose size is kept.
timed(w) == /\ pc[w] = "get" /\ Type = "TIMED"
            /\ \E slow \in IF range[w].step = 0 THEN {TRUE} ELSE BOOLEAN :
                 /\ sheps' = Set(sheps, w, IF slow THEN activesheps ELSE 0)
                 /\ iters' = Set(iters, w, IF range[w].step = 0 THEN 1 ELSE lastblock[w])
            /\ ret' = Set(ret, w, start)
            /\ IF start < Stop THEN Goto(w, "t_cas") /\ UNCHANGED range ELSE Nothing(w)
            /\ UNCHANGED <<queue, ph>> /\ Unshared
DynamicBlock(w) ==
    LET b == IF sheps[w] > 0 THEN ((Stop - ret[w]) \div (2 * sheps[w] * Step)) + 1 ELSE iters[w]
    IN  IF ret[w] + b > Stop THEN Stop - ret[w] ELSE b
timed_cas(w) == /\ pc[w] = "t_cas"
                /\ iters' = Set(iters, w, DynamicBlock(w))
                /\ \/ /\ start = ret[w]
                      /\ start' = ret[w] + DynamicBlock(w)
                      /\ lastblock' = Set(lastblock, w, DynamicBlock(w))
                      /\ Took(w, ret[w], ret[w] + DynamicBlock(w))
                      /\ UNCHANGED ret
                   \/ /\ start # ret[w]
                      /\ ret' = Set(ret, w, start)
                      /\ IF start < Stop THEN UNCHANGED <<pc, range>> ELSE Nothing(w)
                      /\ UNCHANGED <<start, lastblock>>
                /\ UNCHANGED <<phase, ph, sheps>> /\ Unshared

---------------------------------------------------------------------------
(* qqloop_wrapper.                                                         *)

\* The locals of get_iters die with it; of the range only the step is read again.
Forget(w) == /\ ret' = Set(ret, w, 0) /\ ph' = Set(ph, w, 0)
             /\ iters' = Set(iters, w, 0) /\ sheps' = Set(sheps, w, 0)
             /\ range' = Set(range, w, [NoRange EXCEPT !.step = range[w].step])

\* The user's function on the range.
func(w) == /\ pc[w] = "func"
           /\ ran' = [i \in Iters |-> IF i \in range[w].a..(range[w].b - 1) THEN ran[i] + 1 ELSE ran[i]]
           /\ Goto(w, "shep_ok")
           /\ Forget(w)
           /\ UNCHANGED <<queue, rest, donecount, activesheps, freed>>

\* A worker whose shepherd was disabled leaves without being counted as done.
leave_uncounted(w) == /\ pc[w] = "shep_ok"
                      /\ Goto(w, IF w \in enabled THEN "get" ELSE "done")
                      /\ UNCHANGED <<queue, local, rest, donecount, activesheps, freed, ran>>
leave(w) == /\ pc[w] = "shep_ok"
            /\ \/ w \in enabled /\ Goto(w, "get") /\ UNCHANGED activesheps
               \/ w \notin enabled /\ activesheps' = activesheps - 1 /\ Goto(w, "done")
            /\ UNCHANGED <<queue, local, rest, donecount, freed, ran>>

exit_first(w) == /\ pc[w] \in {"exit", "counted"}
                 /\ donecount' = IF pc[w] = "exit" THEN donecount + 1 ELSE donecount
                 /\ Goto(w, IF pc[w] = "exit" THEN "counted" ELSE "done")
                 /\ Forget(w)
                 /\ UNCHANGED <<queue, rest, activesheps, freed, ran>>
exit(w) == /\ pc[w] = "exit"
           /\ donecount' = donecount + 1
           /\ Goto(w, "done")
           /\ Forget(w)
           /\ UNCHANGED <<queue, rest, activesheps, freed, ran>>

Worker(w) == \/ single(w) \/ guided(w) \/ guided_read(w) \/ guided_cas(w)
             \/ factored(w) \/ factored_read(w) \/ factored_phase(w) \/ factored_cas(w)
             \/ chunked(w) \/ chunked_incr(w) \/ timed(w) \/ timed_cas(w)
             \/ func(w) \/ leave(w) \/ exit(w)

Next == \/ \E w \in Ids : Worker(w)
        \/ setchunk(2) \/ run \/ run_there \/ returns
        \/ addworker_one \/ addworker_two
        \/ \E s \in Ids : disable(s)

Spec == Init /\ [][Next]_vars

---------------------------------------------------------------------------
(* Properties.                                                             *)

\* No iteration is run twice, and no range is empty or ends past stop.
RangesDisjoint == /\ \A i \in Iters : ran[i] <= 1
                  /\ \A w \in Ids : pc[w] = "func" =>
                        /\ Start <= range[w].a /\ range[w].a < range[w].b /\ range[w].b <= Stop
                        /\ \A i \in range[w].a..(range[w].b - 1) : ran[i] = 0

\* When the caller returns every iteration has been run, unless the only worker of the
\* loop has left because its shepherd was disabled.
AllDoneOnReturn == cpc = "returned" =>
    \/ \A i \in Iters : ran[i] = 1
    \/ call.there >= 0 /\ call.there \notin enabled

\* The caller frees the loop's memory when no worker, and no addworker, will touch it.
FreedUnused == freed => \A w \in Ids : pc[w] \in {"none", "done"}

Rested == cpc = "returned"

---------------------------------------------------------------------------
(* The properties hold for every number of workers, all bounds of the loop *)
(* and every kind of queue.                                                *)

\* A loop over [Start, Stop), a worker at least, and shepherd 0, which cannot be disabled.
LoopAssumption ==
    /\ Start \in Nat /\ Stop \in Nat /\ Start <= Stop /\ Step \in Nat \ {0}
    /\ \A c \in Calls : c.workers \in Nat \ {0} /\ c.there \in -1..(c.workers - 1) /\ 0 \notin c.off
    /\ \E m \in Calls : \A c \in Calls : c.workers <= m.workers

Labels == {"none", "add", "get", "g_read", "g_cas", "f_read", "f_phase", "f_cas", "c_incr", "t_cas",
           "func", "shep_ok", "exit", "done"}
Ranges == [a : Nat, b : Nat, step : Nat]
TypeInv ==
    /\ call \in Calls /\ chunksize \in Nat \ {0}
    /\ start \in Nat /\ Start <= start
    /\ phase \in Nat /\ phase <= Stop
    /\ lastblock \in [Ids -> Nat]
    /\ donecount \in Nat /\ activesheps \in Nat
    /\ pc \in [Ids -> Labels]
    /\ ret \in [Ids -> Nat] /\ ph \in [Ids -> Nat] /\ sheps \in [Ids -> Nat] /\ iters \in [Ids -> Int]
    /\ range \in [Ids -> Ranges]
    /\ cpc \in {"create", "wait", "returned"}
    /\ ran \in [Iters -> Nat]

\* Who is in the loop, or about to join it.
In == {w \in Ids : pc[w] \notin {"none", "done"}}

\* activesheps counts them and those who have left by the end of get_iters, donecount the
\* latter.
CountInv ==
    /\ activesheps = donecount + Cardinality(In)
    /\ cpc = "create" => activesheps = 0 /\ donecount = 0 /\ In = {}
    /\ cpc = "returned" <=> freed
    /\ freed => In = {}

\* The worker that is in the loop from the beginning.
First == IF call.there = -1 THEN 0 ELSE call.there

\* Only the worker of a disabled shepherd leaves before the queue is exhausted.
LeaveInv ==
    /\ Ids \ call.off \subseteq enabled
    /\ cpc # "create" => pc[First] # "none"
    /\ \A w \in Ids : /\ pc[w] = "exit" => start >= Stop
                      /\ pc[w] = "done" => start >= Stop \/ w \notin enabled

\* What a worker has computed, when it tries to move iq->start from ret to ret + iters.
Fits(w) == /\ ret[w] < Stop => 1 <= iters[w] /\ ret[w] + iters[w] <= Stop
           /\ ret[w] >= Stop => ret[w] + iters[w] >= Stop
LocalAt(w) ==
    /\ ret[w] >= Stop => start >= Stop
    /\ pc[w] \in {"g_read", "g_cas"} => Type = "GUIDED" /\ sheps[w] >= 1
    /\ pc[w] \in {"f_read", "f_phase", "f_cas"} => Type = "FACTORED" /\ sheps[w] >= 1 /\ ph[w] <= Stop
    /\ pc[w] \in {"g_cas", "f_cas"} => Fits(w)
    /\ pc[w] = "c_incr" => Type = "CHUNK"
    /\ pc[w] = "t_cas" => Type = "TIMED" /\ ret[w] < Stop /\ (sheps[w] = 0 => iters[w] >= 1)
    /\ Type = "TIMED" /\ range[w].step # 0 => lastblock[w] >= 1
LocalInv == \A w \in Ids : LocalAt(w)

\* Iterations below start have been run, or are in the range of one worker.
Has(w, i) == pc[w] = "func" /\ range[w].a <= i /\ i < range[w].b
RangeInv ==
    /\ \A w \in Ids : pc[w] = "func" =>
          Start <= range[w].a /\ range[w].a < range[w].b /\ range[w].b <= Stop /\ range[w].b <= start
    /\ \A i \in Iters : /\ ran[i] <= 1
                        /\ i >= start => ran[i] = 0
                        /\ i < start => ran[i] = 1 \/ \E w \in Ids : Has(w, i)
                        /\ \A w \in Ids : Has(w, i) => ran[i] = 0 /\ \A v \in Ids : Has(v, i) => v = w

Inv == TypeInv /\ CountInv /\ LeaveInv /\ LocalInv /\ RangeInv

\* What C's division gives, as a number of iterations.
LEMMA Shares ==
    ASSUME NEW n \in Int, NEW s \in Nat \ {0}
    PROVE  /\ AtLeastOne(Quot(n, s)) \in Int
           /\ n > 0 => 1 <= AtLeastOne(Quot(n, s)) /\ AtLeastOne(Quot(n, s)) <= n
           /\ n = 0 => AtLeastOne(Quot(n, s)) = 1
           /\ n < 0 => AtLeastOne(Quot(n, s)) >= n
<1>1. ASSUME NEW m \in Nat PROVE m \div s \in Nat /\ m \div s <= m
  OBVIOUS
<1>2. CASE n >= 0
  BY <1>1, <1>2 DEF AtLeastOne, Quot
<1>3. CASE n < 0
  <2>1. -n \in Nat
    BY <1>3
  <2>2. (-n) \div s \in Nat /\ (-n) \div s <= -n
    BY Zenon, <1>1, <2>1
  <2> QED BY <1>3, <2>2 DEF AtLeastOne, Quot
<1> QED BY <1>2, <1>3

\* A new phase begins where half of what is left has been taken, or before.
LEMMA NewPhase ==
    ASSUME NEW n \in Nat, NEW z \in Nat, n < z, NEW s \in Nat \ {0}
    PROVE  LET new == n + Quot(z - Quot(z + n, 2), s) * s IN new \in Nat /\ new <= z
<1> DEFINE h == (z + n) \div 2
<1>1. h \in Nat /\ n <= h /\ h <= z
  OBVIOUS
<1>2. Quot(z + n, 2) = h
  BY DEF Quot
<1>3. PICK k \in Nat : k = z - h
  BY <1>1
<1>4. Quot(k, s) = k \div s
  BY DEF Quot
<1>5. k \div s \in Nat /\ (k \div s) * s \in Nat /\ (k \div s) * s <= k
  OBVIOUS
<1> HIDE DEF h
<1> QED BY <1>1, <1>2, <1>3, <1>4, <1>5

\* A block of the timed queue.
LEMMA TimedBlock ==
    ASSUME NEW n \in Nat, NEW z \in Nat, n < z, NEW s \in Nat, NEW k \in Nat \ {0}
    PROVE  s > 0 => ((z - n) \div (2 * s * k)) + 1 \in Nat \ {0}
<1> SUFFICES ASSUME s > 0 PROVE ((z - n) \div (2 * s * k)) + 1 \in Nat \ {0}
  BY Zenon
<1>1. PICK m \in Nat \ {0} : m = 2 * s * k
  <2>1. s * k \in Nat \ {0}
    OBVIOUS
  <2> QED BY <2>1
<1>2. PICK d \in Nat : d = z - n
  OBVIOUS
<1>3. d \div m \in Nat
  OBVIOUS
<1> QED BY <1>1, <1>2, <1>3

\* Worker ids are finitely many, and the one that addworker uses is nobody else's.
LEMMA Workers ==
    ASSUME LoopAssumption
    PROVE  /\ MaxWorker \in Nat /\ \A c \in Calls : c.workers <= MaxWorker
           /\ IsFiniteSet(Ids)
<1>1. PICK m \in Calls : \A c \in Calls : c.workers <= m.workers
  BY Zenon DEF LoopAssumption
<1>2. /\ MaxWorker \in {c.workers : c \in Calls}
      /\ \A c \in Calls : c.workers <= MaxWorker
  <2>1. \E n \in {c.workers : c \in Calls} : \A c \in Calls : c.workers <= n
    BY Zenon, <1>1
  <2> QED BY Zenon, <2>1 DEF MaxWorker
<1>3. MaxWorker \in Nat
  BY Zenon, <1>2 DEF LoopAssumption
<1> QED BY <1>2, <1>3, FS_Interval DEF Ids

LEMMA FirstIsAWorker ==
    ASSUME LoopAssumption, Inv
    PROVE  First \in Ids /\ First # MaxWorker
<1>1. call \in Calls
  BY Zenon DEF Inv, TypeInv
<1>2. call.workers \in Nat \ {0} /\ call.there \in -1..(call.workers - 1) /\ call.workers <= MaxWorker /\ MaxWorker \in Nat
  BY Zenon, <1>1, Workers DEF LoopAssumption
<1> QED BY <1>2 DEF First, Ids

\* A step of get_iters in worker w: what is another worker's stays, w stays in the loop, and
\* start moves on either past the end or over the range that w has taken.
OthersKeep(w) == \A v \in Ids \ {w} :
    /\ pc'[v] = pc[v] /\ range'[v] = range[v] /\ lastblock'[v] = lastblock[v]
    /\ ret'[v] = ret[v] /\ ph'[v] = ph[v] /\ iters'[v] = iters[v] /\ sheps'[v] = sheps[v]
Takes(w) == /\ range'[w].a = start /\ start < range'[w].b /\ range'[w].b <= Stop
            /\ range'[w].b <= start' /\ (range'[w].b = start' \/ range'[w].b = Stop)
GetStep(w) ==
    /\ Unshared /\ OthersKeep(w)
    /\ pc[w] \notin {"none", "done", "func"} /\ pc'[w] \notin {"none", "done"}
    /\ pc'[w] = "exit" => start' >= Stop
    /\ IF pc'[w] = "func" THEN Takes(w) ELSE start' = start \/ (start >= Stop /\ start' >= Stop)

LEMMA RangeKept ==
    ASSUME LoopAssumption, TypeInv, TypeInv', RangeInv, ran' = ran,
           \A v \in Ids : (pc'[v] = "func" <=> pc[v] = "func") /\ (pc[v] = "func" => range'[v] = range[v]),
           start' = start \/ (start >= Stop /\ start' >= Stop)
    PROVE  RangeInv'
<1>1. ASSUME NEW v \in Ids, NEW i \in Iters PROVE Has(v, i)' <=> Has(v, i)
  BY Zenon DEF Has
<1>2. \A v \in Ids : (pc[v] = "func")' => pc[v] = "func" /\ range'[v] = range[v]
  BY Zenon
<1>3. start' >= start \/ (start >= Stop /\ start' >= Stop)
  BY DEF TypeInv, Ranges
<1>4. ASSUME NEW i \in Iters PROVE i \in Int /\ i < Stop /\ (i < start <=> i < start') /\ (i >= start <=> i >= start')
  <2>1. i \in Int /\ i < Stop
    BY DEF Iters, LoopAssumption
  <2>2. start \in Int /\ start' \in Int /\ Stop \in Int
    BY DEF TypeInv, Ranges, LoopAssumption
  <2> QED BY <2>1, <2>2
<1>5. ASSUME NEW v \in Ids, pc'[v] = "func"
      PROVE  (Start <= range[v].a /\ range[v].a < range[v].b /\ range[v].b <= Stop /\ range[v].b <= start)'
  BY <1>2, <1>3, <1>5 DEF RangeInv, TypeInv, Ranges, LoopAssumption
<1>6. ASSUME NEW i \in Iters
      PROVE  (/\ ran[i] <= 1
              /\ i >= start => ran[i] = 0
              /\ i < start => ran[i] = 1 \/ \E v \in Ids : Has(v, i)
              /\ \A v \in Ids : Has(v, i) => ran[i] = 0 /\ \A u \in Ids : Has(u, i) => u = v)'
  BY Zenon, <1>1, <1>4 DEF RangeInv
<1> QED BY Zenon, <1>5, <1>6 DEF RangeInv, Iters

LEMMA RangeTaken ==
    ASSUME LoopAssumption, TypeInv, TypeInv', RangeInv, NEW w \in Ids, ran' = ran,
           \A v \in Ids \ {w} : pc'[v] = pc[v] /\ range'[v] = range[v],
           pc[w] # "func", pc'[w] = "func", Takes(w)
    PROVE  RangeInv'
<1>1. ASSUME NEW v \in Ids, v # w, NEW i \in Iters PROVE Has(v, i)' <=> Has(v, i)
  BY Zenon, <1>1 DEF Has
<1>2. ASSUME NEW i \in Iters PROVE Has(w, i)' <=> start <= i /\ i < start'
  <2>1. i \in Int /\ i < Stop
    BY DEF Iters, LoopAssumption
  <2>2. start \in Int /\ start' \in Int /\ Stop \in Int
    BY DEF TypeInv, Ranges, LoopAssumption
  <2>3. range'[w] \in Ranges
    BY Zenon DEF TypeInv, Ranges
  <2>4. Has(w, i)' <=> start <= i /\ i < range'[w].b
    BY Zenon DEF Has, Takes
  <2> QED BY <2>1, <2>2, <2>3, <2>4 DEF Takes, Ranges
<1>3. ASSUME NEW i \in Iters PROVE ~Has(w, i)
  BY Zenon DEF Has
<1>4. ASSUME NEW v \in Ids, NEW i \in Iters, Has(v, i) PROVE i < start
  <2>1. range[v].b <= start /\ i < range[v].b
    BY Zenon, <1>4 DEF RangeInv, Has
  <2>2. range[v] \in Ranges /\ start \in Nat /\ i \in Int
    BY DEF TypeInv, Ranges, Iters, LoopAssumption
  <2> QED BY <2>1, <2>2 DEF Ranges
<1>5. ASSUME NEW i \in Iters PROVE i \in Int /\ i < Stop
  BY DEF Iters, LoopAssumption
<1>6. start < start' /\ start \in Int /\ start' \in Int
  BY DEF Takes, TypeInv, Ranges
<1>7. ASSUME NEW v \in Ids, pc'[v] = "func"
      PROVE  (Start <= range[v].a /\ range[v].a < range[v].b /\ range[v].b <= Stop /\ range[v].b <= start)'
  <2>1. CASE v = w
    BY Zenon, <2>1 DEF Takes, TypeInv, Ranges, LoopAssumption
  <2>2. CASE v # w
    BY <2>2, <1>7, <1>6 DEF RangeInv, TypeInv, Ranges, LoopAssumption
  <2> QED BY Zenon, <2>1, <2>2
<1>8. ASSUME NEW i \in Iters
      PROVE  (/\ ran[i] <= 1
              /\ i >= start => ran[i] = 0
              /\ i < start => ran[i] = 1 \/ \E v \in Ids : Has(v, i)
              /\ \A v \in Ids : Has(v, i) => ran[i] = 0 /\ \A u \in Ids : Has(u, i) => u = v)'
  <2>1. ran'[i] <= 1 /\ (i >= start' => ran'[i] = 0)
    BY <1>5, <1>6 DEF RangeInv
  <2>2. i < start' => ran'[i] = 1 \/ \E v \in Ids : Has(v, i)'
    <3>1. CASE i < start
      <4>1. ran[i] = 1 \/ \E v \in Ids : Has(v, i)
        BY Zenon, <3>1 DEF RangeInv
      <4> QED BY Zenon, <4>1, <1>1, <1>3
    <3>2. CASE i >= start
      BY Zenon, <3>2, <1>2
    <3> QED BY <3>1, <3>2, <1>5, <1>6
  <2>3. ASSUME NEW v \in Ids, Has(v, i)'
        PROVE  ran'[i] = 0 /\ \A u \in Ids : Has(u, i)' => u = v
    <3>1. CASE v = w
      <4>1. i >= start
        BY Zenon, <2>3, <3>1, <1>2
      <4>2. \A u \in Ids : ~Has(u, i)
        BY <4>1, <1>4, <1>5, <1>6
      <4> QED BY Zenon, <4>1, <4>2, <1>1, <3>1 DEF RangeInv
    <3>2. CASE v # w
      <4>1. Has(v, i) /\ i < start
        BY Zenon, <2>3, <3>2, <1>1, <1>4
      <4>2. ~Has(w, i)'
        BY <4>1, <1>2, <1>5, <1>6
      <4> QED BY Zenon, <4>1, <4>2, <1>1 DEF RangeInv
    <3> QED BY Zenon, <3>1, <3>2
  <2> QED BY Zenon, <2>1, <2>2, <2>3
<1> QED BY Zenon, <1>7, <1>8 DEF RangeInv, Iters

\* What concerns only the workers themselves, in any step of worker w.
LEMMA OwnStep ==
    ASSUME LoopAssumption, Inv, NEW w \in Ids, OthersKeep(w), UNCHANGED rest, LocalAt(w)',
           start >= Stop => start' >= Stop, pc[w] # "none", pc'[w] # "none",
           pc'[w] = "exit" => start' >= Stop, pc'[w] = "done" => start' >= Stop \/ w \notin enabled
    PROVE  LeaveInv' /\ LocalInv'
<1>1. LeaveInv'
  <2>1. \A v \in Ids : pc'[v] = "none" <=> pc[v] = "none"
    BY Zenon DEF OthersKeep
  <2>2. First \in Ids
    BY Zenon, FirstIsAWorker
  <2>3. call' = call /\ cpc' = cpc /\ enabled' = enabled /\ First' = First
    BY Zenon DEF rest, First
  <2>4. \A v \in Ids : /\ pc'[v] = "exit" => start' >= Stop
                       /\ pc'[v] = "done" => start' >= Stop \/ v \notin enabled'
    BY Zenon, <2>3 DEF OthersKeep, Inv, LeaveInv
  <2> QED BY Zenon, <2>1, <2>2, <2>3, <2>4 DEF Inv, LeaveInv
<1>2. ASSUME NEW v \in Ids, v # w PROVE LocalAt(v)'
  BY Zenon, <1>2 DEF OthersKeep, rest, Inv, LocalInv, LocalAt, Fits, Type
<1> QED BY Zenon, <1>1, <1>2 DEF LocalInv

\* A step of get_iters keeps the invariant, if it keeps what concerns only w.
LEMMA GetStepKeeps ==
    ASSUME LoopAssumption, Inv, NEW w \in Ids, GetStep(w), TypeInv', LocalAt(w)'
    PROVE  Inv'
<1>1. start >= Stop => start' >= Stop
  BY DEF GetStep, Takes, Inv, TypeInv, Ranges, LoopAssumption
<1>2. LeaveInv' /\ LocalInv'
  BY Zenon, <1>1, OwnStep DEF GetStep, Unshared
<1>3. In' = In
  BY Zenon DEF GetStep, OthersKeep, In
<1>4. CountInv'
  BY Zenon, <1>3 DEF GetStep, Unshared, rest, Inv, CountInv
<1>5. CASE pc'[w] = "func"
  BY Zenon, <1>2, <1>4, <1>5, RangeTaken DEF GetStep, OthersKeep, Unshared, Inv
<1>6. CASE pc'[w] # "func"
  BY Zenon, <1>2, <1>4, <1>6, RangeKept DEF GetStep, OthersKeep, Unshared, Inv
<1> QED BY Zenon, <1>5, <1>6

LEMMA Active ==
    ASSUME LoopAssumption, Inv, NEW w \in Ids, pc[w] \notin {"none", "done"}
    PROVE  activesheps \in Nat \ {0}
<1>1. IsFiniteSet(In)
  BY Zenon, Workers, FS_Subset DEF In
<1>2. In # {}
  BY Zenon DEF In
<1>3. Cardinality(In) \in Nat /\ Cardinality(In) # 0
  BY Zenon, <1>1, <1>2, FS_CardinalityType, FS_EmptySet
<1> QED BY <1>3 DEF Inv, TypeInv, CountInv

LEMMA RangeType ==
    ASSUME LoopAssumption
    PROVE  NoRange \in Ranges /\ \A m, n \in Nat : [a |-> m, b |-> n, step |-> Step] \in Ranges
BY Zenon DEF LoopAssumption, NoRange, Ranges

LEMMA Step_single == ASSUME LoopAssumption, Inv, NEW w \in Ids, single(w) PROVE Inv'
<1>1. activesheps \in Nat \ {0}
  BY Zenon, Active DEF single
<1>2. TypeInv'
  <2>1. pc' \in [Ids -> Labels]
    BY Zenon DEF single, Took, Nothing, Set, Goto, Inv, TypeInv, Labels
  <2>2. range' \in [Ids -> Ranges]
    <3>1. start \in Nat /\ Stop \in Nat /\ range \in [Ids -> Ranges] /\ chunksize \in Nat
      BY Zenon DEF Inv, TypeInv, LoopAssumption
    <3>2. start + chunksize \in Nat
      BY <3>1 DEF single, Inv, TypeInv, LocalInv, LocalAt, Fits, LoopAssumption
    <3> QED BY Zenon, <3>1, <3>2, RangeType DEF single, Took, Nothing, Set
  <2>3. ret' \in [Ids -> Nat] /\ ph' \in [Ids -> Nat] /\ lastblock' \in [Ids -> Nat]
    BY Zenon DEF single, queue, Set, Inv, TypeInv
  <2>4. sheps' \in [Ids -> Nat] /\ iters' \in [Ids -> Int]
    BY Zenon, <1>1, Shares DEF single, Set, Inv, TypeInv, LocalInv, LocalAt, LoopAssumption
  <2>5. start' \in Nat /\ Start <= start' /\ phase' \in Nat /\ phase' <= Stop
    BY Zenon DEF single, queue, Inv, TypeInv, LocalInv, LocalAt, Fits, LoopAssumption
  <2> QED BY Zenon, <2>1, <2>2, <2>3, <2>4, <2>5 DEF single, Unshared, rest, Inv, TypeInv
<1>3. GetStep(w)
  BY <1>1 DEF single, Took, Nothing, Set, Goto, Unshared, queue, rest, GetStep, OthersKeep, Takes, Inv, TypeInv, Ranges, LocalInv, LocalAt, Fits, LoopAssumption, NoRange
<1>4. LocalAt(w)'
  <2>1. pc'[w] \in {"func", "exit"} /\ ret'[w] = ret[w] /\ Type' # "TIMED" /\ (start >= Stop => start' >= Stop)
    BY DEF single, Took, Nothing, Set, Goto, Unshared, rest, Type, Inv, TypeInv, LoopAssumption
  <2>2. ret[w] >= Stop => start >= Stop
    BY Zenon DEF Inv, LocalInv, LocalAt
  <2> QED BY Zenon, <2>1, <2>2 DEF LocalAt
<1> QED BY Zenon, <1>2, <1>3, <1>4, GetStepKeeps

LEMMA Step_guided == ASSUME LoopAssumption, Inv, NEW w \in Ids, guided(w) PROVE Inv'
<1>1. activesheps \in Nat \ {0}
  BY Zenon, Active DEF guided
<1>2. TypeInv'
  <2>1. pc' \in [Ids -> Labels]
    BY Zenon DEF guided, Took, Nothing, Set, Goto, Inv, TypeInv, Labels
  <2>2. range' \in [Ids -> Ranges]
    BY DEF guided, Took, Nothing, Set, Inv, TypeInv, Ranges, NoRange, LoopAssumption, LocalInv, LocalAt, Fits
  <2>3. ret' \in [Ids -> Nat] /\ ph' \in [Ids -> Nat] /\ lastblock' \in [Ids -> Nat]
    BY Zenon DEF guided, queue, Set, Inv, TypeInv
  <2>4. sheps' \in [Ids -> Nat] /\ iters' \in [Ids -> Int]
    BY Zenon, <1>1, Shares DEF guided, Set, Inv, TypeInv, LocalInv, LocalAt, LoopAssumption
  <2>5. start' \in Nat /\ Start <= start' /\ phase' \in Nat /\ phase' <= Stop
    BY Zenon DEF guided, queue, Inv, TypeInv, LocalInv, LocalAt, Fits, LoopAssumption
  <2> QED BY Zenon, <2>1, <2>2, <2>3, <2>4, <2>5 DEF guided, Unshared, rest, Inv, TypeInv
<1>3. GetStep(w)
  BY <1>1 DEF guided, Took, Nothing, Set, Goto, Unshared, queue, rest, GetStep, OthersKeep, Takes, Inv, TypeInv, Ranges, LocalInv, LocalAt, Fits, LoopAssumption, NoRange
<1>4. LocalAt(w)'
  <2>1. /\ pc'[w] \in {"g_read", "exit"} /\ Type' = "GUIDED"
        /\ ret'[w] = start /\ start' = start /\ sheps'[w] = activesheps
    BY Zenon DEF guided, Nothing, Set, Goto, Unshared, rest, queue, Type, Inv, TypeInv
  <2> QED BY <1>1, <2>1 DEF LocalAt
<1> QED BY Zenon, <1>2, <1>3, <1>4, GetStepKeeps

LEMMA Step_guided_read == ASSUME LoopAssumption, Inv, NEW w \in Ids, guided_read(w) PROVE Inv'
<1>1. activesheps \in Nat \ {0}
  BY Zenon, Active DEF guided_read
<1>2. TypeInv'
  <2>1. pc' \in [Ids -> Labels]
    BY Zenon DEF guided_read, Took, Nothing, Set, Goto, Inv, TypeInv, Labels
  <2>2. range' \in [Ids -> Ranges]
    BY Zenon DEF guided_read, Took, Nothing, Set, Inv, TypeInv, Ranges, NoRange, LoopAssumption, LocalInv, LocalAt, Fits
  <2>3. ret' \in [Ids -> Nat] /\ ph' \in [Ids -> Nat] /\ lastblock' \in [Ids -> Nat]
    BY Zenon DEF guided_read, queue, Set, Inv, TypeInv
  <2>4. sheps' \in [Ids -> Nat] /\ iters' \in [Ids -> Int]
    <3>1. Stop - start \in Int /\ sheps[w] \in Nat \ {0} /\ sheps \in [Ids -> Nat] /\ iters \in [Ids -> Int]
      BY DEF guided_read, Inv, TypeInv, LocalInv, LocalAt, LoopAssumption
    <3>2. AtLeastOne(Quot(Stop - start, sheps[w])) \in Int
      BY Zenon, <3>1, Shares
    <3> QED BY Zenon, <3>1, <3>2 DEF guided_read, Set
  <2>5. start' \in Nat /\ Start <= start' /\ phase' \in Nat /\ phase' <= Stop
    BY Zenon DEF guided_read, queue, Inv, TypeInv, LocalInv, LocalAt, Fits, LoopAssumption
  <2> QED BY Zenon, <2>1, <2>2, <2>3, <2>4, <2>5 DEF guided_read, Unshared, rest, Inv, TypeInv
<1>3. GetStep(w)
  BY Zenon, <1>1 DEF guided_read, Took, Nothing, Set, Goto, Unshared, queue, rest, GetStep, OthersKeep, Takes, Inv, TypeInv, Ranges, LocalInv, LocalAt, Fits, LoopAssumption, NoRange
<1>4. LocalAt(w)'
  <2>1. /\ pc'[w] = "g_cas" /\ Type' = "GUIDED" /\ sheps'[w] >= 1
        /\ ret'[w] = start /\ start' = start /\ sheps[w] \in Nat \ {0}
        /\ iters'[w] = AtLeastOne(Quot(Stop - start, sheps[w]))
    BY DEF guided_read, Set, Goto, Unshared, rest, queue, Type, Inv, TypeInv, LocalInv, LocalAt
  <2>2. Stop - start \in Int /\ start \in Int /\ Stop \in Int
    BY DEF Inv, TypeInv, LoopAssumption
  <2>3. PICK n \in Int : n = Stop - start
    BY Zenon, <2>2
  <2>4. PICK q \in Int : q = AtLeastOne(Quot(n, sheps[w]))
    BY Zenon, <2>1, <2>3, Shares
  <2>5. (n > 0 => 1 <= q /\ q <= n) /\ (n = 0 => q = 1) /\ (n < 0 => q >= n)
    BY Zenon, <2>1, <2>4, Shares
  <2>6. Fits(w)'
    BY <2>1, <2>2, <2>3, <2>4, <2>5 DEF Fits
  <2> QED BY Zenon, <2>1, <2>6 DEF LocalAt
<1> QED BY Zenon, <1>2, <1>3, <1>4, GetStepKeeps

LEMMA Step_guided_cas == ASSUME LoopAssumption, Inv, NEW w \in Ids, guided_cas(w) PROVE Inv'
<1>1. activesheps \in Nat \ {0}
  BY Zenon, Active DEF guided_cas
<1>2. TypeInv'
  <2>1. pc' \in [Ids -> Labels]
    BY Zenon DEF guided_cas, Took, Nothing, Set, Goto, Inv, TypeInv, Labels
  <2>2. range' \in [Ids -> Ranges]
    BY DEF guided_cas, Took, Nothing, Set, Inv, TypeInv, Ranges, NoRange, LoopAssumption, LocalInv, LocalAt, Fits
  <2>3. ret' \in [Ids -> Nat] /\ ph' \in [Ids -> Nat] /\ lastblock' \in [Ids -> Nat]
    BY Zenon DEF guided_cas, queue, Set, Inv, TypeInv
  <2>4. sheps' \in [Ids -> Nat] /\ iters' \in [Ids -> Int]
    BY Zenon, <1>1, Shares DEF guided_cas, Set, Inv, TypeInv, LocalInv, LocalAt, LoopAssumption
  <2>5. start' \in Nat /\ Start <= start' /\ phase' \in Nat /\ phase' <= Stop
    BY DEF guided_cas, queue, Inv, TypeInv, LocalInv, LocalAt, Fits, LoopAssumption
  <2> QED BY Zenon, <2>1, <2>2, <2>3, <2>4, <2>5 DEF guided_cas, Unshared, rest, Inv, TypeInv
<1>3. GetStep(w)
  BY <1>1 DEF guided_cas, Took, Nothing, Set, Goto, Unshared, queue, rest, GetStep, OthersKeep, Takes, Inv, TypeInv, Ranges, LocalInv, LocalAt, Fits, LoopAssumption, NoRange
<1>4. LocalAt(w)'
  BY <1>1, Shares DEF guided_cas, Took, Nothing, Set, Goto, Unshared, queue, rest, Inv, TypeInv, LocalInv, LocalAt, Fits, Type, LoopAssumption, NoRange
<1> QED BY Zenon, <1>2, <1>3, <1>4, GetStepKeeps

LEMMA Step_factored == ASSUME LoopAssumption, Inv, NEW w \in Ids, factored(w) PROVE Inv'
<1>1. activesheps \in Nat \ {0}
  BY Zenon, Active DEF factored
<1>2. TypeInv'
  <2>1. pc' \in [Ids -> Labels]
    BY Zenon DEF factored, Took, Nothing, Set, Goto, Inv, TypeInv, Labels
  <2>2. range' \in [Ids -> Ranges]
    BY DEF factored, Took, Nothing, Set, Inv, TypeInv, Ranges, NoRange, LoopAssumption, LocalInv, LocalAt, Fits
  <2>3. ret' \in [Ids -> Nat] /\ ph' \in [Ids -> Nat] /\ lastblock' \in [Ids -> Nat]
    BY Zenon DEF factored, queue, Set, Inv, TypeInv
  <2>4. sheps' \in [Ids -> Nat] /\ iters' \in [Ids -> Int]
    BY Zenon, <1>1, Shares DEF factored, Set, Inv, TypeInv, LocalInv, LocalAt, LoopAssumption
  <2>5. start' \in Nat /\ Start <= start' /\ phase' \in Nat /\ phase' <= Stop
    BY Zenon DEF factored, queue, Inv, TypeInv, LocalInv, LocalAt, Fits, LoopAssumption
  <2> QED BY Zenon, <2>1, <2>2, <2>3, <2>4, <2>5 DEF factored, Unshared, rest, Inv, TypeInv
<1>3. GetStep(w)
  BY <1>1 DEF factored, Took, Nothing, Set, Goto, Unshared, queue, rest, GetStep, OthersKeep, Takes, Inv, TypeInv, Ranges, LocalInv, LocalAt, Fits, LoopAssumption, NoRange
<1>4. LocalAt(w)'
  <2>1. /\ pc'[w] \in {"f_read", "exit"} /\ Type' = "FACTORED" /\ ph'[w] = phase
        /\ ret'[w] = start /\ start' = start /\ sheps'[w] = activesheps
    BY Zenon DEF factored, Nothing, Set, Goto, Unshared, rest, queue, Type, Inv, TypeInv
  <2>2. phase <= Stop
    BY Zenon DEF Inv, TypeInv
  <2> QED BY <1>1, <2>1, <2>2 DEF LocalAt
<1> QED BY Zenon, <1>2, <1>3, <1>4, GetStepKeeps

LEMMA Step_factored_read == ASSUME LoopAssumption, Inv, NEW w \in Ids, factored_read(w) PROVE Inv'
<1>1. activesheps \in Nat \ {0}
  BY Zenon, Active DEF factored_read
<1>2. TypeInv'
  <2>1. pc' \in [Ids -> Labels]
    BY Zenon DEF factored_read, Took, Nothing, Set, Goto, Inv, TypeInv, Labels
  <2>2. range' \in [Ids -> Ranges]
    BY Zenon DEF factored_read, Took, Nothing, Set, Inv, TypeInv, Ranges, NoRange, LoopAssumption, LocalInv, LocalAt, Fits
  <2>3. ret' \in [Ids -> Nat] /\ ph' \in [Ids -> Nat] /\ lastblock' \in [Ids -> Nat]
    BY Zenon DEF factored_read, queue, Set, Inv, TypeInv
  <2>4. sheps' \in [Ids -> Nat] /\ iters' \in [Ids -> Int]
    BY Zenon, <1>1, Shares DEF factored_read, Set, Inv, TypeInv, LocalInv, LocalAt, LoopAssumption
  <2>5. start' \in Nat /\ Start <= start' /\ phase' \in Nat /\ phase' <= Stop
    BY Zenon DEF factored_read, queue, Inv, TypeInv, LocalInv, LocalAt, Fits, LoopAssumption
  <2> QED BY Zenon, <2>1, <2>2, <2>3, <2>4, <2>5 DEF factored_read, Unshared, rest, Inv, TypeInv
<1>3. GetStep(w)
  BY Zenon, <1>1 DEF factored_read, Took, Nothing, Set, Goto, Unshared, queue, rest, GetStep, OthersKeep, Takes, Inv, TypeInv, Ranges, LocalInv, LocalAt, Fits, LoopAssumption, NoRange
<1>4. LocalAt(w)'
  BY Zenon, <1>1, Shares DEF factored_read, Took, Nothing, Set, Goto, Unshared, queue, rest, Inv, TypeInv, LocalInv, LocalAt, Fits, Type, LoopAssumption, NoRange
<1> QED BY Zenon, <1>2, <1>3, <1>4, GetStepKeeps

LEMMA Step_factored_cas == ASSUME LoopAssumption, Inv, NEW w \in Ids, factored_cas(w) PROVE Inv'
<1>1. activesheps \in Nat \ {0}
  BY Zenon, Active DEF factored_cas
<1>2. TypeInv'
  <2>1. pc' \in [Ids -> Labels]
    BY Zenon DEF factored_cas, Took, Nothing, Set, Goto, Inv, TypeInv, Labels
  <2>2. range' \in [Ids -> Ranges]
    <3>1. start \in Nat /\ Stop \in Nat /\ range \in [Ids -> Ranges] /\ chunksize \in Nat
      BY Zenon DEF Inv, TypeInv, LoopAssumption
    <3>2. ret[w] < Stop => ret[w] \in Nat /\ ret[w] + iters[w] \in Nat
      BY <3>1 DEF factored_cas, Inv, TypeInv, LocalInv, LocalAt, Fits, LoopAssumption
    <3> QED BY Zenon, <3>1, <3>2, RangeType DEF factored_cas, Took, Nothing, Set
  <2>3. ret' \in [Ids -> Nat] /\ ph' \in [Ids -> Nat] /\ lastblock' \in [Ids -> Nat]
    BY Zenon DEF factored_cas, queue, Set, Inv, TypeInv
  <2>4. sheps' \in [Ids -> Nat] /\ iters' \in [Ids -> Int]
    BY Zenon, <1>1, Shares DEF factored_cas, Set, Inv, TypeInv, LocalInv, LocalAt, LoopAssumption
  <2>5. start' \in Nat /\ Start <= start' /\ phase' \in Nat /\ phase' <= Stop
    BY DEF factored_cas, queue, Inv, TypeInv, LocalInv, LocalAt, Fits, LoopAssumption
  <2> QED BY Zenon, <2>1, <2>2, <2>3, <2>4, <2>5 DEF factored_cas, Unshared, rest, Inv, TypeInv
<1>3. GetStep(w)
  BY <1>1 DEF factored_cas, Took, Nothing, Set, Goto, Unshared, queue, rest, GetStep, OthersKeep, Takes, Inv, TypeInv, Ranges, LocalInv, LocalAt, Fits, LoopAssumption, NoRange
<1>4. LocalAt(w)'
  BY Zenon, <1>1, Shares DEF factored_cas, Took, Nothing, Set, Goto, Unshared, queue, rest, Inv, TypeInv, LocalInv, LocalAt, Fits, Type, LoopAssumption, NoRange
<1> QED BY Zenon, <1>2, <1>3, <1>4, GetStepKeeps

LEMMA Step_chunked == ASSUME LoopAssumption, Inv, NEW w \in Ids, chunked(w) PROVE Inv'
<1>1. activesheps \in Nat \ {0}
  BY Zenon, Active DEF chunked
<1>2. TypeInv'
  <2>1. pc' \in [Ids -> Labels]
    BY Zenon DEF chunked, Took, Nothing, Set, Goto, Inv, TypeInv, Labels
  <2>2. range' \in [Ids -> Ranges]
    BY DEF chunked, Took, Nothing, Set, Inv, TypeInv, Ranges, NoRange, LoopAssumption, LocalInv, LocalAt, Fits
  <2>3. ret' \in [Ids -> Nat] /\ ph' \in [Ids -> Nat] /\ lastblock' \in [Ids -> Nat]
    BY Zenon DEF chunked, queue, Set, Inv, TypeInv
  <2>4. sheps' \in [Ids -> Nat] /\ iters' \in [Ids -> Int]
    BY Zenon, <1>1, Shares DEF chunked, Set, Inv, TypeInv, LocalInv, LocalAt, LoopAssumption
  <2>5. start' \in Nat /\ Start <= start' /\ phase' \in Nat /\ phase' <= Stop
    BY Zenon DEF chunked, queue, Inv, TypeInv, LocalInv, LocalAt, Fits, LoopAssumption
  <2> QED BY Zenon, <2>1, <2>2, <2>3, <2>4, <2>5 DEF chunked, Unshared, rest, Inv, TypeInv
<1>3. GetStep(w)
  BY <1>1 DEF chunked, Took, Nothing, Set, Goto, Unshared, queue, rest, GetStep, OthersKeep, Takes, Inv, TypeInv, Ranges, LocalInv, LocalAt, Fits, LoopAssumption, NoRange
<1>4. LocalAt(w)'
  BY Zenon, <1>1, Shares DEF chunked, Took, Nothing, Set, Goto, Unshared, queue, rest, Inv, TypeInv, LocalInv, LocalAt, Fits, Type, LoopAssumption, NoRange
<1> QED BY Zenon, <1>2, <1>3, <1>4, GetStepKeeps

LEMMA Step_chunked_incr == ASSUME LoopAssumption, Inv, NEW w \in Ids, chunked_incr(w) PROVE Inv'
<1>1. activesheps \in Nat \ {0}
  BY Zenon, Active DEF chunked_incr
<1>2. TypeInv'
  <2>1. pc' \in [Ids -> Labels]
    BY Zenon DEF chunked_incr, Took, Nothing, Set, Goto, Inv, TypeInv, Labels
  <2>2. range' \in [Ids -> Ranges]
    <3>1. start \in Nat /\ Stop \in Nat /\ range \in [Ids -> Ranges] /\ chunksize \in Nat
      BY Zenon DEF Inv, TypeInv, LoopAssumption
    <3>2. start + chunksize \in Nat
      BY <3>1 DEF chunked_incr, Inv, TypeInv, LocalInv, LocalAt, Fits, LoopAssumption
    <3> QED BY Zenon, <3>1, <3>2, RangeType DEF chunked_incr, Took, Nothing, Set
  <2>3. ret' \in [Ids -> Nat] /\ ph' \in [Ids -> Nat] /\ lastblock' \in [Ids -> Nat]
    BY Zenon DEF chunked_incr, queue, Set, Inv, TypeInv
  <2>4. sheps' \in [Ids -> Nat] /\ iters' \in [Ids -> Int]
    BY Zenon, <1>1, Shares DEF chunked_incr, Set, Inv, TypeInv, LocalInv, LocalAt, LoopAssumption
  <2>5. start' \in Nat /\ Start <= start' /\ phase' \in Nat /\ phase' <= Stop
    BY DEF chunked_incr, queue, Inv, TypeInv, LocalInv, LocalAt, Fits, LoopAssumption
  <2> QED BY Zenon, <2>1, <2>2, <2>3, <2>4, <2>5 DEF chunked_incr, Unshared, rest, Inv, TypeInv
<1>3. GetStep(w)
  BY <1>1 DEF chunked_incr, Took, Nothing, Set, Goto, Unshared, queue, rest, GetStep, OthersKeep, Takes, Inv, TypeInv, Ranges, LocalInv, LocalAt, Fits, LoopAssumption, NoRange
<1>4. LocalAt(w)'
  <2>1. /\ pc'[w] \in {"func", "exit"} /\ Type' = "CHUNK" /\ ret'[w] = ret[w]
        /\ start' = start + chunksize /\ (ret[w] >= Stop => start >= Stop)
    BY Zenon DEF chunked_incr, Took, Nothing, Set, Goto, Unshared, rest, Type, Inv, TypeInv, LocalInv, LocalAt
  <2>2. start >= Stop => start + chunksize >= Stop
    BY DEF Inv, TypeInv, LoopAssumption
  <2> QED BY Zenon, <2>1, <2>2 DEF LocalAt
<1> QED BY Zenon, <1>2, <1>3, <1>4, GetStepKeeps

LEMMA Step_timed == ASSUME LoopAssumption, Inv, NEW w \in Ids, timed(w) PROVE Inv'
<1>1. activesheps \in Nat \ {0}
  BY Zenon, Active DEF timed
<1>2. TypeInv'
  <2>1. pc' \in [Ids -> Labels]
    BY DEF timed, Took, Nothing, Set, Goto, Inv, TypeInv, Labels
  <2>2. range' \in [Ids -> Ranges]
    BY DEF timed, Took, Nothing, Set, Inv, TypeInv, Ranges, NoRange, LoopAssumption, LocalInv, LocalAt, Fits
  <2>3. ret' \in [Ids -> Nat] /\ ph' \in [Ids -> Nat] /\ lastblock' \in [Ids -> Nat]
    BY Zenon DEF timed, queue, Set, Inv, TypeInv
  <2>4. sheps' \in [Ids -> Nat] /\ iters' \in [Ids -> Int]
    BY <1>1, Shares DEF timed, Set, Inv, TypeInv, LocalInv, LocalAt, LoopAssumption
  <2>5. start' \in Nat /\ Start <= start' /\ phase' \in Nat /\ phase' <= Stop
    BY Zenon DEF timed, queue, Inv, TypeInv, LocalInv, LocalAt, Fits, LoopAssumption
  <2> QED BY Zenon, <2>1, <2>2, <2>3, <2>4, <2>5 DEF timed, Unshared, rest, Inv, TypeInv
<1>3. GetStep(w)
  BY <1>1 DEF timed, Took, Nothing, Set, Goto, Unshared, queue, rest, GetStep, OthersKeep, Takes, Inv, TypeInv, Ranges, LocalInv, LocalAt, Fits, LoopAssumption, NoRange
<1>4. LocalAt(w)'
  <2>1. /\ pc'[w] \in {"t_cas", "exit"} /\ Type' = "TIMED" /\ ret'[w] = start /\ start' = start
        /\ (pc'[w] = "t_cas" => start < Stop) /\ lastblock'[w] = lastblock[w]
        /\ range'[w] \in {range[w], NoRange}
    BY Zenon DEF timed, Nothing, Set, Goto, Unshared, rest, queue, Type, Inv, TypeInv
  <2>2. range[w].step # 0 => lastblock[w] >= 1
    BY Zenon DEF timed, Inv, LocalInv, LocalAt
  <2>3. sheps'[w] = 0 => iters'[w] >= 1
    <3>1. PICK slow \in BOOLEAN :
            /\ range[w].step = 0 => slow
            /\ sheps' = Set(sheps, w, IF slow THEN activesheps ELSE 0)
            /\ iters' = Set(iters, w, IF range[w].step = 0 THEN 1 ELSE lastblock[w])
      BY Zenon DEF timed
    <3>2. sheps'[w] = (IF slow THEN activesheps ELSE 0) /\ iters'[w] = (IF range[w].step = 0 THEN 1 ELSE lastblock[w])
      BY Zenon, <3>1 DEF Set, Inv, TypeInv
    <3> QED BY Zenon, <1>1, <2>2, <3>1, <3>2
  <2> QED BY <2>1, <2>2, <2>3 DEF LocalAt, NoRange
<1> QED BY Zenon, <1>2, <1>3, <1>4, GetStepKeeps

LEMMA Step_factored_phase == ASSUME LoopAssumption, Inv, NEW w \in Ids, factored_phase(w) PROVE Inv'
<1>1. /\ ret[w] \in Nat /\ ph[w] \in Nat /\ sheps[w] \in Nat \ {0} /\ ph[w] <= Stop /\ Stop \in Nat
      /\ phase \in Nat /\ phase <= Stop /\ start \in Nat /\ Type = "FACTORED"
      /\ ret[w] >= Stop => start >= Stop
  BY DEF factored_phase, Inv, TypeInv, LocalInv, LocalAt, LoopAssumption
<1>2. UNCHANGED <<start, lastblock, ret, sheps, range>> /\ Unshared /\ pc[w] = "f_phase" /\ call' = call
  BY Zenon DEF factored_phase, Unshared, rest
<1>3. pc' \in [Ids -> Labels] /\ OthersKeep(w)
  BY Zenon DEF factored_phase, Set, Goto, OthersKeep, Labels, Inv, TypeInv
<1>a. CASE ret[w] >= ph[w] /\ ret[w] < Stop
  <2> DEFINE new == ret[w] + Quot(Stop - Quot(Stop + ret[w], 2), sheps[w]) * sheps[w]
  <2>1. new \in Nat /\ new <= Stop
    BY Zenon, <1>1, <1>a, NewPhase
  <2>2. /\ ph' = Set(ph, w, phase) /\ iters' = iters /\ pc' = pc
        /\ phase' = IF phase = ph[w] THEN (IF new # ph[w] THEN new ELSE Stop) ELSE phase
    BY Zenon, <1>a DEF factored_phase
  <2> HIDE DEF new
  <2>3. phase' \in Nat /\ phase' <= Stop
    BY <1>1, <2>1, <2>2
  <2>4. ph' \in [Ids -> Nat] /\ ph'[w] = phase
    BY Zenon, <1>1, <2>2 DEF Set, Inv, TypeInv
  <2>5. TypeInv'
    BY Zenon, <1>2, <1>3, <2>2, <2>3, <2>4 DEF Unshared, rest, Inv, TypeInv
  <2>6. LocalAt(w)'
    BY <1>1, <1>2, <2>2, <2>4 DEF LocalAt, Type
  <2>7. GetStep(w)
    BY Zenon, <1>2, <1>3, <2>2 DEF GetStep
  <2> QED BY Zenon, <2>5, <2>6, <2>7, GetStepKeeps
<1>b. CASE ~(ret[w] >= ph[w] /\ ret[w] < Stop)
  <2>1. PICK n \in Int : n = Stop - ph[w] /\ n >= 0
    BY <1>1
  <2>2. PICK q \in Int : q = AtLeastOne(Quot(n, sheps[w]))
    BY Zenon, <1>1, Shares
  <2>3. (n > 0 => 1 <= q /\ q <= n) /\ (n = 0 => q = 1)
    BY Zenon, <1>1, <2>2, Shares
  <2>4. iters' = Set(iters, w, q) /\ pc' = Set(pc, w, "f_cas") /\ UNCHANGED <<ph, phase>>
    BY Zenon, <1>b, <2>1, <2>2 DEF factored_phase, Goto
  <2>5. iters' \in [Ids -> Int] /\ iters'[w] = q /\ pc'[w] = "f_cas"
    BY Zenon, <2>4 DEF Set, Inv, TypeInv
  <2>6. TypeInv'
    BY Zenon, <1>2, <1>3, <2>4, <2>5 DEF Unshared, rest, Inv, TypeInv
  <2>7. Fits(w)'
    BY <1>1, <1>2, <1>b, <2>1, <2>3, <2>4, <2>5 DEF Fits
  <2>8. LocalAt(w)'
    BY <1>1, <1>2, <2>4, <2>5, <2>7 DEF LocalAt, Type
  <2>9. GetStep(w)
    BY Zenon, <1>2, <1>3, <2>5 DEF GetStep
  <2> QED BY Zenon, <2>6, <2>8, <2>9, GetStepKeeps
<1> QED BY Zenon, <1>a, <1>b

LEMMA Step_timed_cas == ASSUME LoopAssumption, Inv, NEW w \in Ids, timed_cas(w) PROVE Inv'
<1>1. /\ ret[w] \in Nat /\ sheps[w] \in Nat /\ iters[w] \in Int /\ Stop \in Nat /\ start \in Nat
      /\ Step \in Nat \ {0} /\ ret[w] < Stop /\ Type = "TIMED" /\ (sheps[w] = 0 => iters[w] >= 1)
  BY Zenon DEF timed_cas, Inv, TypeInv, LocalInv, LocalAt, LoopAssumption
<1>2. PICK d \in Nat : d = DynamicBlock(w) /\ 1 <= d /\ ret[w] + d <= Stop
  <2>1. PICK n \in Nat \ {0} : n = IF sheps[w] > 0 THEN ((Stop - ret[w]) \div (2 * sheps[w] * Step)) + 1 ELSE iters[w]
    <3>1. sheps[w] > 0 => ((Stop - ret[w]) \div (2 * sheps[w] * Step)) + 1 \in Nat \ {0}
      BY Zenon, <1>1, TimedBlock
    <3> QED BY <1>1, <3>1
  <2>2. DynamicBlock(w) = IF ret[w] + n > Stop THEN Stop - ret[w] ELSE n
    BY Zenon, <2>1 DEF DynamicBlock
  <2> QED BY <1>1, <2>2
<1>3. /\ UNCHANGED <<phase, ph, sheps>> /\ Unshared /\ pc[w] = "t_cas" /\ call' = call
      /\ iters' = Set(iters, w, d)
  BY Zenon, <1>2 DEF timed_cas, Unshared, rest
<1>4. iters' \in [Ids -> Int] /\ iters'[w] = d
  BY <1>2, <1>3 DEF Set, Inv, TypeInv
<1>5. pc' \in [Ids -> Labels] /\ OthersKeep(w)
  BY DEF timed_cas, Took, Nothing, Set, Goto, OthersKeep, Labels, Inv, TypeInv
<1>a. CASE start = ret[w]
  <2>1. /\ start' = ret[w] + d /\ lastblock' = Set(lastblock, w, d) /\ pc' = Set(pc, w, "func") /\ ret' = ret
        /\ range' = Set(range, w, [a |-> ret[w], b |-> ret[w] + d, step |-> Step])
    BY Zenon, <1>2, <1>a DEF timed_cas, Took, Goto
  <2>2. lastblock' \in [Ids -> Nat] /\ lastblock'[w] = d /\ pc'[w] = "func"
    BY Zenon, <1>2, <2>1 DEF Set, Inv, TypeInv
  <2>3. [a |-> ret[w], b |-> ret[w] + d, step |-> Step] \in Ranges
    BY <1>1, <1>2, RangeType
  <2>4. range' \in [Ids -> Ranges] /\ range'[w] = [a |-> ret[w], b |-> ret[w] + d, step |-> Step]
    BY Zenon, <2>1, <2>3 DEF Set, Inv, TypeInv
  <2>5. start' \in Nat /\ Start <= start' /\ start' <= Stop
    BY <1>1, <1>2, <1>a, <2>1 DEF Inv, TypeInv, LoopAssumption
  <2>6. TypeInv'
    BY Zenon, <1>3, <1>4, <1>5, <2>1, <2>2, <2>4, <2>5 DEF Unshared, rest, Inv, TypeInv
  <2>7. LocalAt(w)'
    BY <1>1, <1>2, <1>3, <2>1, <2>2 DEF LocalAt, Type
  <2>8. GetStep(w)
    BY <1>1, <1>2, <1>3, <1>5, <1>a, <2>1, <2>2, <2>4 DEF GetStep, Takes
  <2> QED BY Zenon, <2>6, <2>7, <2>8, GetStepKeeps
<1>b. CASE start # ret[w]
  <2>1. /\ ret' = Set(ret, w, start) /\ UNCHANGED <<start, lastblock>>
        /\ IF start < Stop THEN UNCHANGED <<pc, range>> ELSE Nothing(w)
    BY Zenon, <1>b DEF timed_cas
  <2>2. ret' \in [Ids -> Nat] /\ ret'[w] = start
    BY Zenon, <1>1, <2>1 DEF Set, Inv, TypeInv
  <2>3. range' \in [Ids -> Ranges] /\ range'[w] \in {range[w], NoRange}
    BY Zenon, <2>1, RangeType DEF Nothing, Set, Inv, TypeInv
  <2>4. IF start < Stop THEN pc'[w] = "t_cas" ELSE pc'[w] = "exit"
    BY Zenon, <1>3, <2>1 DEF Nothing, Goto, Set, Inv, TypeInv
  <2>5. TypeInv'
    BY Zenon, <1>3, <1>4, <1>5, <2>1, <2>2, <2>3 DEF Unshared, rest, Inv, TypeInv
  <2>6. range[w].step # 0 => lastblock[w] >= 1
    BY Zenon, <1>1 DEF Inv, LocalInv, LocalAt
  <2>7. LocalAt(w)'
    BY <1>1, <1>2, <1>3, <1>4, <2>1, <2>2, <2>3, <2>4, <2>6 DEF LocalAt, Type, NoRange
  <2>8. GetStep(w)
    BY <1>1, <1>3, <1>5, <2>1, <2>4 DEF GetStep
  <2> QED BY Zenon, <2>5, <2>7, <2>8, GetStepKeeps
<1> QED BY Zenon, <1>a, <1>b

\* The worker that leaves was counted.
LEMMA LeavesCount ==
    ASSUME LoopAssumption, TypeInv, CountInv, NEW w \in Ids, pc[w] \notin {"none", "done"},
           \A v \in Ids \ {w} : pc'[v] = pc[v], pc'[w] \in {"none", "done"}
    PROVE  In' = In \ {w} /\ Cardinality(In') = Cardinality(In) - 1 /\ Cardinality(In) \in Nat \ {0}
<1>1. IsFiniteSet(In)
  BY Zenon, Workers, FS_Subset DEF In
<1>2. w \in In /\ In' = In \ {w}
  BY Zenon DEF In
<1>3. Cardinality(In) \in Nat /\ Cardinality(In) # 0
  BY Zenon, <1>1, <1>2, FS_CardinalityType, FS_EmptySet
<1>4. Cardinality(In \ {w}) = Cardinality(In) - 1
  BY Zenon, <1>1, <1>2, FS_RemoveElement
<1> QED BY Zenon, <1>2, <1>3, <1>4

\* The locals that die with get_iters.
LEMMA Forgotten ==
    ASSUME TypeInv, NEW w \in Ids, Forget(w)
    PROVE  /\ ret' \in [Ids -> Nat] /\ ph' \in [Ids -> Nat] /\ sheps' \in [Ids -> Nat] /\ iters' \in [Ids -> Int]
           /\ range' \in [Ids -> Ranges] /\ range'[w].step = range[w].step /\ ret'[w] = 0
           /\ \A v \in Ids \ {w} : /\ range'[v] = range[v] /\ ret'[v] = ret[v] /\ ph'[v] = ph[v]
                                   /\ iters'[v] = iters[v] /\ sheps'[v] = sheps[v]
<1>1. ret' \in [Ids -> Nat] /\ ph' \in [Ids -> Nat] /\ sheps' \in [Ids -> Nat] /\ iters' \in [Ids -> Int]
  BY DEF Forget, Set, TypeInv
<1>2. range[w].step \in Nat
  BY Zenon DEF TypeInv, Ranges
<1>3. [NoRange EXCEPT !.step = range[w].step] = [a |-> 0, b |-> 0, step |-> range[w].step]
  BY DEF NoRange
<1>4. [a |-> 0, b |-> 0, step |-> range[w].step] \in Ranges
  BY Zenon, <1>2 DEF Ranges
<1>5. range' = Set(range, w, [a |-> 0, b |-> 0, step |-> range[w].step])
  BY Zenon, <1>3 DEF Forget
<1>6. range' \in [Ids -> Ranges] /\ range'[w].step = range[w].step /\ \A v \in Ids \ {w} : range'[v] = range[v]
  BY Zenon, <1>4, <1>5 DEF Set, TypeInv
<1>7. ret'[w] = 0 /\ \A v \in Ids \ {w} : ret'[v] = ret[v] /\ ph'[v] = ph[v] /\ iters'[v] = iters[v] /\ sheps'[v] = sheps[v]
  BY Zenon DEF Forget, Set, TypeInv
<1> QED BY Zenon, <1>1, <1>6, <1>7

\* The user's function: its range has been run, and was nobody else's.
LEMMA Step_func == ASSUME LoopAssumption, Inv, NEW w \in Ids, func(w) PROVE Inv'
<1>1. /\ UNCHANGED <<start, phase, lastblock, call, chunksize, enabled, cpc, adds, donecount, activesheps, freed>>
      /\ Forget(w) /\ pc[w] = "func"
      /\ ran' = [i \in Iters |-> IF i \in range[w].a..(range[w].b - 1) THEN ran[i] + 1 ELSE ran[i]]
  BY Zenon DEF func, queue, rest
<1>2. pc' \in [Ids -> Labels] /\ pc'[w] = "shep_ok" /\ \A v \in Ids \ {w} : pc'[v] = pc[v]
  BY Zenon DEF func, Goto, Set, Labels, Inv, TypeInv
<1>3. /\ ret' \in [Ids -> Nat] /\ ph' \in [Ids -> Nat] /\ sheps' \in [Ids -> Nat] /\ iters' \in [Ids -> Int]
      /\ range' \in [Ids -> Ranges] /\ range'[w].step = range[w].step /\ ret'[w] = 0
      /\ OthersKeep(w)
  BY Zenon, <1>1, <1>2, Forgotten DEF Inv, OthersKeep
<1>4. ASSUME NEW i \in Iters
      PROVE  /\ i \in Int
             /\ ran[i] \in Nat
             /\ Has(w, i) <=> i \in range[w].a..(range[w].b - 1)
             /\ ran'[i] = IF Has(w, i) THEN 1 ELSE ran[i]
  <2>1. i \in Int /\ ran[i] \in Nat /\ range[w].a \in Nat /\ range[w].b \in Nat
    BY DEF Iters, LoopAssumption, Inv, TypeInv, Ranges
  <2>2. Has(w, i) <=> i \in range[w].a..(range[w].b - 1)
    BY <1>1, <2>1 DEF Has
  <2>3. Has(w, i) => ran[i] = 0
    BY Zenon DEF Inv, RangeInv
  <2> QED BY <1>1, <2>1, <2>2, <2>3
<1>5. ran' \in [Iters -> Nat]
  BY <1>1, <1>4
<1>6. TypeInv'
  BY Zenon, <1>1, <1>2, <1>3, <1>5 DEF Inv, TypeInv
<1>7. LocalAt(w)'
  BY <1>1, <1>2, <1>3 DEF LocalAt, Type, Inv, LocalInv, TypeInv, LoopAssumption
<1>8. LeaveInv' /\ LocalInv'
  BY Zenon, <1>1, <1>2, <1>3, <1>7, OwnStep DEF rest
<1>9. In' = In
  BY Zenon, <1>1, <1>2 DEF In
<1>10. CountInv'
  BY Zenon, <1>1, <1>9 DEF Inv, CountInv
<1>11. RangeInv'
  <2>1. ASSUME NEW v \in Ids, NEW i \in Iters PROVE Has(v, i)' <=> v # w /\ Has(v, i)
    BY Zenon, <1>2, <1>3 DEF Has, OthersKeep
  <2>2. ASSUME NEW v \in Ids, pc'[v] = "func"
        PROVE  (Start <= range[v].a /\ range[v].a < range[v].b /\ range[v].b <= Stop /\ range[v].b <= start)'
    BY Zenon, <1>1, <1>2, <1>3, <2>2 DEF OthersKeep, Inv, RangeInv
  <2>3. ASSUME NEW i \in Iters
        PROVE  (/\ ran[i] <= 1
                /\ i >= start => ran[i] = 0
                /\ i < start => ran[i] = 1 \/ \E v \in Ids : Has(v, i)
                /\ \A v \in Ids : Has(v, i) => ran[i] = 0 /\ \A u \in Ids : Has(u, i) => u = v)'
    <3>1. CASE Has(w, i)
      <4>1. ran'[i] = 1 /\ \A v \in Ids : ~Has(v, i)'
        BY Zenon, <3>1, <1>4, <2>1 DEF Inv, RangeInv
      <4>2. i < start
        <5>1. i < range[w].b /\ range[w].b <= start
          BY Zenon, <3>1 DEF Has, Inv, RangeInv
        <5> QED BY <5>1, <1>4 DEF Inv, TypeInv, Ranges
      <4> QED BY <4>1, <4>2, <1>1, <1>4 DEF Inv, TypeInv
    <3>2. CASE ~Has(w, i)
      BY Zenon, <3>2, <1>1, <1>4, <2>1 DEF Inv, RangeInv
    <3> QED BY Zenon, <3>1, <3>2
  <2> QED BY Zenon, <2>2, <2>3 DEF RangeInv, Iters
<1> QED BY Zenon, <1>6, <1>8, <1>10, <1>11 DEF Inv

LEMMA Step_leave == ASSUME LoopAssumption, Inv, NEW w \in Ids, leave(w) PROVE Inv'
<1>1. UNCHANGED <<queue, local, rest, donecount, freed, ran>> /\ pc[w] = "shep_ok"
  BY Zenon DEF leave
<1>2. /\ pc' \in [Ids -> Labels] /\ \A v \in Ids \ {w} : pc'[v] = pc[v]
      /\ pc'[w] \in {"get", "done"} /\ (pc'[w] = "done" => w \notin enabled)
  BY Zenon DEF leave, Goto, Set, Labels, Inv, TypeInv
<1>3. LocalAt(w)' /\ OthersKeep(w)
  BY Zenon, <1>1, <1>2 DEF queue, local, rest, OthersKeep, LocalAt, Type, Inv, LocalInv
<1>4. LeaveInv' /\ LocalInv'
  BY Zenon, <1>1, <1>2, <1>3, OwnStep DEF queue
<1>5. CountInv' /\ activesheps' \in Nat
  <2>1. CASE pc'[w] = "get"
    <3>1. activesheps' = activesheps
      BY Zenon, <2>1 DEF leave, Goto, Set, Inv, TypeInv
    <3>2. In' = In
      BY Zenon, <1>1, <1>2, <2>1 DEF In
    <3> QED BY Zenon, <1>1, <3>1, <3>2 DEF rest, Inv, TypeInv, CountInv
  <2>2. CASE pc'[w] = "done"
    <3>1. activesheps' = activesheps - 1
      BY Zenon, <2>2 DEF leave, Goto, Set, Inv, TypeInv
    <3>2. In' = In \ {w} /\ Cardinality(In') = Cardinality(In) - 1 /\ Cardinality(In) \in Nat \ {0}
      BY Zenon, <1>1, <1>2, <2>2, LeavesCount DEF Inv
    <3>3. w \in In /\ ~freed /\ cpc # "create"
      BY Zenon, <1>1 DEF In, Inv, CountInv
    <3>4. activesheps = donecount + Cardinality(In) /\ donecount \in Nat
      BY Zenon DEF Inv, CountInv, TypeInv
    <3>5. activesheps' \in Nat /\ activesheps' = donecount' + Cardinality(In')
      BY <1>1, <3>1, <3>2, <3>4
    <3> QED BY Zenon, <1>1, <3>3, <3>5 DEF rest, Inv, CountInv
  <2> QED BY Zenon, <1>2, <2>1, <2>2
<1>6. TypeInv'
  BY Zenon, <1>1, <1>2, <1>5 DEF queue, local, rest, Inv, TypeInv
<1>7. RangeInv'
  BY Zenon, <1>1, <1>2, <1>6, RangeKept DEF queue, local, Inv
<1> QED BY Zenon, <1>4, <1>5, <1>6, <1>7 DEF Inv

LEMMA Step_exit == ASSUME LoopAssumption, Inv, NEW w \in Ids, exit(w) PROVE Inv'
<1>1. /\ UNCHANGED <<start, phase, lastblock, call, chunksize, enabled, cpc, adds, activesheps, freed, ran>>
      /\ Forget(w) /\ pc[w] = "exit" /\ donecount' = donecount + 1
  BY Zenon DEF exit, queue, rest
<1>2. pc' \in [Ids -> Labels] /\ pc'[w] = "done" /\ \A v \in Ids \ {w} : pc'[v] = pc[v]
  BY Zenon DEF exit, Goto, Set, Labels, Inv, TypeInv
<1>3. /\ ret' \in [Ids -> Nat] /\ ph' \in [Ids -> Nat] /\ sheps' \in [Ids -> Nat] /\ iters' \in [Ids -> Int]
      /\ range' \in [Ids -> Ranges] /\ range'[w].step = range[w].step /\ ret'[w] = 0
      /\ OthersKeep(w)
  BY Zenon, <1>1, <1>2, Forgotten DEF Inv, OthersKeep
<1>4. TypeInv'
  BY <1>1, <1>2, <1>3 DEF Inv, TypeInv
<1>5. LocalAt(w)'
  BY <1>1, <1>2, <1>3 DEF LocalAt, Type, Inv, LocalInv, TypeInv, LoopAssumption
<1>6. start >= Stop
  BY Zenon, <1>1 DEF Inv, LeaveInv
<1>7. LeaveInv' /\ LocalInv'
  BY Zenon, <1>1, <1>2, <1>3, <1>5, <1>6, OwnStep DEF rest
<1>8. CountInv'
  <2>1. In' = In \ {w} /\ Cardinality(In') = Cardinality(In) - 1 /\ Cardinality(In) \in Nat \ {0}
    BY Zenon, <1>1, <1>2, LeavesCount DEF Inv
  <2>2. w \in In /\ ~freed /\ cpc # "create"
    BY Zenon, <1>1 DEF In, Inv, CountInv
  <2>3. activesheps = donecount + Cardinality(In) /\ donecount \in Nat
    BY Zenon DEF Inv, CountInv, TypeInv
  <2>4. activesheps' = donecount' + Cardinality(In')
    BY <1>1, <2>1, <2>3
  <2> QED BY Zenon, <1>1, <2>2, <2>4 DEF Inv, CountInv
<1>9. RangeInv'
  BY Zenon, <1>1, <1>2, <1>3, <1>4, RangeKept DEF OthersKeep, Inv
<1> QED BY Zenon, <1>4, <1>7, <1>8, <1>9 DEF Inv

---------------------------------------------------------------------------

\* A step of the caller, or of addworker, that changes neither queue nor locals.
LEMMA CallerStep ==
    ASSUME LoopAssumption, Inv, UNCHANGED <<queue, local, call, ran>>, TypeInv',
           \A v \in Ids : pc'[v] = pc[v] \/ (pc[v] # "func" /\ pc'[v] \in {"get", "add", "none"})
    PROVE  LocalInv' /\ RangeInv'
<1>1. ASSUME NEW v \in Ids PROVE LocalAt(v)'
  BY Zenon DEF queue, local, Inv, LocalInv, LocalAt, Fits, Type
<1>2. RangeInv'
  BY Zenon, RangeKept DEF queue, local, Inv
<1> QED BY Zenon, <1>1, <1>2 DEF LocalInv

LEMMA Step_setchunk == ASSUME LoopAssumption, Inv, setchunk(2) PROVE Inv'
<1>1. TypeInv'
  BY DEF setchunk, queue, local, Inv, TypeInv
<1>2. LocalInv' /\ RangeInv'
  BY Zenon, <1>1, CallerStep DEF setchunk
<1>3. CountInv' /\ LeaveInv'
  BY Zenon DEF setchunk, queue, local, Inv, CountInv, In, LeaveInv, First
<1> QED BY Zenon, <1>1, <1>2, <1>3 DEF Inv

LEMMA Step_run == ASSUME LoopAssumption, Inv, run PROVE Inv'
<1>1. /\ UNCHANGED <<queue, local, call, chunksize, enabled, adds, donecount, freed, ran>>
      /\ cpc = "create" /\ cpc' = "wait" /\ call.there = -1 /\ activesheps' = call.workers
      /\ pc' = [w \in Ids |-> IF w < call.workers THEN "get" ELSE pc[w]]
  BY Zenon DEF run
<1>2. call.workers \in Nat \ {0} /\ call.workers <= MaxWorker /\ MaxWorker \in Nat
  BY Zenon, Workers DEF LoopAssumption, Inv, TypeInv
<1>3. In = {} /\ donecount = 0 /\ ~freed
  BY Zenon, <1>1 DEF Inv, CountInv
<1>4. TypeInv'
  <2>1. pc' \in [Ids -> Labels]
    BY Zenon, <1>1 DEF Labels, Inv, TypeInv
  <2> QED BY Zenon, <1>1, <1>2, <2>1 DEF queue, local, Inv, TypeInv
<1>5. \A v \in Ids : pc'[v] = pc[v] \/ (pc[v] # "func" /\ pc'[v] \in {"get", "add", "none"})
  BY Zenon, <1>1, <1>3 DEF In
<1>6. LocalInv' /\ RangeInv'
  BY Zenon, <1>1, <1>4, <1>5, CallerStep
<1>7. CountInv'
  <2>1. In' = 0..(call.workers - 1)
    BY <1>1, <1>2, <1>3 DEF In, Ids
  <2>2. Cardinality(0..(call.workers - 1)) = call.workers
    <3>1. PICK n \in Int : n = call.workers - 1 /\ n >= 0
      BY <1>2
    <3>2. PICK o \in Int : o = 0
      OBVIOUS
    <3>3. Cardinality(o..n) = IF o > n THEN 0 ELSE n - o + 1
      BY FS_Interval, Zenon
    <3> QED BY <1>2, <3>1, <3>2, <3>3
  <2> QED BY <1>1, <1>2, <1>3, <2>1, <2>2 DEF Inv, CountInv
<1>8. LeaveInv'
  <2>1. 0 \in Ids /\ pc'[0] = "get" /\ First' = 0
    BY <1>1, <1>2 DEF Ids, First
  <2> QED BY Zenon, <1>1, <2>1 DEF queue, Inv, LeaveInv
<1> QED BY Zenon, <1>4, <1>6, <1>7, <1>8 DEF Inv

LEMMA Step_run_there == ASSUME LoopAssumption, Inv, run_there PROVE Inv'
<1>1. /\ UNCHANGED <<queue, local, call, chunksize, enabled, adds, donecount, freed, ran>>
      /\ cpc = "create" /\ cpc' = "wait" /\ call.there >= 0 /\ activesheps' = activesheps + 1
      /\ pc' = Set(pc, call.there, "get")
  BY Zenon DEF run_there, Goto
<1>2. First = call.there /\ First' = First /\ First \in Ids
  <2>1. call.there \in Int
    BY DEF LoopAssumption, Inv, TypeInv
  <2> QED BY <1>1, <2>1, FirstIsAWorker DEF First
<1>3. In = {} /\ donecount = 0 /\ activesheps = 0 /\ ~freed
  BY Zenon, <1>1 DEF Inv, CountInv
<1>4. pc' \in [Ids -> Labels] /\ pc'[First] = "get" /\ \A v \in Ids \ {First} : pc'[v] = pc[v]
  BY Zenon, <1>1, <1>2 DEF Set, Labels, Inv, TypeInv
<1>5. TypeInv'
  BY <1>1, <1>3, <1>4 DEF queue, local, Inv, TypeInv
<1>6. \A v \in Ids : pc'[v] = pc[v] \/ (pc[v] # "func" /\ pc'[v] \in {"get", "add", "none"})
  BY Zenon, <1>3, <1>4 DEF In
<1>7. LocalInv' /\ RangeInv'
  BY Zenon, <1>1, <1>5, <1>6, CallerStep
<1>8. CountInv'
  <2>1. In' = {First}
    BY Zenon, <1>2, <1>3, <1>4 DEF In
  <2>2. Cardinality({First}) = 1
    BY Zenon, FS_Singleton
  <2> QED BY Zenon, <1>1, <1>3, <2>1, <2>2 DEF Inv, CountInv
<1>9. LeaveInv'
  BY Zenon, <1>1, <1>2, <1>4 DEF queue, Inv, LeaveInv
<1> QED BY Zenon, <1>5, <1>7, <1>8, <1>9 DEF Inv

\* When as many have finished as are counted, nobody is left in the loop.
LEMMA Step_returns == ASSUME LoopAssumption, Inv, returns PROVE Inv'
<1>1. /\ UNCHANGED <<queue, local, call, chunksize, enabled, adds, donecount, activesheps, pc, ran>>
      /\ cpc = "wait" /\ cpc' = "returned" /\ freed' = TRUE /\ donecount >= activesheps
  BY Zenon DEF returns
<1>2. IsFiniteSet(In)
  BY Zenon, Workers, FS_Subset DEF In
<1>3. Cardinality(In) = 0
  BY <1>1, <1>2, FS_CardinalityType DEF Inv, CountInv, TypeInv
<1>4. In = {} /\ In' = In
  BY Zenon, <1>1, <1>2, <1>3, FS_EmptySet DEF In
<1>5. TypeInv'
  BY Zenon, <1>1 DEF queue, local, Inv, TypeInv
<1>6. LocalInv' /\ RangeInv'
  BY Zenon, <1>1, <1>5, CallerStep
<1>7. CountInv' /\ LeaveInv'
  BY Zenon, <1>1, <1>4 DEF queue, Inv, CountInv, LeaveInv, First
<1> QED BY Zenon, <1>5, <1>6, <1>7 DEF Inv

LEMMA Step_addworker_one == ASSUME LoopAssumption, Inv, addworker_one PROVE Inv'
<1>1. /\ UNCHANGED <<queue, local, call, chunksize, enabled, cpc, donecount, freed, ran>>
      /\ cpc = "wait" /\ pc[MaxWorker] = "none" /\ activesheps' = activesheps + 1
      /\ pc' = Set(pc, MaxWorker, "add")
  BY Zenon DEF addworker_one, Goto
<1>2. MaxWorker \in Ids /\ First \in Ids /\ First # MaxWorker
  BY Workers, FirstIsAWorker DEF Ids
<1>3. pc' \in [Ids -> Labels] /\ pc'[MaxWorker] = "add" /\ \A v \in Ids \ {MaxWorker} : pc'[v] = pc[v]
  BY Zenon, <1>1, <1>2 DEF Set, Labels, Inv, TypeInv
<1>4. TypeInv'
  BY <1>1, <1>3 DEF queue, local, Inv, TypeInv
<1>5. LocalInv' /\ RangeInv'
  BY Zenon, <1>1, <1>3, <1>4, CallerStep
<1>6. CountInv'
  <2>1. IsFiniteSet(In) /\ MaxWorker \notin In /\ In' = In \cup {MaxWorker}
    BY Zenon, <1>1, <1>2, <1>3, Workers, FS_Subset DEF In
  <2>2. Cardinality(In') = Cardinality(In) + 1 /\ Cardinality(In) \in Nat
    BY Zenon, <2>1, FS_AddElement, FS_CardinalityType
  <2>3. activesheps = donecount + Cardinality(In) /\ donecount \in Nat /\ ~freed
    BY Zenon, <1>1 DEF Inv, TypeInv, CountInv
  <2> QED BY <1>1, <2>2, <2>3 DEF Inv, CountInv
<1>7. LeaveInv'
  BY Zenon, <1>1, <1>2, <1>3 DEF queue, Inv, LeaveInv, First
<1> QED BY Zenon, <1>4, <1>5, <1>6, <1>7 DEF Inv

LEMMA Step_addworker_two == ASSUME LoopAssumption, Inv, addworker_two PROVE Inv'
<1>1. UNCHANGED <<queue, local, rest, donecount, freed, ran>> /\ pc[MaxWorker] = "add"
  BY Zenon DEF addworker_two
<1>2. MaxWorker \in Ids /\ First \in Ids /\ First # MaxWorker
  BY Workers, FirstIsAWorker DEF Ids
<1>3. /\ pc' \in [Ids -> Labels] /\ \A v \in Ids \ {MaxWorker} : pc'[v] = pc[v]
      /\ \/ pc'[MaxWorker] = "get" /\ activesheps' = activesheps
         \/ pc'[MaxWorker] = "none" /\ activesheps' = activesheps - 1
  BY Zenon, <1>2 DEF addworker_two, Goto, Set, Labels, Inv, TypeInv
<1>4. MaxWorker \in In /\ cpc # "create" /\ ~freed
  BY Zenon, <1>1, <1>2 DEF In, Inv, CountInv
<1>5. CountInv' /\ activesheps' \in Nat
  <2>1. activesheps = donecount + Cardinality(In) /\ donecount \in Nat /\ activesheps \in Nat
    BY Zenon DEF Inv, CountInv, TypeInv
  <2>2. CASE pc'[MaxWorker] = "get" /\ activesheps' = activesheps
    <3>1. In' = In
      BY Zenon, <1>1, <1>3, <2>2 DEF In
    <3> QED BY Zenon, <1>1, <2>1, <2>2, <3>1 DEF rest, Inv, CountInv
  <2>3. CASE pc'[MaxWorker] = "none" /\ activesheps' = activesheps - 1
    <3>1. Cardinality(In') = Cardinality(In) - 1 /\ Cardinality(In) \in Nat \ {0}
      BY Zenon, <1>1, <1>2, <1>3, <2>3, LeavesCount DEF Inv
    <3>2. activesheps' \in Nat /\ activesheps' = donecount' + Cardinality(In')
      BY <1>1, <2>1, <2>3, <3>1
    <3> QED BY Zenon, <1>1, <1>4, <3>2 DEF rest, Inv, CountInv
  <2> QED BY Zenon, <1>3, <2>2, <2>3
<1>6. TypeInv'
  BY Zenon, <1>1, <1>3, <1>5 DEF queue, local, rest, Inv, TypeInv
<1>7. LocalInv' /\ RangeInv'
  BY Zenon, <1>1, <1>3, <1>6, CallerStep DEF rest
<1>8. LeaveInv'
  BY Zenon, <1>1, <1>2, <1>3 DEF queue, rest, Inv, LeaveInv, First
<1> QED BY Zenon, <1>5, <1>6, <1>7, <1>8 DEF Inv

LEMMA Step_disable == ASSUME LoopAssumption, Inv, NEW s \in Ids, disable(s) PROVE Inv'
<1>1. /\ UNCHANGED <<queue, local, call, chunksize, cpc, adds, donecount, activesheps, freed, pc, ran>>
      /\ s \in call.off /\ enabled' = enabled \ {s}
  BY Zenon DEF disable
<1>2. TypeInv'
  BY Zenon, <1>1 DEF queue, local, Inv, TypeInv
<1>3. LocalInv' /\ RangeInv'
  BY Zenon, <1>1, <1>2, CallerStep
<1>4. CountInv' /\ LeaveInv'
  BY Zenon, <1>1 DEF queue, In, Inv, CountInv, LeaveInv, First
<1> QED BY Zenon, <1>2, <1>3, <1>4 DEF Inv

LEMMA InitInv == ASSUME LoopAssumption, Init PROVE Inv
<1>1. call \in Calls /\ call.workers \in Nat \ {0} /\ Start \in Nat /\ Stop \in Nat /\ Start <= Stop
  BY Zenon DEF Init, LoopAssumption
<1>2. Chunksize(call) \in Nat \ {0}
  <2>1. PICK n \in Nat : n = (Stop - Start) \div call.workers
    BY <1>1
  <2>2. n \div 10 \in Nat
    OBVIOUS
  <2> QED BY <2>1, <2>2 DEF Chunksize
<1>3. (Start + Stop) \div 2 \in Nat /\ (Start + Stop) \div 2 <= Stop
  BY <1>1
<1>4. TypeInv
  BY <1>1, <1>2, <1>3, RangeType DEF Init, TypeInv, Labels
<1>5. In = {} /\ Cardinality(In) = 0
  <2>1. In = {}
    BY Zenon DEF Init, In
  <2> QED BY Zenon, <2>1, FS_EmptySet
<1>6. CountInv /\ LeaveInv
  BY <1>5 DEF Init, CountInv, LeaveInv
<1>7. LocalInv
  <2> SUFFICES ASSUME NEW w \in Ids PROVE LocalAt(w)
    BY Zenon DEF LocalInv
  <2>1. pc[w] = "none" /\ ret[w] = 0 /\ range[w] = NoRange /\ start = Start
    BY Zenon DEF Init
  <2> QED BY <1>1, <2>1 DEF LocalAt, NoRange
<1>8. RangeInv
  <2>1. \A w \in Ids : pc[w] = "none"
    BY Zenon DEF Init
  <2>2. \A i \in Iters : ran[i] = 0 /\ i >= start /\ i \in Int /\ start \in Int
    BY <1>1 DEF Init, Iters
  <2> QED BY <2>1, <2>2 DEF RangeInv, Has
<1> QED BY Zenon, <1>4, <1>6, <1>7, <1>8 DEF Inv

LEMMA NextInv == ASSUME LoopAssumption, Inv, [Next]_vars PROVE Inv'
<1>1. ASSUME NEW w \in Ids, Worker(w) PROVE Inv'
  BY Zenon, <1>1, Step_single, Step_guided, Step_guided_read, Step_guided_cas, Step_factored, Step_factored_read,
     Step_factored_phase, Step_factored_cas, Step_chunked, Step_chunked_incr, Step_timed, Step_timed_cas,
     Step_func, Step_leave, Step_exit DEF Worker
<1>2. CASE UNCHANGED vars
  <2>1. UNCHANGED <<queue, local, rest, donecount, activesheps, freed, pc, ran>>
    BY Zenon, <1>2 DEF vars
  <2>2. TypeInv' /\ CountInv' /\ LeaveInv'
    BY Zenon, <2>1 DEF queue, local, rest, Inv, TypeInv, CountInv, In, LeaveInv, First
  <2>3. LocalInv' /\ RangeInv'
    BY Zenon, <2>1, <2>2, CallerStep DEF rest
  <2> QED BY Zenon, <2>2, <2>3 DEF Inv
<1> QED BY Zenon, <1>1, <1>2, Step_setchunk, Step_run, Step_run_there, Step_returns, Step_addworker_one,
           Step_addworker_two, Step_disable DEF Next

LEMMA InvImplies == ASSUME LoopAssumption, Inv PROVE RangesDisjoint /\ AllDoneOnReturn /\ FreedUnused
<1>1. RangesDisjoint
  <2>1. ASSUME NEW w \in Ids, pc[w] = "func", NEW i \in range[w].a..(range[w].b - 1)
        PROVE  ran[i] = 0
    <3>1. Start <= range[w].a /\ range[w].b <= Stop /\ range[w] \in Ranges /\ Start \in Nat /\ Stop \in Nat
      BY Zenon, <2>1 DEF Inv, RangeInv, TypeInv, LoopAssumption
    <3>2. i \in Iters /\ Has(w, i)
      BY <2>1, <3>1 DEF Iters, Has, Ranges
    <3> QED BY Zenon, <3>2 DEF Inv, RangeInv
  <2> QED BY Zenon, <2>1 DEF RangesDisjoint, Inv, RangeInv
<1>2. FreedUnused
  BY Zenon DEF FreedUnused, Inv, CountInv, In
<1>3. AllDoneOnReturn
  <2> SUFFICES ASSUME cpc = "returned", call.there < 0 \/ call.there \in enabled
               PROVE  \A i \in Iters : ran[i] = 1
    <3>1. call.there \in Int
      BY DEF LoopAssumption, Inv, TypeInv
    <3> QED BY <3>1 DEF AllDoneOnReturn
  <2>1. In = {}
    BY Zenon DEF Inv, CountInv
  <2>2. First \in Ids /\ pc[First] = "done"
    BY Zenon, <2>1, FirstIsAWorker DEF In, Inv, LeaveInv
  <2>3. First \in enabled
    <3>1. call \in Calls /\ 0 \notin call.off /\ call.there \in -1..(call.workers - 1) /\ call.workers \in Nat
      BY Zenon DEF LoopAssumption, Inv, TypeInv
    <3>2. CASE call.there = -1
      BY Zenon, <2>2, <3>1, <3>2 DEF First, Inv, LeaveInv
    <3>3. CASE call.there # -1
      BY <3>1, <3>3 DEF First
    <3> QED BY Zenon, <3>2, <3>3
  <2>4. start >= Stop
    BY Zenon, <2>2, <2>3 DEF Inv, LeaveInv
  <2>5. ASSUME NEW i \in Iters PROVE i < start
    BY <2>4 DEF Iters, Inv, TypeInv, LoopAssumption
  <2>6. \A w \in Ids : pc[w] # "func"
    BY Zenon, <2>1 DEF In
  <2> QED BY Zenon, <2>5, <2>6 DEF Inv, RangeInv, Has
<1> QED BY Zenon, <1>1, <1>2, <1>3

\* Whatever the kind of the queue, its bounds and the number of workers, and whoever joins or
\* leaves: qqloop_get_iterations_* never give an iteration to two workers or a range that is
\* empty or ends past stop; qt_loop_queue_run and qt_loop_queue_run_there return when all
\* iterations have been run (or the only worker was disabled), and free the loop when nobody
\* will touch it.
THEOREM LoopsRunOnce == ASSUME LoopAssumption PROVE Spec => [](RangesDisjoint /\ AllDoneOnReturn /\ FreedUnused)
<1>1. Init => Inv
  BY Zenon, InitInv
<1>2. Inv /\ [Next]_vars => Inv'
  BY Zenon, NextInv
<1>3. Inv => RangesDisjoint /\ AllDoneOnReturn /\ FreedUnused
  BY Zenon, InvImplies
<1> QED BY <1>1, <1>2, <1>3, PTL DEF Spec
=============================================================================
