------------------------------ MODULE MCSched ------------------------------
(***************************************************************************)
(* Small instances of the schedulers: sherwood, its lists, and those with  *)
(* a stack in an array (nottingham, loxley, loxleybase) with their ring    *)
(* and their lock.  A behaviour is one of the component named by which.    *)
(***************************************************************************)
EXTENDS Integers, Sequences, FiniteSets, TLC

CONSTANTS Which,           \* the components to explore
          DirectYields,    \* whether tasks yield directly to the one on deck
          NULL

VARIABLES which, next, prev, q, c, out, loot, walk, crashed, pc, cur, todo, waiting, done,
          deck, cache, stealing, idx, want, top, base, bottom, empty, spinlock, steal_disable,
          yielded, hand, at, arg, old, snap, victims, shared, local, bias, penalty, track,
          trylock, steallock, stack, model, owner, readers, seen
all == <<which, next, prev, q, c, out, loot, walk, crashed, pc, cur, todo, waiting, done,
         deck, cache, stealing, idx, want, top, base, bottom, empty, spinlock, steal_disable,
         yielded, hand, at, arg, old, snap, victims, shared, local, bias, penalty, track,
         trylock, steallock, stack, model, owner, readers, seen>>

\* A component has the variables that are named in the set S; those of the others are 0.
But(n, S, p) == IF n \in S THEN TRUE ELSE p
Unused(v) == v = 0
Same(v) == UNCHANGED v
Others(S, F(_)) ==
    /\ But("next", S, F(next)) /\ But("prev", S, F(prev)) /\ But("q", S, F(q))
    /\ But("c", S, F(c)) /\ But("out", S, F(out)) /\ But("loot", S, F(loot))
    /\ But("walk", S, F(walk)) /\ But("crashed", S, F(crashed)) /\ But("pc", S, F(pc))
    /\ But("cur", S, F(cur)) /\ But("todo", S, F(todo)) /\ But("waiting", S, F(waiting))
    /\ But("done", S, F(done)) /\ But("deck", S, F(deck)) /\ But("cache", S, F(cache))
    /\ But("stealing", S, F(stealing)) /\ But("idx", S, F(idx)) /\ But("want", S, F(want))
    /\ But("top", S, F(top)) /\ But("base", S, F(base)) /\ But("bottom", S, F(bottom))
    /\ But("empty", S, F(empty)) /\ But("spinlock", S, F(spinlock))
    /\ But("steal_disable", S, F(steal_disable)) /\ But("yielded", S, F(yielded))
    /\ But("hand", S, F(hand)) /\ But("at", S, F(at)) /\ But("arg", S, F(arg))
    /\ But("old", S, F(old)) /\ But("snap", S, F(snap)) /\ But("victims", S, F(victims))
    /\ But("shared", S, F(shared)) /\ But("local", S, F(local)) /\ But("bias", S, F(bias))
    /\ But("penalty", S, F(penalty)) /\ But("track", S, F(track))
    /\ But("trylock", S, F(trylock)) /\ But("steallock", S, F(steallock))
    /\ But("stack", S, F(stack)) /\ But("model", S, F(model)) /\ But("owner", S, F(owner))
    /\ But("readers", S, F(readers)) /\ But("seen", S, F(seen))

-----------------------------------------------------------------------------
(* Sherwood: two shepherds; in "steal" the first has two workers.          *)

L == INSTANCE SherwoodList WITH Task <- {"t1", "t2", "t3"}, Unstealable <- {"t3"},
                                Shep <- {"s1", "s2"}

Fork     == "m" :> <<<<"spawn", "a">>, <<"spawn", "b">>, <<"spawn", "c">>, <<"spawn", "d">>, <<"wait">>>>
            @@ "d" :> <<<<"yield">>>> @@ "a" :> <<>> @@ "b" :> <<>> @@ "c" :> <<>>
Yielding == "m" :> <<<<"spawn", "a">>, <<"yield">>, <<"wait">>>>
            @@ "a" :> <<<<"yield">>, <<"spawn", "b">>, <<"spawn", "c">>, <<"yield">>>>
            @@ "b" :> <<>> @@ "c" :> <<<<"yield">>>>
Near     == "m" :> <<<<"spawn", "a">>, <<"spawn", "b">>, <<"wait">>>>
            @@ "a" :> <<<<"near">>>> @@ "b" :> <<<<"near">>, <<"spawn", "c">>>> @@ "c" :> <<>>

W3 == {"w0", "w1", "w2"}
W2 == {"w0", "w2"}
Sheps == "w0" :> "s0" @@ "w1" :> "s0" @@ "w2" :> "s1"
S3 == INSTANCE Sherwood WITH Worker <- W3, Shep <- {"s0", "s1"}, shepherd <- Sheps, Main <- "m", Zero <- "w0",
                             Unstealable <- {"m"}, Task <- DOMAIN Fork, Script <- Fork
S2 == INSTANCE Sherwood WITH Worker <- W2, Shep <- {"s0", "s1"}, shepherd <- Sheps, Main <- "m", Zero <- "w0",
                             Unstealable <- {"m"}, Task <- DOMAIN Yielding, Script <- Yielding
SN == INSTANCE Sherwood WITH Worker <- W2, Shep <- {"s0", "s1"}, shepherd <- Sheps, Main <- "m", Zero <- "w0",
                             Unstealable <- {"m"}, Task <- DOMAIN Near, Script <- Near
svars == S3!vars

-----------------------------------------------------------------------------
(* Queues in arrays: P puts a task in a queue, G gets one from the         *)
(* worker's own, Y yields it.  In the instances with two queues the worker *)
(* 3 of the second has nothing but what it steals.                         *)

P(t, n) == <<"put", t, n>>
G == <<"get">>
Y == <<"yield">>
One == <<1, 1, 1>>
Two == <<1, 1, 2>>

\* An array of two slots, which grows; and a thief that has to pass over tasks.
NG == INSTANCE Nottingham WITH Queue <- {1}, size0 <- 2, Task <- 1..4, Worker <- 1..3, home <- One,
          Prog <- <<<<P(1, 1), P(2, 1), P(3, 1)>>, <<G, Y, G>>, <<G>>>>,
          Unstealable <- {2, 4}, Main <- 4, Zero <- 2, Chunk <- 2
NS == INSTANCE Nottingham WITH Queue <- {1, 2}, size0 <- 4, Task <- 1..4, Worker <- 1..3, home <- Two,
          Prog <- <<<<P(1, 1), P(2, 1), P(3, 1), P(4, 1)>>, <<G, Y>>, <<G>>>>,
          Unstealable <- {2, 4}, Main <- 4, Zero <- 2, Chunk <- 2
nvars == NG!vars

\* Two workers and a thread that is none; enqueues only, so many that the penalty could
\* grow twice and the unsigned `track' wraps; and a thief.
XC == INSTANCE Loxley WITH Queue <- {1}, Task <- 1..4, Worker <- 1..3, home <- One, id <- <<0, 1, 2>>,
          Prog <- <<<<P(1, 1), G, Y, G>>, <<P(2, 1), P(3, 1), G>>, <<P(4, 1)>>>>,
          Unstealable <- {4}, Main <- 4, Zero <- 1, Chunk <- 2, length <- 3,
          UINT <- 8, penalty_min <- 1, penalty_max <- 2, penalty_limit <- 1
XP == INSTANCE Loxley WITH Queue <- {1}, Task <- 1..8, Worker <- 1..2, home <- One, id <- <<0, 1>>,
          Prog <- <<[i \in 1..4 |-> P(i, 1)], [i \in 1..4 |-> P(4 + i, 1)]>>,
          Unstealable <- {4}, Main <- 10, Zero <- 1, Chunk <- 2, length <- 3,
          UINT <- 8, penalty_min <- 1, penalty_max <- 2, penalty_limit <- 1
XS == INSTANCE Loxley WITH Queue <- {1, 2}, Task <- 1..4, Worker <- 1..3, home <- Two, id <- <<0, 1, 0>>,
          Prog <- <<<<P(1, 1), P(2, 1), P(3, 1)>>, <<P(4, 1), G>>, <<G>>>>,
          Unstealable <- {4}, Main <- 9, Zero <- 1, Chunk <- 2, length <- 3,
          UINT <- 8, penalty_min <- 1, penalty_max <- 2, penalty_limit <- 1
xvars == XC!vars

\* Two thieves of one shepherd, and the enqueuers of another.
BS == INSTANCE LoxleyBase WITH Queue <- {1, 2}, Task <- 1..4, Worker <- 1..4, home <- <<1, 1, 2, 2>>,
          Prog <- <<<<P(1, 1), P(2, 1)>>, <<P(4, 1), P(3, 1), G, Y>>, <<G>>, <<G>>>>,
          Unstealable <- {4}, Main <- 4, Zero <- 1, Chunk <- 2
bvars == BS!vars

\* A ring of two slots that grows to four.
R == INSTANCE QtStack WITH Task <- {1, 2, 9}, Unstealable <- {2, 9}, Main <- 9, capacity0 <- 2,
          MaxCapacity <- 4, Chunk <- 2

\* Three threads, the flags of two of them in one word.
K == INSTANCE RwLock WITH Proc <- 1..3, Group <- {{1, 2}, {3}}
kvars == K!vars

-----------------------------------------------------------------------------

ListUses == {"next", "prev", "q", "c", "out", "loot", "walk", "crashed"}
SherUses == {"pc", "cur", "todo", "waiting", "done", "q", "deck", "cache", "stealing", "idx", "want"}
NottUses == {"top", "base", "bottom", "empty", "spinlock", "stealing", "steal_disable", "yielded", "pc",
             "todo", "hand", "at", "arg", "old", "snap", "victims", "loot"}
LoxUses  == {"shared", "local", "bias", "penalty", "track", "trylock", "steallock", "stealing", "empty",
             "steal_disable", "pc", "todo", "hand", "victims", "loot"}
BaseUses == {"stack", "empty", "stealing", "steallock", "yielded", "pc", "todo", "hand", "at", "victims",
             "loot"}
RingUses == {"stack", "model"}
LockUses == {"owner", "readers", "pc", "seen"}

Init ==
    /\ which \in Which
    /\ \/ which = "lists" /\ L!Init /\ Others(ListUses, Unused)
       \/ which = "steal" /\ S3!Init /\ Others(SherUses, Unused)
       \/ which = "single" /\ S2!Init /\ Others(SherUses, Unused)
       \/ which = "near" /\ SN!Init /\ Others(SherUses, Unused)
       \/ which = "nott_grow" /\ NG!Init /\ Others(NottUses, Unused)
       \/ which = "nott_steal" /\ NS!Init /\ Others(NottUses, Unused)
       \/ which = "lox_contend" /\ XC!Init /\ Others(LoxUses, Unused)
       \/ which = "lox_penalty" /\ XP!Init /\ Others(LoxUses, Unused)
       \/ which = "lox_steal" /\ XS!Init /\ Others(LoxUses, Unused)
       \/ which = "base" /\ BS!Init /\ Others(BaseUses, Unused)
       \/ which = "ring" /\ R!Init /\ Others(RingUses, Unused)
       \/ which = "rwlock" /\ K!Init /\ Others(LockUses, Unused)

Next ==
    /\ UNCHANGED which
    /\ \/ which = "lists" /\ (L!Next \/ (DirectYields /\ L!private_dequeue)) /\ Others(ListUses, Same)
       \/ which = "steal" /\ S3!Next /\ Others(SherUses, Same)
       \/ which = "single" /\ S2!Next /\ Others(SherUses, Same)
       \/ which = "near" /\ SN!Next /\ Others(SherUses, Same)
       \/ which = "nott_grow" /\ NG!Next /\ Others(NottUses, Same)
       \/ which = "nott_steal" /\ NS!Next /\ Others(NottUses, Same)
       \/ which = "lox_contend" /\ XC!Next /\ Others(LoxUses, Same)
       \/ which = "lox_penalty" /\ XP!Next /\ Others(LoxUses, Same)
       \/ which = "lox_steal" /\ XS!Next /\ Others(LoxUses, Same)
       \/ which = "base" /\ BS!Next /\ Others(BaseUses, Same)
       \/ which = "ring" /\ R!Next /\ Others(RingUses, Same)
       \/ which = "rwlock" /\ K!Next /\ Others(LockUses, Same)

Spec == Init /\ [][Next]_all

\* Workers are operating system threads: each keeps running, and one that tries a lock
\* over and over gets it.
Keeps(w) == \/ which = "steal" /\ (S3!Search(w) \/ S3!rob(w))
            \/ w \in W2 /\ which = "single" /\ (S2!Search(w) \/ S2!rob(w))
            \/ w \in W2 /\ which = "near" /\ (SN!Search(w) \/ SN!rob(w))
Works(w) == \/ which = "steal" /\ S3!Work(w)
            \/ w \in W2 /\ which = "single" /\ S2!Work(w)
            \/ w \in W2 /\ which = "near" /\ SN!Work(w)
Robs(w)  == \/ which = "steal" /\ S3!rob(w)
            \/ w \in W2 /\ which = "single" /\ S2!rob(w)
            \/ w \in W2 /\ which = "near" /\ SN!rob(w)
Gets(w)  == \/ which = "nott_grow" /\ w \in 1..3 /\ NG!Step(w)
            \/ which = "nott_steal" /\ w \in 1..3 /\ NS!Step(w)
            \/ which = "lox_contend" /\ w \in 1..3 /\ XC!Step(w)
            \/ which = "lox_steal" /\ w \in 1..3 /\ XS!Step(w)
            \/ which = "base" /\ BS!Step(w)
            \/ which = "rwlock" /\ w \in 1..3 /\ K!wrclaim(w)
queuevars == CASE which \in {"nott_grow", "nott_steal"} -> nvars
               [] which \in {"lox_contend", "lox_steal"} -> xvars
               [] which = "base" -> bvars
               [] which = "rwlock" -> kvars
               [] OTHER -> 0
FairSpec ==
    /\ Spec
    /\ \A w \in W3 : WF_svars(Keeps(w)) /\ WF_svars(Works(w)) /\ SF_svars(Robs(w))
QueueSpec ==
    /\ Spec
    /\ \A w \in 1..4 : SF_queuevars(UNCHANGED which /\ Gets(w))
    /\ \A w \in 1..3 : WF_kvars(which = "rwlock" /\ K!Reader(w)) /\ WF_kvars(which = "rwlock" /\ K!Writer(w))

-----------------------------------------------------------------------------


\* The assertion of qt_threadqueue_private_enqueue, sherwood_threadqueues.c line 346:
\* assert(c->tail == NULL || c->tail->next == NULL).
CacheEnds == which = "lists" => L!CacheEnds

\* Between the unlocked peeks, the steals, the flushes of the spawn caches and the return
\* of the original thread to worker 0, every task is in exactly one place.
TasksConserved == /\ which = "lists" => L!TasksConserved
                  /\ which = "steal" => S3!TasksConserved
                  /\ which = "single" => S2!TasksConserved
                  /\ which = "near" => SN!TasksConserved

\* Only worker 0 runs the original thread ("McCoy thread can only run on worker 0",
\* sherwood_threadqueues.c line 840), and no thief takes it off its shepherd.
MainOnZero == /\ which = "steal" => S3!MainOnZero
              /\ which = "single" => S2!MainOnZero

\* Every task is in one place, and the original thread only where it may be: see the two
\* properties it joins.
TasksInPlace == TasksConserved /\ MainOnZero

\* Every task is run to its end: work is found wherever it was queued, and the original
\* thread gets back to worker 0 -- but two workers of shepherd 0 may hand it back and
\* forth for ever, and a task that yields near may be left in its worker's spawn cache.
Ended == CASE which = "steal" -> done = DOMAIN Fork \/ S3!HandBack
           [] which = "single" -> done = DOMAIN Yielding
           [] which = "near" -> done = DOMAIN Near \/ SN!LeftInCache
           [] OTHER -> TRUE
AllEnd == []<>Ended

\* The nottingham queue is last in, first out with yielded tasks at the bottom: the top
\* entry is never lost between a swap and the copy into the array that anybody may make
\* (qt_threadqueue_finish), whatever the array's size and position.
stackvars == NG!Stack!vars
ImplementsQueue ==
    /\ which = "nott_grow" => NG!Stack!Init
    /\ [][which = "nott_grow" => NG!Stack!Next \/ UNCHANGED stackvars]_all

\* A task in a queue, or kept back, or stolen, is in one place and stays somewhere until a
\* worker has it in hand, what thieves pass over included (qt_threadqueue_dequeue_steal,
\* qt_threadqueue_steal, qt_scheduler_get_thread).
NoneLost ==
    [][/\ which = "nott_steal" => NS!NoneLost
       /\ which = "lox_contend" => XC!NoneLost
       /\ which = "lox_penalty" => XP!NoneLost
       /\ which = "lox_steal" => XS!NoneLost
       /\ which = "base" => BS!NoneLost]_all

\* Whatever the position of the ring, growth and steals, it holds the sequence of tasks
\* put in: from the slot above the base to the top (qt_threadqueue_stack.h).
Represents == which = "ring" => R!Represents

\* A loxley thief never has more than a chunk, although it goes through several stacks.
ChunkAtMost == which = "lox_steal" => XS!ChunkAtMost

\* The penalty of loxley's enqueue stays between its bounds although `track' wraps, and no
\* worker keeps to its own stack for longer than the largest penalty.
PenaltyBounded == which = "lox_penalty" => XP!PenaltyBounded

\* A loxleybase queue with something to steal says so to thieves, although the flag is
\* cleared outside of the lock: unless whoever put it there is just about to.
WorkIsAdvertised == which = "base" => BS!WorkIsAdvertised


\* While one thread has the reader-writer lock of the nottingham queues for writing nobody
\* else reads or writes, although readers raise their flags at any time, also behind a
\* writer that has already looked at them.
Exclusion == which = "rwlock" => K!Exclusion

\* Everybody who asks for a task gets one in the end, from wherever it is, but for the
\* exceptions that Rested of each queue names; and a writer of the lock gets in although
\* readers keep coming: they stand back for an owner.
Rested == CASE which = "nott_grow" -> NG!Rested
            [] which = "nott_steal" -> NS!Rested
            [] which = "lox_contend" -> XC!Rested
            [] which = "lox_steal" -> XS!Rested
            [] which = "base" -> BS!Rested
            [] which = "rwlock" -> pc[1] \notin {"claim", "scan"}
            [] OTHER -> TRUE
AllReturn == []<>Rested
=============================================================================
