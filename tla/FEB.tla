-------------------------------- MODULE FEB --------------------------------
(***************************************************************************)
(* Full/empty-bit synchronisation (src/feb.c) under the worker loop of     *)
(* src/qthread.c.                                                          *)
(*                                                                         *)
(* An address that is absent from the striped hash table is full and has   *)
(* no waiters.  Otherwise the table maps it to an addrstat: a lock, a full *)
(* bit and three LIFO lists of waiters.  An operation takes the stripe's   *)
(* lock, finds (or inserts) the addrstat, takes the addrstat's lock and    *)
(* only then releases the stripe.  A task that must wait queues itself and *)
(* switches to its worker still holding the addrstat's lock; the worker's  *)
(* loop releases it once the task's context is saved.                      *)
(*                                                                         *)
(* A waiter record (addrres) is represented by its waiting task: the       *)
(* address it carries is that task's own argument or result.               *)
(***************************************************************************)
EXTENDS Integers, Sequences, FiniteSets

CONSTANTS
    Task,         \* qthread_t's
    Worker,       \* workers, each running qthread_master
    Addr,         \* aligned addresses used with FEB operations
    Stripe,       \* hash tables FEBs[]
    StripeOf,     \* QTHREAD_CHOOSE_STRIPE2, a function from Addr to Stripe
    Val,          \* aligned_t values
    Obj,          \* addrstats the pool can provide
    NULL,
    Scripts,      \* the programs to explore: [Task -> Seq(Call)]
    Preconds,     \* Preconds[t]: the addresses a nascent task waits for
    OutOfMemory   \* may the allocation of an addrres fail?

VARIABLES
    stripe,                  \* holder of each stripe's lock
    table,                   \* the hash tables: Addr -> addrstat or NULL
    live,                    \* addrstats that are allocated
    lock, full,              \* m->lock (its holder) and m->full
    EFQ, FEQ,                \* m's lists of waiting writers and takers, head first
    FFQ,                     \* m's waiting readers; served together, so a set
    mem,                     \* the memory words
    ready,                   \* tasks in some ready queue
    on,                      \* worker->current
    tstate,                  \* t->thread_state
    pc, call, res,           \* a task's place, its operation and its result
    mp,                      \* its pointer m
    removeable, precond_tasks,   \* locals of qthread_gotlock_*_inner
    checked,                 \* the nascent task whose preconditions a task checks
    need,                    \* its preconditions not yet seen full: preconds[1..preconds[0]]
    this_sync,               \* the precondition being looked at
    todo                     \* the calls a task still has to make

sync  == <<stripe, table, live, lock, full, EFQ, FEQ, FFQ>>
sched == <<ready, on, tstate>>
pre   == <<precond_tasks, checked, need, this_sync>>
local == <<pc, call, res, mp, removeable, pre, todo>>
vars  == <<sync, mem, sched, local>>

-----------------------------------------------------------------------------

FillOps  == {"writeEF", "writeEF_nb", "writeF", "fill"}
EmptyOps == {"readFE", "readFE_nb", "empty"}
\* Mutant of Inserts: writeEF_nb inserts too.
Inserts  == {"readFE", "readFE_nb", "writeEF"}
Ops      == FillOps \cup EmptyOps \cup {"readFF", "readFF_nb", "status", "spawn"}
Call     == {c \in [op : Ops, a : Addr, v : Val, n : Task \cup {NULL}] :
                c.op = "spawn" => c.n \in Task}

ASSUME ConstantsAssumption ==
    /\ StripeOf \in [Addr -> Stripe]
    /\ NULL \notin Task \cup Obj
    /\ Addr # {} /\ Val # {}
    /\ Preconds \in [Task -> Seq(Addr)]
    /\ OutOfMemory \in BOOLEAN
ASSUME ScriptAssumption == \A s \in Scripts : s \in [Task -> Seq(Call)]

v0     == CHOOSE v \in Val : TRUE
NoCall == [op |-> "none", a |-> CHOOSE a \in Addr : TRUE, v |-> v0, n |-> NULL]

\* Results of the calls that return no datum.
SUCCESS == "SUCCESS"
OPFAIL  == "OPFAIL"
MALLOC_ERROR == "MALLOC_ERROR"
Results == Val \cup {NULL, SUCCESS, OPFAIL, MALLOC_ERROR, "FULL", "EMPTY"}

Running(t) == \E w \in Worker : on[w] = t
At(t, l)   == pc[t] = l /\ Running(t)
Goto(t, l) == pc' = [pc EXCEPT ![t] = l]
Op(t)      == call[t].op
A(t)       == call[t].a

Result(t, r) == res' = [res EXCEPT ![t] = r]
Return(t, r) == Goto(t, "idle") /\ Result(t, r)

\* The preconditions are looked at from the last to the first.
DropLast(q) == SubSeq(q, 1, Len(q) - 1)
This(t)     == need[checked[t]][Len(need[checked[t]])]

Settled(o) ==
    /\ full[o]  => FEQ[o] = <<>> /\ FFQ[o] = {}
    /\ ~full[o] => EFQ[o] = <<>>

Removable(o) == full[o] /\ EFQ[o] = <<>> /\ FEQ[o] = <<>> /\ FFQ[o] = {}

-----------------------------------------------------------------------------
(* The worker loop: qthread_master.                                        *)

\* A worker takes a ready task and runs it until it comes back.  A task that
\* had blocked returns from its operation.
Dispatch(w, t) ==
    /\ on[w] = NULL
    /\ t \in ready
    /\ ready' = ready \ {t}
    /\ on' = [on EXCEPT ![w] = t]
    /\ Goto(t, IF pc[t] = "blocked" THEN "idle" ELSE pc[t])
    /\ UNCHANGED <<sync, mem, tstate, call, res, mp, removeable, pre, todo>>

\* The task came back FEB_BLOCKED: its context is saved, so its addrstat may
\* be unlocked and the task woken.
MasterUnlock(w) ==
    LET t == on[w] IN
    /\ t # NULL
    /\ pc[t] = "switch"
    /\ on' = [on EXCEPT ![w] = NULL]
    /\ lock' = [lock EXCEPT ![mp[t]] = NULL]
    /\ Goto(t, "blocked")
    /\ UNCHANGED <<stripe, table, live, full, EFQ, FEQ, FFQ, mem, ready, tstate,
                   call, res, mp, removeable, pre, todo>>

\* The task's function returned: the worker frees it.
Terminate(w) ==
    LET t == on[w] IN
    /\ t # NULL
    /\ pc[t] = "idle"
    /\ todo[t] = <<>>
    /\ on' = [on EXCEPT ![w] = NULL]
    /\ tstate' = [tstate EXCEPT ![t] = "TERMINATED"]
    /\ Goto(t, "done")
    /\ UNCHANGED <<sync, mem, ready, call, res, mp, removeable, pre, todo>>

-----------------------------------------------------------------------------
(* Calling; a call that returns leaves the task at "idle".                 *)

Begin(t) ==
    /\ At(t, "idle")
    /\ todo[t] # <<>>
    /\ LET c == Head(todo[t]) IN
       /\ call' = [call EXCEPT ![t] = c]
       /\ todo' = [todo EXCEPT ![t] = Tail(@)]
       /\ removeable' = [removeable EXCEPT ![t] = FALSE]
       /\ \/ /\ c.op # "spawn"
             /\ Goto(t, "hash")
             /\ UNCHANGED precond_tasks
          \/ \* qthread_spawn of a new task c.n with preconditions
             /\ c.op = "spawn"
             /\ pc[c.n] = "unborn"
             /\ precond_tasks' = [precond_tasks EXCEPT ![t] = {c.n}]
             /\ pc' = [pc EXCEPT ![c.n] = "idle", ![t] = "launch"]
    /\ UNCHANGED <<sync, mem, sched, res, mp, checked, need, this_sync>>

-----------------------------------------------------------------------------
(* Finding the addrstat: the critical section under the stripe's lock.     *)

\* Mutants of LockHashFound: no test of the lookup's result; the stripe is
\* released before the addrstat is locked.
LockHashFound_unchecked(t) ==
    /\ At(t, "hash")
    /\ stripe[StripeOf[A(t)]] = NULL
    /\ stripe' = [stripe EXCEPT ![StripeOf[A(t)]] = t]
    /\ mp' = [mp EXCEPT ![t] = table[A(t)]]
    /\ Goto(t, "mlock")
    /\ UNCHANGED <<table, live, lock, full, EFQ, FEQ, FFQ, mem, sched,
                   call, res, removeable, pre, todo>>
LockHashFound_released(t) ==
    /\ At(t, "hash")
    /\ stripe[StripeOf[A(t)]] = NULL
    /\ table[A(t)] # NULL
    /\ mp' = [mp EXCEPT ![t] = table[A(t)]]
    /\ Goto(t, "mlock")
    /\ UNCHANGED <<sync, mem, sched, call, res, removeable, pre, todo>>

\* qt_hash_lock, qt_hash_get_locked: the address has an addrstat.
LockHashFound(t) ==
    /\ At(t, "hash")
    /\ stripe[StripeOf[A(t)]] = NULL
    /\ table[A(t)] # NULL
    /\ stripe' = [stripe EXCEPT ![StripeOf[A(t)]] = t]
    /\ mp' = [mp EXCEPT ![t] = table[A(t)]]
    /\ Goto(t, "mlock")
    /\ UNCHANGED <<table, live, lock, full, EFQ, FEQ, FFQ, mem, sched,
                   call, res, removeable, pre, todo>>

\* No addrstat, and the operation inserts one: readFE, readFE_nb and writeEF
\* a full one that they go on to lock, empty an empty one, which completes it.
LockHashInsert(t) ==
    /\ At(t, "hash")
    /\ stripe[StripeOf[A(t)]] = NULL
    /\ table[A(t)] = NULL
    /\ Op(t) \in Inserts \cup {"empty"}
    /\ \E o \in Obj \ live :
        /\ live' = live \cup {o}
        /\ table' = [table EXCEPT ![A(t)] = o]
        /\ full' = [full EXCEPT ![o] = (Op(t) # "empty")]
        /\ \/ /\ Op(t) \in Inserts
              /\ stripe' = [stripe EXCEPT ![StripeOf[A(t)]] = t]
              /\ mp' = [mp EXCEPT ![t] = o]
              /\ Goto(t, "mlock")
              /\ UNCHANGED res
           \/ /\ Op(t) = "empty"
              /\ Return(t, SUCCESS)
              /\ UNCHANGED <<stripe, mp>>
    /\ UNCHANGED <<lock, EFQ, FEQ, FFQ, mem, sched, call, removeable, pre, todo>>

\* qthread_addrstat_new has nothing left to give.
LockHashNoMemory(t) ==
    /\ At(t, "hash")
    /\ stripe[StripeOf[A(t)]] = NULL
    /\ table[A(t)] = NULL
    /\ Op(t) \in Inserts \cup {"empty"}
    /\ live = Obj
    /\ Return(t, MALLOC_ERROR)
    /\ UNCHANGED <<sync, mem, sched, call, mp, removeable, pre, todo>>

\* Mutant of LockHashAbsent: writeEF_nb reports success.
LockHashAbsent_succeeds(t) ==
    /\ At(t, "hash")
    /\ stripe[StripeOf[A(t)]] = NULL
    /\ table[A(t)] = NULL
    /\ \/ Op(t) \in {"readFF", "readFF_nb", "writeF"} /\ Goto(t, "nom") /\ UNCHANGED res
       \/ Op(t) \in {"writeEF_nb", "fill"} /\ Return(t, SUCCESS)
       \/ Op(t) = "status" /\ Return(t, "FULL")
    /\ UNCHANGED <<sync, mem, sched, call, mp, removeable, pre, todo>>

\* No addrstat, and the operation takes that as "full": the stripe is released
\* and the operation goes on holding no lock.
LockHashAbsent(t) ==
    /\ At(t, "hash")
    /\ stripe[StripeOf[A(t)]] = NULL
    /\ table[A(t)] = NULL
    /\ \/ Op(t) \in {"readFF", "readFF_nb", "writeF"} /\ Goto(t, "nom") /\ UNCHANGED res
       \/ Op(t) = "writeEF_nb" /\ Return(t, OPFAIL)
       \/ Op(t) = "fill"       /\ Return(t, SUCCESS)
       \/ Op(t) = "status"     /\ Return(t, "FULL")
    /\ UNCHANGED <<sync, mem, sched, call, mp, removeable, pre, todo>>

\* QTHREAD_FASTLOCK_LOCK(&m->lock), then qt_hash_unlock.
LockM(t) ==
    /\ At(t, "mlock")
    /\ Op(t) # "status"
    /\ lock[mp[t]] = NULL
    /\ lock' = [lock EXCEPT ![mp[t]] = t]
    /\ stripe' = [stripe EXCEPT ![StripeOf[A(t)]] = NULL]
    /\ Goto(t, "body")
    /\ UNCHANGED <<table, live, full, EFQ, FEQ, FFQ, mem, sched,
                   call, res, mp, removeable, pre, todo>>

\* qthread_feb_status reads the bit with both locks held.
Status(t) ==
    /\ At(t, "mlock")
    /\ Op(t) = "status"
    /\ lock[mp[t]] = NULL
    /\ stripe' = [stripe EXCEPT ![StripeOf[A(t)]] = NULL]
    /\ Return(t, IF full[mp[t]] THEN "FULL" ELSE "EMPTY")
    /\ UNCHANGED <<table, live, lock, full, EFQ, FEQ, FFQ, mem, sched,
                   call, mp, removeable, pre, todo>>

-----------------------------------------------------------------------------
(* The operations, with m locked.                                          *)

\* QTHREAD_FASTLOCK_UNLOCK(&m->lock) and return.
UnlockReturn(t, r) ==
    /\ lock' = [lock EXCEPT ![mp[t]] = NULL]
    /\ Return(t, r)

\* Mutant of Block: unlock before switching.
Block_unlocked(t) ==
    /\ tstate' = [tstate EXCEPT ![t] = "FEB_BLOCKED"]
    /\ Goto(t, "switch")
    /\ lock' = [lock EXCEPT ![mp[t]] = NULL]
    /\ UNCHANGED res

\* Queue oneself and switch to the worker, keeping the lock.
Block(t) ==
    /\ tstate' = [tstate EXCEPT ![t] = "FEB_BLOCKED"]
    /\ Goto(t, "switch")
    /\ UNCHANGED <<lock, res>>

Push(q, o, t) == [q EXCEPT ![o] = <<t>> \o @]

\* Mutant of NoAddrres: return without unlocking.
NoAddrres_locked(t) ==
    /\ OutOfMemory
    /\ Return(t, MALLOC_ERROR)
    /\ UNCHANGED <<lock, tstate>>

\* ALLOC_ADDRRES returned NULL.
NoAddrres(t) ==
    /\ OutOfMemory
    /\ UnlockReturn(t, MALLOC_ERROR)
    /\ UNCHANGED tstate

readFE(t) ==
    /\ At(t, "body")
    /\ Op(t) \in {"readFE", "readFE_nb"}
    /\ LET m == mp[t] IN
       \/ /\ ~full[m]
          /\ Op(t) = "readFE"
          /\ Block(t)
          /\ FEQ' = Push(FEQ, m, t)
       \/ /\ ~full[m]
          /\ Op(t) = "readFE"
          /\ NoAddrres(t)
          /\ UNCHANGED FEQ
       \/ /\ ~full[m]
          /\ Op(t) = "readFE_nb"
          /\ UnlockReturn(t, OPFAIL)
          /\ UNCHANGED <<FEQ, tstate>>
       \/ /\ full[m]
          /\ Result(t, mem[A(t)])
          /\ Goto(t, "empty")
          /\ UNCHANGED <<lock, FEQ, tstate>>
    /\ UNCHANGED <<stripe, table, live, full, EFQ, FFQ, mem, ready, on,
                   call, mp, removeable, pre, todo>>

readFF(t) ==
    /\ At(t, "body")
    /\ Op(t) \in {"readFF", "readFF_nb"}
    /\ LET m == mp[t] IN
       \/ /\ ~full[m]
          /\ Op(t) = "readFF"
          /\ Block(t)
          /\ FFQ' = [FFQ EXCEPT ![m] = @ \cup {t}]
       \/ /\ ~full[m]
          /\ Op(t) = "readFF"
          /\ NoAddrres(t)
          /\ UNCHANGED FFQ
       \/ /\ ~full[m]
          /\ Op(t) = "readFF_nb"
          /\ UnlockReturn(t, OPFAIL)
          /\ UNCHANGED <<FFQ, tstate>>
       \/ /\ full[m]
          /\ UnlockReturn(t, mem[A(t)])
          /\ UNCHANGED <<FFQ, tstate>>
    /\ UNCHANGED <<stripe, table, live, full, EFQ, FEQ, mem, ready, on,
                   call, mp, removeable, pre, todo>>

writeEF(t) ==
    /\ At(t, "body")
    /\ Op(t) \in {"writeEF", "writeEF_nb"}
    /\ LET m == mp[t] IN
       \/ /\ full[m]
          /\ Op(t) = "writeEF"
          /\ Block(t)
          /\ EFQ' = Push(EFQ, m, t)
          /\ UNCHANGED mem
       \/ /\ full[m]
          /\ Op(t) = "writeEF"
          /\ NoAddrres(t)
          /\ UNCHANGED <<EFQ, mem>>
       \/ /\ full[m]
          /\ Op(t) = "writeEF_nb"
          /\ UnlockReturn(t, OPFAIL)
          /\ UNCHANGED <<EFQ, mem, tstate>>
       \/ /\ ~full[m]
          /\ mem' = [mem EXCEPT ![A(t)] = call[t].v]
          /\ Goto(t, "fill")
          /\ Result(t, SUCCESS)
          /\ UNCHANGED <<lock, EFQ, tstate>>
    /\ UNCHANGED <<stripe, table, live, full, FEQ, FFQ, ready, on,
                   call, mp, removeable, pre, todo>>

\* writeF, fill and empty act on any state; only writeF stores.
writeF_fill_empty(t) ==
    /\ At(t, "body")
    /\ Op(t) \in {"writeF", "fill", "empty"}
    /\ mem' = IF Op(t) = "writeF" THEN [mem EXCEPT ![A(t)] = call[t].v] ELSE mem
    /\ Goto(t, IF Op(t) = "empty" THEN "empty" ELSE "fill")
    /\ Result(t, SUCCESS)
    /\ UNCHANGED <<sync, sched, call, mp, removeable, pre, todo>>

\* readFF, readFF_nb and writeF of an address that had no addrstat: the copy
\* is made after the stripe was released, under no lock at all.
CopyUnlocked(t) ==
    /\ At(t, "nom")
    /\ \/ /\ Op(t) \in {"readFF", "readFF_nb"}
          /\ Return(t, mem[A(t)])
          /\ UNCHANGED mem
       \/ /\ Op(t) = "writeF"
          /\ mem' = [mem EXCEPT ![A(t)] = call[t].v]
          /\ Return(t, SUCCESS)
    /\ UNCHANGED <<sync, sched, call, mp, removeable, pre, todo>>

-----------------------------------------------------------------------------
(* Changing the bit and serving waiters: qthread_gotlock_fill_inner and    *)
(* qthread_gotlock_empty_inner, which call each other with recursive = 1.  *)

\* qt_feb_schedule: the waiters in S are RUNNING and in a ready queue.
Schedule(S) ==
    /\ ready' = ready \cup S
    /\ tstate' = [x \in Task |-> IF x \in S THEN "RUNNING" ELSE tstate[x]]

\* Mutants of gotlock_fill: FEQ is not served; FFQ is not reset; nascent tasks
\* are woken like readers; the taker does not empty the address.
FillVariant(t, new, taker, ffq, next) ==
    /\ At(t, "fill")
    /\ LET m == mp[t]
           woken == taker \cup (FFQ[m] \ new)
       IN
       /\ full' = [full EXCEPT ![m] = TRUE]
       /\ FFQ' = [FFQ EXCEPT ![m] = ffq]
       /\ FEQ' = [FEQ EXCEPT ![m] = IF taker = {} THEN @ ELSE Tail(@)]
       /\ Schedule(woken)
       /\ res' = [x \in Task |-> IF x \in woken THEN mem[A(t)] ELSE res[x]]
       /\ precond_tasks' = [precond_tasks EXCEPT ![t] = @ \cup new]
       /\ Goto(t, next)
    /\ UNCHANGED <<stripe, table, live, lock, EFQ, mem, on, call, mp, removeable,
                   checked, need, this_sync, todo>>
NascentIn(m) == {x \in FFQ[m] : tstate[x] = "NASCENT"}
Taker(m)     == IF FEQ[m] = <<>> THEN {} ELSE {Head(FEQ[m])}
AfterFill(m) == IF FEQ[m] = <<>> THEN "unlock" ELSE "empty"
gotlock_fill_no_taker(t) == FillVariant(t, NascentIn(mp[t]), {}, {}, "unlock")
gotlock_fill_no_nascent(t) == FillVariant(t, {}, Taker(mp[t]), {}, AfterFill(mp[t]))

\* Everyone in FFQ copies the word; nascent tasks are set aside.  Then one
\* waiter of FEQ takes the word, and the address is empty again.
gotlock_fill(t) ==
    /\ At(t, "fill")
    /\ LET m     == mp[t]
           new   == {x \in FFQ[m] : tstate[x] = "NASCENT"}
           taker == IF FEQ[m] = <<>> THEN {} ELSE {Head(FEQ[m])}
           woken == taker \cup (FFQ[m] \ new)
       IN
       /\ full' = [full EXCEPT ![m] = TRUE]
       /\ FFQ' = [FFQ EXCEPT ![m] = {}]
       /\ FEQ' = [FEQ EXCEPT ![m] = IF @ = <<>> THEN @ ELSE Tail(@)]
       /\ Schedule(woken)
       /\ res' = [x \in Task |-> IF x \in woken THEN mem[A(t)] ELSE res[x]]
       /\ precond_tasks' = [precond_tasks EXCEPT ![t] = @ \cup new]
       /\ Goto(t, IF taker = {} THEN "unlock" ELSE "empty")
    /\ UNCHANGED <<stripe, table, live, lock, EFQ, mem, on, call, mp, removeable,
                   checked, need, this_sync, todo>>

\* One waiter of EFQ stores its word, and the address is full again.
gotlock_empty(t) ==
    /\ At(t, "empty")
    /\ LET m     == mp[t]
           giver == IF EFQ[m] = <<>> THEN {} ELSE {Head(EFQ[m])}
       IN
       /\ full' = [full EXCEPT ![m] = FALSE]
       /\ EFQ' = [EFQ EXCEPT ![m] = IF @ = <<>> THEN @ ELSE Tail(@)]
       /\ mem' = IF giver = {} THEN mem
                 ELSE [mem EXCEPT ![A(t)] = call[Head(EFQ[m])].v]
       /\ Schedule(giver)
       /\ res' = [x \in Task |-> IF x \in giver THEN SUCCESS ELSE res[x]]
       /\ Goto(t, IF giver = {} THEN "unlock" ELSE "fill")
    /\ UNCHANGED <<stripe, table, live, lock, FEQ, FFQ, on, call, mp, removeable,
                   pre, todo>>

AfterUnlock(nascent, rm) == IF nascent # {} THEN "launch" ELSE IF rm THEN "rhash" ELSE "idle"

\* Mutant of gotlock_unlock: only a fill may leave an addrstat to remove.
gotlock_unlock_fill_only(t) ==
    /\ At(t, "unlock")
    /\ LET m  == mp[t]
           rm == Op(t) \in FillOps /\ full[m] /\ EFQ[m] = <<>> /\ FEQ[m] = <<>>
       IN
       /\ lock' = [lock EXCEPT ![m] = NULL]
       /\ removeable' = [removeable EXCEPT ![t] = rm]
       /\ Goto(t, AfterUnlock(precond_tasks[t], rm))
    /\ UNCHANGED <<stripe, table, live, full, EFQ, FEQ, FFQ, mem, sched,
                   call, res, mp, pre, todo>>

\* recursive == 0: decide on removal, unlock.
gotlock_unlock(t) ==
    /\ At(t, "unlock")
    /\ LET m  == mp[t]
           rm == /\ full[m] /\ EFQ[m] = <<>> /\ FEQ[m] = <<>>
                 /\ Op(t) \in EmptyOps => FFQ[m] = {}
       IN
       /\ lock' = [lock EXCEPT ![m] = NULL]
       /\ removeable' = [removeable EXCEPT ![t] = rm]
       /\ Goto(t, AfterUnlock(precond_tasks[t], rm))
    /\ UNCHANGED <<stripe, table, live, full, EFQ, FEQ, FFQ, mem, sched,
                   call, res, mp, pre, todo>>

-----------------------------------------------------------------------------
(* qthread_precond_launch and qthread_check_feb_preconds: the set-aside    *)
(* nascent tasks are checked one after the other, holding no lock between. *)

\* Take the next nascent task.
PickNascent(t) ==
    /\ At(t, "launch")
    /\ \E n \in precond_tasks[t] :
        /\ checked' = [checked EXCEPT ![t] = n]
        /\ precond_tasks' = [precond_tasks EXCEPT ![t] = @ \ {n}]
    /\ Goto(t, "check")
    /\ UNCHANGED <<sync, mem, sched, call, res, mp, removeable, need, this_sync, todo>>

\* All preconditions were seen full: the task is NEW and becomes ready.
Launch(t) ==
    /\ At(t, "check")
    /\ need[checked[t]] = <<>>
    /\ tstate' = [tstate EXCEPT ![checked[t]] = "NEW"]
    /\ ready' = ready \cup {checked[t]}
    /\ Goto(t, AfterUnlock(precond_tasks[t], removeable[t]))
    /\ UNCHANGED <<sync, mem, on, call, res, mp, removeable, pre, todo>>

\* Look the next precondition up; an absent address is full.
CheckHash(t) ==
    /\ At(t, "check")
    /\ need[checked[t]] # <<>>
    /\ LET a == This(t) IN
       /\ stripe[StripeOf[a]] = NULL
       /\ this_sync' = [this_sync EXCEPT ![t] = a]
       /\ \/ /\ table[a] = NULL
             /\ need' = [need EXCEPT ![checked[t]] = DropLast(@)]
             /\ UNCHANGED <<stripe, mp, pc>>
          \/ /\ table[a] # NULL
             /\ stripe' = [stripe EXCEPT ![StripeOf[a]] = t]
             /\ mp' = [mp EXCEPT ![t] = table[a]]
             /\ Goto(t, "cmlock")
             /\ UNCHANGED need
    /\ UNCHANGED <<table, live, lock, full, EFQ, FEQ, FFQ, mem, sched,
                   call, res, removeable, precond_tasks, checked, todo>>

CheckLockM(t) ==
    /\ At(t, "cmlock")
    /\ lock[mp[t]] = NULL
    /\ lock' = [lock EXCEPT ![mp[t]] = t]
    /\ stripe' = [stripe EXCEPT ![StripeOf[this_sync[t]]] = NULL]
    /\ Goto(t, "cbody")
    /\ UNCHANGED <<table, live, full, EFQ, FEQ, FFQ, mem, sched,
                   call, res, mp, removeable, pre, todo>>

\* Mutant of CheckPrecond: the nascent task is not queued.
CheckPrecond_unqueued(t) ==
    /\ At(t, "cbody")
    /\ lock' = [lock EXCEPT ![mp[t]] = NULL]
    /\ \/ /\ full[mp[t]]
          /\ need' = [need EXCEPT ![checked[t]] = DropLast(@)]
          /\ Goto(t, "check")
       \/ /\ ~full[mp[t]]
          /\ Goto(t, AfterUnlock(precond_tasks[t], removeable[t]))
          /\ UNCHANGED need
    /\ UNCHANGED <<stripe, table, live, full, EFQ, FEQ, FFQ, mem, sched,
                   call, res, mp, removeable, precond_tasks, checked, this_sync, todo>>

\* Full: go on with the next one.  Empty: the nascent task waits in FFQ, and
\* whoever fills the address will check it again.
CheckPrecond(t) ==
    /\ At(t, "cbody")
    /\ lock' = [lock EXCEPT ![mp[t]] = NULL]
    /\ \/ /\ full[mp[t]]
          /\ need' = [need EXCEPT ![checked[t]] = DropLast(@)]
          /\ Goto(t, "check")
          /\ UNCHANGED <<FFQ, tstate>>
       \/ /\ ~full[mp[t]]
          /\ FFQ' = [FFQ EXCEPT ![mp[t]] = @ \cup {checked[t]}]
          /\ tstate' = [tstate EXCEPT ![checked[t]] = "NASCENT"]
          /\ Goto(t, AfterUnlock(precond_tasks[t], removeable[t]))
          /\ UNCHANGED need
    /\ UNCHANGED <<stripe, table, live, full, EFQ, FEQ, mem, ready, on,
                   call, res, mp, removeable, precond_tasks, checked, this_sync, todo>>

-----------------------------------------------------------------------------
(* qthread_FEB_remove: called after m was unlocked, so it looks again.     *)

RemoveLockHash(t) ==
    /\ At(t, "rhash")
    /\ stripe[StripeOf[A(t)]] = NULL
    /\ \/ /\ table[A(t)] = NULL
          /\ Goto(t, "idle")
          /\ UNCHANGED <<stripe, mp>>
       \/ /\ table[A(t)] # NULL
          /\ stripe' = [stripe EXCEPT ![StripeOf[A(t)]] = t]
          /\ mp' = [mp EXCEPT ![t] = table[A(t)]]
          /\ Goto(t, "rmlock")
    /\ UNCHANGED <<table, live, lock, full, EFQ, FEQ, FFQ, mem, sched,
                   call, res, removeable, pre, todo>>

RemoveLockM(t) ==
    /\ At(t, "rmlock")
    /\ lock[mp[t]] = NULL
    /\ stripe' = [stripe EXCEPT ![StripeOf[A(t)]] = NULL]
    /\ \/ /\ Removable(mp[t])
          /\ lock' = [lock EXCEPT ![mp[t]] = t]
          /\ table' = [table EXCEPT ![A(t)] = NULL]
          /\ Goto(t, "rdelete")
       \/ /\ ~Removable(mp[t])
          /\ Goto(t, "idle")
          /\ UNCHANGED <<lock, table>>
    /\ UNCHANGED <<live, full, EFQ, FEQ, FFQ, mem, sched,
                   call, res, mp, removeable, pre, todo>>

\* Unlock the addrstat and give it back to the pool.
RemoveDelete(t) ==
    /\ At(t, "rdelete")
    /\ lock' = [lock EXCEPT ![mp[t]] = NULL]
    /\ live' = live \ {mp[t]}
    /\ Goto(t, "idle")
    /\ UNCHANGED <<stripe, table, full, EFQ, FEQ, FFQ, mem, sched,
                   call, res, mp, removeable, pre, todo>>

-----------------------------------------------------------------------------

\* The tasks that only exist once some task spawns them.
Spawned(s) == {x \in Task : \E t \in Task : \E i \in DOMAIN s[t] :
                                s[t][i].op = "spawn" /\ s[t][i].n = x}

Init ==
    /\ todo \in Scripts
    /\ stripe = [s \in Stripe |-> NULL]
    /\ table = [a \in Addr |-> NULL]
    /\ live = {}
    /\ lock = [o \in Obj |-> NULL]
    /\ full = [o \in Obj |-> TRUE]
    /\ EFQ = [o \in Obj |-> <<>>]
    /\ FEQ = [o \in Obj |-> <<>>]
    /\ FFQ = [o \in Obj |-> {}]
    /\ mem = [a \in Addr |-> v0]
    /\ ready = Task \ Spawned(todo)
    /\ on = [w \in Worker |-> NULL]
    /\ tstate = [t \in Task |-> IF t \in Spawned(todo) THEN "NASCENT" ELSE "NEW"]
    /\ pc = [t \in Task |-> IF t \in Spawned(todo) THEN "unborn" ELSE "idle"]
    /\ call = [t \in Task |-> NoCall]
    /\ res = [t \in Task |-> NULL]
    /\ mp = [t \in Task |-> NULL]
    /\ removeable = [t \in Task |-> FALSE]
    /\ precond_tasks = [t \in Task |-> {}]
    /\ checked = [t \in Task |-> NULL]
    /\ need = [t \in Task |-> IF t \in Spawned(todo) THEN Preconds[t] ELSE <<>>]
    /\ this_sync = [t \in Task |-> NULL]

\* What a running task does next.
Step(t) ==
    \/ Begin(t)
    \/ LockHashFound(t) \/ LockHashInsert(t) \/ LockHashNoMemory(t) \/ LockHashAbsent(t)
    \/ LockM(t) \/ Status(t)
    \/ readFE(t) \/ readFF(t) \/ writeEF(t) \/ writeF_fill_empty(t) \/ CopyUnlocked(t)
    \/ gotlock_fill(t) \/ gotlock_empty(t) \/ gotlock_unlock(t)
    \/ PickNascent(t) \/ Launch(t) \/ CheckHash(t) \/ CheckLockM(t) \/ CheckPrecond(t)
    \/ RemoveLockHash(t) \/ RemoveLockM(t) \/ RemoveDelete(t)

Master(w) == (\E t \in Task : Dispatch(w, t)) \/ MasterUnlock(w) \/ Terminate(w)

\* Every task has ended or waits for a change that nobody is left to make.
Quiescent ==
    /\ ready = {}
    /\ \A w \in Worker : on[w] = NULL
    /\ UNCHANGED vars

Next ==
    \/ \E t \in Task : Step(t)
    \/ \E w \in Worker : Master(w)
    \/ Quiescent

\* Workers are pthreads that never stop: each keeps running its task and its loop.
Fairness ==
    /\ \A t \in Task : WF_vars(Step(t))
    /\ \A w \in Worker : WF_vars(Master(w))

Spec == Init /\ [][Next]_vars

-----------------------------------------------------------------------------
(* Properties.                                                             *)

PCs == {"unborn", "idle", "hash", "mlock", "body", "nom", "fill", "empty", "unlock", "launch",
        "check", "cmlock", "cbody", "rhash", "rmlock", "rdelete", "switch", "blocked",
        "done"}

TStates == {"NASCENT", "NEW", "RUNNING", "FEB_BLOCKED", "TERMINATED"}

\* Where a task holds the lock of the addrstat it points to, and where it holds
\* a stripe's lock and is about to take that of the addrstat.
HoldsM   == {"body", "fill", "empty", "unlock", "cbody", "rdelete", "switch"}
HoldsHash == {"mlock", "cmlock", "rmlock"}

\* Where a task checks the preconditions of another.
Checking == {"check", "cmlock", "cbody"}

Types ==
    /\ stripe \in [Stripe -> Task \cup {NULL}]
    /\ table \in [Addr -> Obj \cup {NULL}]
    /\ live \in SUBSET Obj
    /\ lock \in [Obj -> Task \cup {NULL}]
    /\ full \in [Obj -> BOOLEAN]
    /\ EFQ \in [Obj -> Seq(Task)] /\ FEQ \in [Obj -> Seq(Task)] /\ FFQ \in [Obj -> SUBSET Task]
    /\ mem \in [Addr -> Val]
    /\ ready \in SUBSET Task
    /\ on \in [Worker -> Task \cup {NULL}]
    /\ tstate \in [Task -> TStates]
    /\ pc \in [Task -> PCs]
    /\ call \in [Task -> Call \cup {NoCall}]
    /\ res \in [Task -> Results]
    /\ mp \in [Task -> Obj \cup {NULL}]
    /\ removeable \in [Task -> BOOLEAN]
    /\ precond_tasks \in [Task -> SUBSET Task]
    /\ checked \in [Task -> Task \cup {NULL}]
    /\ need \in [Task -> Seq(Addr)]
    /\ this_sync \in [Task -> Addr \cup {NULL}]
    /\ todo \in [Task -> Seq(Call)]

\* Every variable keeps its C type, and a local pointer points somewhere where
\* the code follows it.
TypeOK ==
    /\ Types
    /\ \A t \in Task : pc[t] \in HoldsM \cup HoldsHash => mp[t] \in Obj
    /\ \A t \in Task : pc[t] \in Checking => checked[t] \in Task
    /\ \A t \in Task : pc[t] = "cmlock" => this_sync[t] \in Addr

\* Whenever nobody holds an addrstat's lock its lists agree with its bit: no
\* reader waits for a full word and no writer for an empty one
\* (qthread_gotlock_fill_inner and qthread_gotlock_empty_inner leave none).
NoStrandedWaiter == \A o \in live : lock[o] = NULL => Settled(o)

\* The pointer m is only followed while the addrstat is allocated: nobody can
\* be waiting for the lock of an addrstat that qthread_FEB_remove deletes.
NoDanglingPointer ==
    /\ \A t \in Task : pc[t] \in HoldsM \cup HoldsHash => mp[t] \in live
    /\ \A a \in Addr : table[a] # NULL => table[a] \in live

\* A task is in one place at a time: on one worker, in a ready queue, or in one
\* list once.  In particular a waker never makes a task ready whose context
\* its worker has not saved yet (the lock is kept across the switch).
Positions(q, t) == {i \in 1..Len(q) : q[i] = t}
Waiting(t) ==
    (UNION {{<<"EF", o, i>> : i \in Positions(EFQ[o], t)} : o \in live})
    \cup (UNION {{<<"FE", o, i>> : i \in Positions(FEQ[o], t)} : o \in live})
    \cup {<<"FF", o, 0>> : o \in {o \in live : t \in FFQ[o]}}
    \cup {<<"precond", x, 0>> : x \in {x \in Task :
            \/ t \in precond_tasks[x]
            \/ checked[x] = t /\ pc[x] \in Checking}}

OnePlace ==
    \A t \in Task :
        /\ t \in ready => Waiting(t) = {} /\ ~Running(t)
        /\ Cardinality(Waiting(t)) <= 1
        /\ Cardinality({w \in Worker : on[w] = t}) <= 1
        /\ Running(t) /\ Waiting(t) # {} => pc[t] = "switch"

\* qthread_master: "All preconditions should be satisfied before reaching the
\* main scheduling loop".
ReadyHasNoPreconds ==
    \A t \in Task : t \in ready \/ Running(t) => tstate[t] # "NASCENT" /\ need[t] = <<>>

\* Whichever error path an operation takes, a lock is only held by a running task
\* inside its critical section, and no addrstat is lost: one that is allocated is
\* in the table or about to be deleted.
LocksReleased ==
    /\ \A o \in Obj : lock[o] # NULL =>
           Running(lock[o]) /\ pc[lock[o]] \in HoldsM /\ mp[lock[o]] = o
    /\ \A s \in Stripe : stripe[s] # NULL =>
           Running(stripe[s]) /\ pc[stripe[s]] \in HoldsHash
    /\ \A o \in live : \/ \E a \in Addr : table[a] = o
                       \/ \E t \in Task : pc[t] = "rdelete" /\ mp[t] = o
=============================================================================
