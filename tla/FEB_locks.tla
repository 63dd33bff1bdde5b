------------------------------ MODULE FEB_locks ------------------------------
(***************************************************************************)
(* The inductive invariant of FEB in parts; that every step keeps the      *)
(* types and the tasks' local pointers; and what each kind of step does to *)
(* the locks.  For every set of tasks, workers, addresses, values and      *)
(* programs.                                                               *)
(***************************************************************************)
EXTENDS FEB, TLAPS

\* A task checks somebody's preconditions, and looks one of them up.
LocalInv ==
    /\ \A t \in Task : pc[t] \in Checking => checked[t] \in Task
    /\ \A t \in Task : pc[t] = "cmlock" => this_sync[t] \in Addr

\* The address a task with a stripe's lock looks up.
Looked(t) == IF pc[t] = "cmlock" THEN this_sync[t] ELSE A(t)

\* The table under its stripes' locks, and the addrstats' locks.
TableInv ==
    /\ \A a \in Addr : table[a] # NULL => table[a] \in live
    /\ \A a, b \in Addr : table[a] # NULL /\ table[a] = table[b] => a = b
StripeInv ==
    \A t \in Task : pc[t] \in HoldsHash =>
        stripe[StripeOf[Looked(t)]] = t /\ table[Looked(t)] = mp[t] /\ mp[t] # NULL
HolderInv ==
    /\ \A t \in Task : pc[t] \in HoldsM => mp[t] \in live /\ lock[mp[t]] = t
    /\ \A o \in Obj : lock[o] # NULL => pc[lock[o]] \in HoldsM /\ mp[lock[o]] = o
DeleteInv ==
    \A t \in Task : pc[t] = "rdelete" => \A a \in Addr : table[a] # mp[t]
LockInv == TableInv /\ StripeInv /\ HolderInv /\ DeleteInv

\* The lists agree with the bit, except between the two halves of a change.
SettledInv ==
    /\ \A o \in Obj : Settled(o) \/ (lock[o] # NULL /\ pc[lock[o]] \in {"fill", "empty"})
    /\ \A t \in Task : pc[t] = "rdelete" => Removable(mp[t])
    /\ \A o \in Obj \ live : EFQ[o] = <<>> /\ FEQ[o] = <<>> /\ FFQ[o] = {}

\* The place-holder call has an address and a value.
LEMMA NoCallType == NoCall \in [op : {"none"}, a : Addr, v : Val, n : {NULL}] /\ v0 \in Val
  BY Zenon, ConstantsAssumption DEF NoCall, v0

\* A task's call has an address and a value.
LEMMA CallType ==
    ASSUME Types, NEW t \in Task
    PROVE  A(t) \in Addr /\ call[t].v \in Val
  BY Zenon, NoCallType DEF Types, Call, A

\* The next call of a program.
LEMMA NextCall ==
    ASSUME Types, NEW t \in Task, todo[t] # <<>>
    PROVE  /\ Head(todo[t]) \in Call /\ Tail(todo[t]) \in Seq(Call)
           /\ Head(todo[t]).op = "spawn" => Head(todo[t]).n \in Task
<1>1. todo[t] \in Seq(Call)
  BY Zenon DEF Types
<1>2. Head(todo[t]) \in Call /\ Tail(todo[t]) \in Seq(Call)
  BY <1>1
<1> QED
  BY Zenon, <1>2 DEF Call

\* The precondition looked at exists.
LEMMA ThisType ==
    ASSUME Types, LocalInv, NEW t \in Task, pc[t] \in Checking, need[checked[t]] # <<>>
    PROVE  This(t) \in Addr /\ DropLast(need[checked[t]]) \in Seq(Addr)
<1>1. need[checked[t]] \in Seq(Addr)
  BY Zenon DEF Types, LocalInv
<1> QED
  BY <1>1 DEF This, DropLast

\* Counting one precondition down leaves a list of addresses.
LEMMA DropLastType ==
    ASSUME NEW q \in Seq(Addr)
    PROVE  DropLast(q) \in Seq(Addr)
  BY DEF DropLast

\* A task pushed on a list of waiters leaves a list of tasks.
LEMMA PushType ==
    ASSUME NEW q \in [Obj -> Seq(Task)], NEW t \in Task, NEW o
    PROVE  Push(q, o, t) \in [Obj -> Seq(Task)]
<1>1. ASSUME NEW s \in Seq(Task) PROVE <<t>> \o s \in Seq(Task)
  OBVIOUS
<1> QED
  BY Zenon, <1>1 DEF Push

\* The parts that actions are built from keep the types.
LEMMA PartTypes ==
    ASSUME Types, NEW t \in Task
    PROVE  /\ \A l \in PCs : Goto(t, l) => pc' \in [Task -> PCs]
           /\ \A r \in Results : Result(t, r) => res' \in [Task -> Results]
           /\ \A m : lock' = [lock EXCEPT ![m] = NULL] => lock' \in [Obj -> Task \cup {NULL}]
           /\ \A s : stripe' = [stripe EXCEPT ![s] = t] => stripe' \in [Stripe -> Task \cup {NULL}]
           /\ \A o \in Obj : mp' = [mp EXCEPT ![t] = o] => mp' \in [Task -> Obj \cup {NULL}]
           /\ mem[A(t)] \in Results
  BY Zenon, CallType DEF Types, Goto, Result, Results

\* qt_feb_schedule keeps the types of the scheduler's state.
LEMMA ScheduleType ==
    ASSUME Types, NEW S \in SUBSET Task, Schedule(S)
    PROVE  /\ ready' \in SUBSET Task
           /\ tstate' \in [Task -> TStates]
  BY Zenon DEF Types, TStates, Schedule

\* Every step keeps the types.
LEMMA TypeStep ==
    ASSUME Types, LocalInv, LockInv, [Next]_vars
    PROVE  Types'
<1> USE DEF sync, sched, pre, local, vars
<1>1. ASSUME NEW w \in Worker, NEW t \in Task, Dispatch(w, t) PROVE Types'
  BY Zenon, <1>1 DEF Types, PCs, Goto, Dispatch
<1>2. ASSUME NEW w \in Worker, MasterUnlock(w) PROVE Types'
  BY Zenon, <1>2, ConstantsAssumption DEF Types, PCs, Goto, MasterUnlock
<1>3. ASSUME NEW w \in Worker, Terminate(w) PROVE Types'
  BY Zenon, <1>3, ConstantsAssumption DEF Types, TStates, PCs, Goto, Terminate
<1>4. ASSUME NEW t \in Task, Begin(t) PROVE Types'
  <2> DEFINE c == Head(todo[t])
  <2>1. c \in Call /\ Tail(todo[t]) \in Seq(Call)
    BY <1>4 DEF Types, Begin
  <2>2. c.op = "spawn" => c.n \in Task
    BY Zenon, <2>1 DEF Call
  <2> HIDE DEF c
  <2>3. call' \in [Task -> Call \cup {NoCall}] /\ todo' \in [Task -> Seq(Call)]
    BY Zenon, <1>4, <2>1 DEF Begin, Types, c
  <2>4. pc' \in [Task -> PCs] /\ precond_tasks' \in [Task -> SUBSET Task]
    <3>1. CASE c.op # "spawn"
      BY ZenonT(60), <1>4, <3>1 DEF Types, Begin, c, Goto, PCs
    <3>2. CASE c.op = "spawn"
      <4>1. pc' = [pc EXCEPT ![c.n] = "idle", ![t] = "launch"]
        BY Zenon, <1>4, <3>2 DEF Begin, c
      <4>2. precond_tasks' = [precond_tasks EXCEPT ![t] = {c.n}]
        BY Zenon, <1>4, <3>2 DEF Begin, c
      <4>3. pc' \in [Task -> PCs]
        BY Zenon, <4>1 DEF Types, PCs
      <4> QED
        BY Zenon, <2>2, <3>2, <4>2, <4>3 DEF Types
    <3> QED
      BY Zenon, <3>1, <3>2
  <2>5. removeable' \in [Task -> BOOLEAN]
    BY Zenon, <1>4 DEF Begin, Types
  <2> QED
    BY Zenon, <1>4, <2>3, <2>4, <2>5 DEF Types, Begin
<1>5. ASSUME NEW t \in Task, LockHashFound(t) PROVE Types'
  BY Zenon, <1>5, CallType DEF Types, PCs, Goto, LockHashFound
<1>6. ASSUME NEW t \in Task, LockHashInsert(t) PROVE Types'
  <2>1. PICK o \in Obj \ live : LockHashInsert(t)!5!(o)
    BY Zenon, <1>6 DEF LockHashInsert
  <2>2. live' \in SUBSET Obj /\ table' \in [Addr -> Obj \cup {NULL}] /\ full' \in [Obj -> BOOLEAN]
    BY Zenon, <2>1 DEF Types
  <2>3. pc' \in [Task -> PCs] /\ res' \in [Task -> Results]
    BY Zenon, <2>1, PartTypes DEF Types, PCs, Results, Return
  <2>4. stripe' \in [Stripe -> Task \cup {NULL}] /\ mp' \in [Task -> Obj \cup {NULL}]
    BY Zenon, <2>1, PartTypes DEF Types
  <2> QED
    BY Zenon, <1>6, <2>2, <2>3, <2>4 DEF Types, LockHashInsert
<1>7. ASSUME NEW t \in Task, LockHashNoMemory(t) PROVE Types'
  BY Zenon, <1>7, PartTypes DEF Types, PCs, Results, Return, LockHashNoMemory
<1>8. ASSUME NEW t \in Task, LockHashAbsent(t) PROVE Types'
  <2>1. pc' \in [Task -> PCs] /\ res' \in [Task -> Results]
    BY Zenon, <1>8, PartTypes DEF Types, PCs, Results, LockHashAbsent, Return
  <2> QED
    BY Zenon, <1>8, <2>1 DEF Types, LockHashAbsent
<1>9. ASSUME NEW t \in Task, LockM(t) PROVE Types'
  BY Zenon, <1>9 DEF Types, PCs, Goto, LockM
<1>10. ASSUME NEW t \in Task, Status(t) PROVE Types'
  <2>1. pc' \in [Task -> PCs] /\ res' \in [Task -> Results]
    BY Zenon, <1>10, PartTypes DEF PCs, Results, Status, Return
  <2> QED
    BY Zenon, <1>10, <2>1 DEF Types, Status
<1>11. ASSUME NEW t \in Task, readFE(t) PROVE Types'
  <2>1. pc' \in [Task -> PCs] /\ res' \in [Task -> Results] /\ lock' \in [Obj -> Task \cup {NULL}]
    BY Zenon, <1>11, PartTypes DEF Types, PCs, Results, readFE, Return, UnlockReturn, Block, NoAddrres
  <2>2. tstate' \in [Task -> TStates]
    BY Zenon, <1>11 DEF Types, TStates, readFE, Block, NoAddrres
  <2>3. FEQ' \in [Obj -> Seq(Task)]
    <3>1. Push(FEQ, mp[t], t) \in [Obj -> Seq(Task)]
      BY Zenon, PushType DEF Types
    <3> QED
      BY Zenon, <1>11, <3>1 DEF Types, readFE
  <2> QED
    BY Zenon, <1>11, <2>1, <2>2, <2>3 DEF Types, readFE
<1>12. ASSUME NEW t \in Task, readFF(t) PROVE Types'
  <2>1. pc' \in [Task -> PCs] /\ res' \in [Task -> Results] /\ lock' \in [Obj -> Task \cup {NULL}]
    BY Zenon, <1>12, PartTypes DEF Types, PCs, Results, readFF, Return, UnlockReturn, Block, NoAddrres
  <2>2. tstate' \in [Task -> TStates]
    BY Zenon, <1>12 DEF Types, TStates, readFF, Block, NoAddrres
  <2>3. FFQ' \in [Obj -> SUBSET Task]
    <3>1. [FFQ EXCEPT ![mp[t]] = @ \cup {t}] \in [Obj -> SUBSET Task]
      BY Zenon DEF Types
    <3> QED
      BY Zenon, <1>12, <3>1 DEF Types, readFF
  <2> QED
    BY Zenon, <1>12, <2>1, <2>2, <2>3 DEF Types, readFF
<1>13. ASSUME NEW t \in Task, writeEF(t) PROVE Types'
  <2>1. pc' \in [Task -> PCs] /\ res' \in [Task -> Results] /\ lock' \in [Obj -> Task \cup {NULL}]
    BY Zenon, <1>13, PartTypes DEF Types, PCs, Results, writeEF, Return, UnlockReturn, Block, NoAddrres
  <2>2. tstate' \in [Task -> TStates]
    BY Zenon, <1>13 DEF Types, TStates, writeEF, Block, NoAddrres
  <2>3. EFQ' \in [Obj -> Seq(Task)] /\ mem' \in [Addr -> Val]
    <3>1. EFQ \in [Obj -> Seq(Task)] /\ mem \in [Addr -> Val]
      BY Zenon DEF Types
    <3>2. Push(EFQ, mp[t], t) \in [Obj -> Seq(Task)]
      BY Zenon, <3>1, PushType
    <3>3. [mem EXCEPT ![A(t)] = call[t].v] \in [Addr -> Val]
      BY Zenon, <3>1, CallType
    <3> QED
      BY Zenon, <1>13, <3>1, <3>2, <3>3 DEF writeEF
  <2> QED
    BY Zenon, <1>13, <2>1, <2>2, <2>3 DEF Types, writeEF
<1>14. ASSUME NEW t \in Task, writeF_fill_empty(t) PROVE Types'
  <2>1. pc' \in [Task -> PCs] /\ res' \in [Task -> Results] /\ mem' \in [Addr -> Val]
    BY Zenon, <1>14, PartTypes, CallType DEF Types, PCs, Results, writeF_fill_empty
  <2> QED
    BY Zenon, <1>14, <2>1 DEF Types, writeF_fill_empty
<1>15. ASSUME NEW t \in Task, CopyUnlocked(t) PROVE Types'
  <2>1. pc' \in [Task -> PCs] /\ res' \in [Task -> Results]
    BY Zenon, <1>15, PartTypes DEF PCs, Results, CopyUnlocked, Return
  <2>2. mem' \in [Addr -> Val]
    BY Zenon, <1>15, CallType DEF Types, CopyUnlocked
  <2> QED
    BY Zenon, <1>15, <2>1, <2>2 DEF Types, CopyUnlocked
<1>16. ASSUME NEW t \in Task, gotlock_fill(t) PROVE Types'
  <2> DEFINE m == mp[t]
             new == {x \in FFQ[m] : tstate[x] = "NASCENT"}
             taker == IF FEQ[m] = <<>> THEN {} ELSE {Head(FEQ[m])}
             woken == taker \cup (FFQ[m] \ new)
  <2>1. woken \in SUBSET Task /\ new \in SUBSET Task
    BY <1>16 DEF Types, LockInv, HolderInv, HoldsM, gotlock_fill, At
  <2>2. ready' \in SUBSET Task /\ tstate' \in [Task -> TStates]
    BY Zenon, <1>16, <2>1, ScheduleType DEF gotlock_fill
  <2>3. full' \in [Obj -> BOOLEAN] /\ FFQ' \in [Obj -> SUBSET Task] /\ FEQ' \in [Obj -> Seq(Task)]
    <3>1. ASSUME NEW q \in Seq(Task) PROVE (IF q = <<>> THEN q ELSE Tail(q)) \in Seq(Task)
      OBVIOUS
    <3>2. [FEQ EXCEPT ![m] = IF @ = <<>> THEN @ ELSE Tail(@)] \in [Obj -> Seq(Task)]
      BY Zenon, <3>1 DEF Types
    <3>3. [full EXCEPT ![m] = TRUE] \in [Obj -> BOOLEAN] /\ [FFQ EXCEPT ![m] = {}] \in [Obj -> SUBSET Task]
      BY Zenon DEF Types
    <3> QED
      BY Zenon, <1>16, <3>2, <3>3 DEF gotlock_fill
  <2>4. pc' \in [Task -> PCs] /\ res' \in [Task -> Results]
    BY Zenon, <1>16, PartTypes DEF gotlock_fill, Types, PCs
  <2>5. precond_tasks' \in [Task -> SUBSET Task]
    BY Zenon, <1>16, <2>1 DEF gotlock_fill, Types
  <2> QED
    BY Zenon, <1>16, <2>2, <2>3, <2>4, <2>5 DEF Types, gotlock_fill
<1>17. ASSUME NEW t \in Task, gotlock_empty(t) PROVE Types'
  <2> DEFINE m == mp[t]
             giver == IF EFQ[m] = <<>> THEN {} ELSE {Head(EFQ[m])}
  <2>1. giver \in SUBSET Task
    BY <1>17 DEF Types, LockInv, HolderInv, HoldsM, gotlock_empty, At
  <2>2. ready' \in SUBSET Task /\ tstate' \in [Task -> TStates]
    BY Zenon, <1>17, <2>1, ScheduleType DEF gotlock_empty
  <2>3. full' \in [Obj -> BOOLEAN] /\ EFQ' \in [Obj -> Seq(Task)]
    <3>1. ASSUME NEW q \in Seq(Task) PROVE (IF q = <<>> THEN q ELSE Tail(q)) \in Seq(Task)
      OBVIOUS
    <3>2. [EFQ EXCEPT ![m] = IF @ = <<>> THEN @ ELSE Tail(@)] \in [Obj -> Seq(Task)]
      BY Zenon, <3>1 DEF Types
    <3>3. [full EXCEPT ![m] = FALSE] \in [Obj -> BOOLEAN]
      BY Zenon DEF Types
    <3> QED
      BY Zenon, <1>17, <3>2, <3>3 DEF gotlock_empty
  <2>4. pc' \in [Task -> PCs] /\ res' \in [Task -> Results]
    BY Zenon, <1>17, PartTypes DEF gotlock_empty, Types, PCs, Results
  <2>5. mem' \in [Addr -> Val]
    <3>1. EFQ[m] # <<>> => Head(EFQ[m]) \in Task
      BY Zenon, <2>1
    <3>2. EFQ[m] # <<>> => call[Head(EFQ[m])].v \in Val
      BY Zenon, <3>1, CallType
    <3> QED
      BY Zenon, <1>17, <3>2 DEF gotlock_empty, Types
  <2> QED
    BY Zenon, <1>17, <2>2, <2>3, <2>4, <2>5 DEF Types, gotlock_empty
<1>18. ASSUME NEW t \in Task, gotlock_unlock(t) PROVE Types'
  BY Zenon, <1>18 DEF Types, PCs, Goto, gotlock_unlock, AfterUnlock
<1>19. ASSUME NEW t \in Task, PickNascent(t) PROVE Types'
  BY <1>19 DEF Types, PCs, Goto, PickNascent
<1>20. ASSUME NEW t \in Task, Launch(t) PROVE Types'
  <2>1. checked[t] \in Task
    BY Zenon, <1>20 DEF Launch, At, LocalInv, Checking
  <2>2. pc' \in [Task -> PCs]
    BY Zenon, <1>20, PartTypes DEF Launch, AfterUnlock, PCs
  <2>3. ready' \in SUBSET Task /\ tstate' \in [Task -> TStates]
    BY Zenon, <1>20, <2>1 DEF Launch, Types, TStates
  <2> QED
    BY Zenon, <1>20, <2>2, <2>3 DEF Types, Launch
<1>21. ASSUME NEW t \in Task, CheckHash(t) PROVE Types'
  <2>1. This(t) \in Addr /\ DropLast(need[checked[t]]) \in Seq(Addr)
    BY Zenon, <1>21, ThisType DEF CheckHash, At, Checking
  <2>2. pc' \in [Task -> PCs]
    BY Zenon, <1>21, PartTypes DEF Types, PCs, CheckHash
  <2>3. need' \in [Task -> Seq(Addr)] /\ this_sync' \in [Task -> Addr \cup {NULL}]
    <3>1. \/ need' = need
          \/ need' = [need EXCEPT ![checked[t]] = DropLast(need[checked[t]])]
      BY Zenon, <1>21 DEF CheckHash
    <3>2. this_sync' = [this_sync EXCEPT ![t] = This(t)]
      BY Zenon, <1>21 DEF CheckHash
    <3>3. need' \in [Task -> Seq(Addr)]
      BY Zenon, <2>1, <3>1 DEF Types
    <3> QED
      BY Zenon, <2>1, <3>2, <3>3 DEF Types
  <2>4. stripe' \in [Stripe -> Task \cup {NULL}] /\ mp' \in [Task -> Obj \cup {NULL}]
    <3>1. table[This(t)] \in Obj \cup {NULL}
      BY Zenon, <2>1 DEF Types
    <3> QED
      BY Zenon, <1>21, <3>1, PartTypes DEF Types, CheckHash
  <2> QED
    BY Zenon, <1>21, <2>2, <2>3, <2>4 DEF Types, CheckHash
<1>22. ASSUME NEW t \in Task, CheckLockM(t) PROVE Types'
  BY Zenon, <1>22 DEF Types, PCs, Goto, CheckLockM
<1>23. ASSUME NEW t \in Task, CheckPrecond(t) PROVE Types'
  <2>1. checked[t] \in Task
    BY Zenon, <1>23 DEF CheckPrecond, At, LocalInv, Checking
  <2>2. pc' \in [Task -> PCs]
    BY Zenon, <1>23, PartTypes DEF CheckPrecond, AfterUnlock, PCs
  <2>3. lock' \in [Obj -> Task \cup {NULL}]
    BY Zenon, <1>23, PartTypes DEF CheckPrecond
  <2>4. need' \in [Task -> Seq(Addr)] /\ FFQ' \in [Obj -> SUBSET Task] /\ tstate' \in [Task -> TStates]
    <3>1. CASE full[mp[t]]
      <4>1. need' = [need EXCEPT ![checked[t]] = DropLast(@)] /\ UNCHANGED <<FFQ, tstate>>
        BY Zenon, <1>23, <3>1 DEF CheckPrecond
      <4>2. need' \in [Task -> Seq(Addr)]
        BY Zenon, <4>1, DropLastType DEF Types
      <4> QED
        BY Zenon, <4>1, <4>2 DEF Types
    <3>2. CASE ~full[mp[t]]
      <4>1. FFQ' = [FFQ EXCEPT ![mp[t]] = @ \cup {checked[t]}]
        BY Zenon, <1>23, <3>2 DEF CheckPrecond
      <4>2. tstate' = [tstate EXCEPT ![checked[t]] = "NASCENT"] /\ need' = need
        BY Zenon, <1>23, <3>2 DEF CheckPrecond
      <4>3. FFQ' \in [Obj -> SUBSET Task]
        BY Zenon, <2>1, <4>1 DEF Types
      <4> QED
        BY Zenon, <2>1, <4>2, <4>3 DEF Types, TStates
    <3> QED
      BY Zenon, <3>1, <3>2
  <2> QED
    BY Zenon, <1>23, <2>2, <2>3, <2>4 DEF Types, CheckPrecond
<1>24. ASSUME NEW t \in Task, RemoveLockHash(t) PROVE Types'
  <2>1. pc' \in [Task -> PCs]
    BY Zenon, <1>24, PartTypes DEF RemoveLockHash, PCs
  <2>2. stripe' \in [Stripe -> Task \cup {NULL}] /\ mp' \in [Task -> Obj \cup {NULL}]
    <3>1. table[A(t)] \in Obj \cup {NULL}
      BY Zenon, CallType DEF Types
    <3> QED
      BY Zenon, <1>24, <3>1, PartTypes DEF Types, RemoveLockHash
  <2> QED
    BY Zenon, <1>24, <2>1, <2>2 DEF Types, RemoveLockHash
<1>25. ASSUME NEW t \in Task, RemoveLockM(t) PROVE Types'
  <2>1. pc' \in [Task -> PCs]
    BY Zenon, <1>25, PartTypes DEF RemoveLockM, PCs
  <2>2. stripe' \in [Stripe -> Task \cup {NULL}] /\ lock' \in [Obj -> Task \cup {NULL}]
    BY ZenonT(60), <1>25 DEF Types, RemoveLockM
  <2>3. table' \in [Addr -> Obj \cup {NULL}]
    BY Zenon, <1>25 DEF Types, RemoveLockM
  <2> QED
    BY Zenon, <1>25, <2>1, <2>2, <2>3 DEF Types, RemoveLockM
<1>26. ASSUME NEW t \in Task, RemoveDelete(t) PROVE Types'
  BY Zenon, <1>26 DEF Types, PCs, Goto, RemoveDelete
<1>27. CASE UNCHANGED vars
  BY Zenon, <1>27 DEF Types
<1> QED
  BY Zenon, <1>1, <1>2, <1>3, <1>4, <1>5, <1>6, <1>7, <1>8, <1>9, <1>10, <1>11, <1>12, <1>13, <1>14,
     <1>15, <1>16, <1>17, <1>18, <1>19, <1>20, <1>21, <1>22, <1>23, <1>24, <1>25, <1>26, <1>27
     DEF Next, Step, Master, Quiescent, vars


\* Moving one task leaves the others where they are.
LEMMA GotoFacts ==
    ASSUME Types, NEW t \in Task, NEW l, Goto(t, l)
    PROVE  pc'[t] = l /\ \A x \in Task : x # t => pc'[x] = pc[x]
  BY Zenon DEF Types, Goto

\* The types that the arguments about locks use.
LEMMA LockTypes ==
    ASSUME Types
    PROVE  /\ stripe \in [Stripe -> Task \cup {NULL}] /\ table \in [Addr -> Obj \cup {NULL}]
           /\ live \subseteq Obj /\ lock \in [Obj -> Task \cup {NULL}]
           /\ mp \in [Task -> Obj \cup {NULL}]
  BY Zenon DEF Types

-----------------------------------------------------------------------------
(* The locks.                                                              *)

\* What a task's step leaves alone of the other tasks.
Quiet == {"unborn", "idle", "blocked"}
Others(t) ==
    \A x \in Task : x # t =>
        /\ mp'[x] = mp[x]
        /\ pc'[x] = pc[x] \/ {pc[x], pc'[x]} \subseteq Quiet
        /\ call'[x] = call[x] /\ checked'[x] = checked[x] /\ this_sync'[x] = this_sync[x]

\* A step of t leaves the other tasks alone.
LEMMA OthersKept ==
    ASSUME Types, NEW t \in Task, Step(t)
    PROVE  Others(t)
<1> USE DEF sync, sched, pre, local, vars
<1> SUFFICES ASSUME NEW x \in Task, x # t
             PROVE  /\ mp'[x] = mp[x]
                    /\ pc'[x] = pc[x] \/ {pc[x], pc'[x]} \subseteq Quiet
                    /\ call'[x] = call[x] /\ checked'[x] = checked[x] /\ this_sync'[x] = this_sync[x]
  BY Zenon DEF Others
<1>1. call'[x] = call[x]
  <2>1. call' = call \/ \E c : call' = [call EXCEPT ![t] = c]
    BY Zenon DEF Step, Begin, LockHashFound, LockHashInsert, LockHashNoMemory, LockHashAbsent, LockM, Status,
           readFE, readFF, writeEF, writeF_fill_empty, CopyUnlocked, gotlock_fill, gotlock_empty,
           gotlock_unlock, PickNascent, Launch, CheckHash, CheckLockM, CheckPrecond,
           RemoveLockHash, RemoveLockM, RemoveDelete
  <2> QED
    BY Zenon, <2>1 DEF Types
<1>2. mp'[x] = mp[x]
  <2>1. mp' = mp \/ \E o : mp' = [mp EXCEPT ![t] = o]
    BY Zenon DEF Step, Begin, LockHashFound, LockHashInsert, LockHashNoMemory, LockHashAbsent, LockM, Status,
           readFE, readFF, writeEF, writeF_fill_empty, CopyUnlocked, gotlock_fill, gotlock_empty,
           gotlock_unlock, PickNascent, Launch, CheckHash, CheckLockM, CheckPrecond,
           RemoveLockHash, RemoveLockM, RemoveDelete
  <2> QED
    BY Zenon, <2>1 DEF Types
<1>3. checked'[x] = checked[x]
  <2>1. checked' = checked \/ \E n : checked' = [checked EXCEPT ![t] = n]
    BY Zenon DEF Step, Begin, LockHashFound, LockHashInsert, LockHashNoMemory, LockHashAbsent, LockM, Status,
           readFE, readFF, writeEF, writeF_fill_empty, CopyUnlocked, gotlock_fill, gotlock_empty,
           gotlock_unlock, PickNascent, Launch, CheckHash, CheckLockM, CheckPrecond,
           RemoveLockHash, RemoveLockM, RemoveDelete
  <2> QED
    BY Zenon, <2>1 DEF Types
<1>4. this_sync'[x] = this_sync[x]
  <2>1. this_sync' = this_sync \/ \E a : this_sync' = [this_sync EXCEPT ![t] = a]
    BY Zenon DEF Step, Begin, LockHashFound, LockHashInsert, LockHashNoMemory, LockHashAbsent, LockM, Status,
           readFE, readFF, writeEF, writeF_fill_empty, CopyUnlocked, gotlock_fill, gotlock_empty,
           gotlock_unlock, PickNascent, Launch, CheckHash, CheckLockM, CheckPrecond,
           RemoveLockHash, RemoveLockM, RemoveDelete
  <2> QED
    BY Zenon, <2>1 DEF Types
<1>5. pc'[x] = pc[x] \/ (pc[x] = "unborn" /\ pc'[x] = "idle")
  <2>1. CASE Begin(t)
    <3>1. CASE Head(todo[t]).op # "spawn"
      BY Zenon, <2>1, <3>1, GotoFacts DEF Begin
    <3>2. CASE Head(todo[t]).op = "spawn"
      <4> DEFINE s == Head(todo[t]).n
      <4>1. s \in Task /\ pc[s] = "unborn" /\ pc' = [pc EXCEPT ![s] = "idle", ![t] = "launch"]
        BY Zenon, <2>1, <3>2, NextCall DEF Begin
      <4> HIDE DEF s
      <4> QED
        BY Zenon, <4>1 DEF Types
    <3> QED
      BY Zenon, <3>1, <3>2
  <2>2. CASE ~Begin(t)
    <3>1. pc' = pc \/ \E l : Goto(t, l)
      BY Zenon, <2>2 DEF Step, LockHashFound, LockHashInsert, LockHashNoMemory, LockHashAbsent, LockM, Status,
             Return, UnlockReturn, NoAddrres, Block, readFE, readFF, writeEF, writeF_fill_empty,
             CopyUnlocked, gotlock_fill, gotlock_empty, gotlock_unlock, PickNascent, Launch, CheckHash,
             CheckLockM, CheckPrecond, RemoveLockHash, RemoveLockM, RemoveDelete
    <3> QED
      BY Zenon, <3>1, GotoFacts
  <2> QED
    BY Zenon, <2>1, <2>2
<1> QED
  BY Zenon, <1>1, <1>2, <1>3, <1>4, <1>5 DEF Quiet

\* A task that holds a stripe keeps it, and the address, while others move.
LEMMA OtherStays ==
    ASSUME NEW t \in Task, Others(t), NEW x \in Task, x # t, pc'[x] \in HoldsHash
    PROVE  pc[x] \in HoldsHash /\ mp'[x] = mp[x] /\ Looked(x)' = Looked(x)
  BY Zenon DEF Others, Quiet, HoldsHash, Looked, A

\* The address looked up under a stripe is an address.
LEMMA LookedType ==
    ASSUME Types, LocalInv, NEW t \in Task, pc[t] \in HoldsHash
    PROVE  Looked(t) \in Addr
  BY Zenon, CallType DEF Looked, LocalInv

\* Two tasks cannot be past the lock of one addrstat.
LEMMA HolderUnique ==
    ASSUME LockInv, NEW t \in Task, NEW u \in Task, pc[t] \in HoldsM, pc[u] \in HoldsM, mp[t] = mp[u]
    PROVE  t = u
  BY Zenon DEF LockInv, HolderInv

-----------------------------------------------------------------------------
\* Every step keeps LocalInv.
LEMMA LocalStep ==
    ASSUME Types, LocalInv, [Next]_vars
    PROVE  LocalInv'
<1> USE DEF sync, sched, pre, local, vars
<1>1. ASSUME NEW t \in Task, Others(t),
             pc'[t] \in Checking => checked'[t] \in Task,
             pc'[t] = "cmlock" => this_sync'[t] \in Addr
      PROVE  LocalInv'
  <2>1. ASSUME NEW x \in Task, x # t, pc'[x] \in Checking
        PROVE  pc[x] = pc'[x] /\ checked'[x] = checked[x] /\ this_sync'[x] = this_sync[x]
    BY Zenon, <1>1, <2>1 DEF Others, Quiet, Checking
  <2> QED
    BY Zenon, <1>1, <2>1 DEF LocalInv, Checking
<1>2. ASSUME NEW t \in Task, Step(t) PROVE LocalInv'
  <2>1. Others(t)
    BY Zenon, <1>2, OthersKept
  <2>2. CASE PickNascent(t)
    <3>1. checked'[t] \in Task
      BY <2>2 DEF PickNascent, Types
    <3>2. pc'[t] = "check"
      BY Zenon, <2>2, GotoFacts DEF PickNascent
    <3> QED
      BY Zenon, <1>1, <2>1, <3>1, <3>2
  <2>3. CASE CheckHash(t)
    <3>1. checked' = checked /\ pc[t] = "check"
      BY Zenon, <2>3 DEF CheckHash, At
    <3>2. This(t) \in Addr
      BY Zenon, <2>3, ThisType DEF CheckHash, At, Checking
    <3>3. this_sync'[t] \in Addr
      BY Zenon, <2>3, <3>2 DEF CheckHash, Types
    <3> QED
      BY Zenon, <1>1, <2>1, <3>1, <3>3 DEF LocalInv, Checking
  <2>4. CASE CheckLockM(t)
    <3>1. checked' = checked /\ pc[t] = "cmlock" /\ pc'[t] = "cbody"
      BY Zenon, <2>4, GotoFacts DEF CheckLockM, At
    <3> QED
      BY Zenon, <1>1, <2>1, <3>1 DEF LocalInv, Checking
  <2>5. CASE CheckPrecond(t)
    <3>1. checked' = checked /\ pc[t] = "cbody" /\ pc'[t] # "cmlock"
      BY <2>5, GotoFacts DEF CheckPrecond, At, AfterUnlock
    <3> QED
      BY Zenon, <1>1, <2>1, <3>1 DEF LocalInv, Checking
  <2>6. CASE ~(PickNascent(t) \/ CheckHash(t) \/ CheckLockM(t) \/ CheckPrecond(t))
    <3>1. CASE Begin(t)
      <4>1. pc'[t] \in {"hash", "launch"}
        BY Zenon, <3>1 DEF Begin, Goto, Types
      <4> QED
        BY Zenon, <1>1, <2>1, <4>1 DEF Checking
    <3>2. CASE ~Begin(t)
      <4>1. \E l \in PCs \ Checking : Goto(t, l)
        BY Zenon, <1>2, <2>6, <3>2 DEF Step, LockHashFound, LockHashInsert, LockHashNoMemory, LockHashAbsent,
               LockM, Status, Return, UnlockReturn, NoAddrres, Block, readFE, readFF, writeEF,
               writeF_fill_empty, CopyUnlocked, gotlock_fill, gotlock_empty, gotlock_unlock, Launch,
               RemoveLockHash, RemoveLockM, RemoveDelete, AfterUnlock, PCs, Checking
      <4> QED
        BY Zenon, <1>1, <2>1, <4>1, GotoFacts DEF Checking
    <3> QED
      BY Zenon, <3>1, <3>2
  <2> QED
    BY Zenon, <2>2, <2>3, <2>4, <2>5, <2>6
<1>3. ASSUME NEW w \in Worker, Master(w) PROVE LocalInv'
  <2>1. UNCHANGED <<checked, this_sync>>
    BY Zenon, <1>3 DEF Master, Dispatch, MasterUnlock, Terminate
  <2>2. \A x \in Task : pc'[x] \in Checking => pc[x] = pc'[x]
    <3>1. ASSUME NEW t \in Task, NEW l, Goto(t, l), l \notin Checking \/ l = pc[t]
          PROVE  \A x \in Task : pc'[x] \in Checking => pc[x] = pc'[x]
      BY Zenon, <3>1, GotoFacts
    <3>2. CASE \E t \in Task : Dispatch(w, t)
      BY Zenon, <3>1, <3>2 DEF Dispatch, Checking
    <3>3. CASE MasterUnlock(w)
      <4>1. on[w] \in Task
        BY Zenon, <3>3 DEF MasterUnlock, Types
      <4> QED
        BY Zenon, <3>1, <3>3, <4>1 DEF MasterUnlock, Checking
    <3>4. CASE Terminate(w)
      <4>1. on[w] \in Task
        BY Zenon, <3>4 DEF Terminate, Types
      <4> QED
        BY Zenon, <3>1, <3>4, <4>1 DEF Terminate, Checking
    <3> QED
      BY Zenon, <1>3, <3>2, <3>3, <3>4 DEF Master
  <2> QED
    BY Zenon, <2>1, <2>2 DEF LocalInv, Checking
<1>4. CASE UNCHANGED vars
  BY Zenon, <1>4 DEF LocalInv
<1> QED
  BY Zenon, <1>2, <1>3, <1>4 DEF Next, Quiescent

-----------------------------------------------------------------------------
(* The kinds of step, and LockInv: a task past a lock holds it, the table  *)
(* under a held stripe does not change, and nobody can reach an addrstat   *)
(* that is being deleted.                                                  *)

\* A step that takes and releases no lock:
LEMMA LockStay ==
    ASSUME Types, LocalInv, LockInv, NEW t \in Task, Others(t),
           UNCHANGED <<stripe, table, live, lock>>, mp'[t] = mp[t],
           pc[t] \notin HoldsHash, pc'[t] \notin HoldsHash \cup {"rdelete"},
           pc[t] \in HoldsM <=> pc'[t] \in HoldsM
    PROVE  LockInv'
<1>1. TableInv'
  BY Zenon DEF LockInv, TableInv
<1>2. StripeInv'
  BY Zenon, OtherStays DEF LockInv, StripeInv
<1>3. HolderInv'
  <2>1. \A x \in Task : mp'[x] = mp[x] /\ (pc[x] \in HoldsM <=> pc'[x] \in HoldsM)
    BY Zenon DEF Others, Quiet, HoldsM
  <2> QED
    BY <2>1, LockTypes DEF LockInv, HolderInv
<1>4. DeleteInv'
  BY Zenon DEF LockInv, DeleteInv, Others, Quiet
<1> QED
  BY Zenon, <1>1, <1>2, <1>3, <1>4 DEF LockInv

\* The holder of an addrstat's lock releases it.
LEMMA LockRelease ==
    ASSUME Types, LocalInv, LockInv, NEW t \in Task, Others(t),
           UNCHANGED <<stripe, table, live>>, mp'[t] = mp[t],
           lock' = [lock EXCEPT ![mp[t]] = NULL],
           pc[t] \in HoldsM, pc'[t] \notin HoldsHash \cup HoldsM
    PROVE  LockInv'
<1>0. mp[t] \in Obj /\ lock[mp[t]] = t
  BY Zenon, LockTypes DEF LockInv, HolderInv
<1>1. TableInv'
  BY Zenon DEF LockInv, TableInv
<1>2. StripeInv'
  BY Zenon, OtherStays DEF LockInv, StripeInv
<1>3. HolderInv'
  <2>1. \A x \in Task : x # t => mp'[x] = mp[x] /\ (pc[x] \in HoldsM <=> pc'[x] \in HoldsM)
    BY Zenon DEF Others, Quiet, HoldsM
  <2>2. lock'[mp[t]] = NULL /\ \A o \in Obj : o # mp[t] => lock'[o] = lock[o]
    BY Zenon, <1>0, LockTypes
  <2>3. \A x \in Task : x # t /\ pc[x] \in HoldsM => mp[x] # mp[t]
    BY Zenon, HolderUnique
  <2>4. (\A x \in Task : pc[x] \in HoldsM => mp[x] \in live /\ lock[mp[x]] = x)'
    <3> SUFFICES ASSUME NEW x \in Task, pc'[x] \in HoldsM
                 PROVE  mp'[x] \in live /\ lock'[mp'[x]] = x
      BY Zenon
    <3>1. x # t /\ pc[x] \in HoldsM /\ mp'[x] = mp[x] /\ mp[x] # mp[t]
      BY Zenon, <2>1, <2>3
    <3>2. mp[x] \in live /\ lock[mp[x]] = x /\ mp[x] \in Obj
      BY Zenon, <3>1, LockTypes DEF LockInv, HolderInv
    <3> QED
      BY Zenon, <2>2, <3>1, <3>2
  <2>5. (\A o \in Obj : lock[o] # NULL => pc[lock[o]] \in HoldsM /\ mp[lock[o]] = o)'
    BY <1>0, <2>1, <2>2, LockTypes DEF LockInv, HolderInv
  <2> QED
    BY Zenon, <2>4, <2>5 DEF HolderInv
<1>4. DeleteInv'
  BY Zenon DEF LockInv, DeleteInv, Others, Quiet, HoldsM
<1> QED
  BY Zenon, <1>1, <1>2, <1>3, <1>4 DEF LockInv

\* A task locks the stripe of the address it looks up, and finds an addrstat.
LEMMA LockLook ==
    ASSUME Types, LocalInv, LockInv, NEW t \in Task, Others(t), NEW a \in Addr,
           UNCHANGED <<table, live, lock>>,
           stripe[StripeOf[a]] = NULL, stripe' = [stripe EXCEPT ![StripeOf[a]] = t],
           table[a] # NULL, mp' = [mp EXCEPT ![t] = table[a]],
           pc[t] \notin HoldsM, pc'[t] \in HoldsHash, Looked(t)' = a
    PROVE  LockInv'
<1>0. mp'[t] = table[a]
  BY Zenon, LockTypes
<1>1. TableInv'
  BY Zenon DEF LockInv, TableInv
<1>2. StripeInv'
  <2> SUFFICES ASSUME NEW x \in Task, pc'[x] \in HoldsHash
               PROVE  stripe'[StripeOf[Looked(x)']] = x /\ table[Looked(x)'] = mp'[x] /\ mp'[x] # NULL
    BY Zenon DEF StripeInv
  <2>0. StripeOf[a] \in Stripe
    BY Zenon, ConstantsAssumption
  <2>1. CASE x = t
    BY Zenon, <1>0, <2>0, <2>1, LockTypes
  <2>2. CASE x # t
    <3>1. pc[x] \in HoldsHash /\ mp'[x] = mp[x] /\ Looked(x)' = Looked(x)
      BY Zenon, <2>2, OtherStays
    <3>2. stripe[StripeOf[Looked(x)]] = x /\ table[Looked(x)] = mp[x] /\ mp[x] # NULL
      BY Zenon, <3>1 DEF LockInv, StripeInv
    <3>3. StripeOf[Looked(x)] # StripeOf[a] /\ StripeOf[Looked(x)] \in Stripe
      BY Zenon, <3>1, <3>2, LookedType, ConstantsAssumption
    <3> QED
      BY Zenon, <2>0, <3>1, <3>2, <3>3, LockTypes
  <2> QED
    BY Zenon, <2>1, <2>2
<1>3. HolderInv'
  <2>1. \A x \in Task : pc[x] \in HoldsM <=> pc'[x] \in HoldsM
    BY Zenon DEF Others, Quiet, HoldsM, HoldsHash
  <2>2. \A x \in Task : pc[x] \in HoldsM => mp'[x] = mp[x]
    BY Zenon DEF Others
  <2> QED
    BY <2>1, <2>2, LockTypes DEF LockInv, HolderInv
<1>4. DeleteInv'
  BY DEF LockInv, DeleteInv, Others, Quiet, HoldsHash
<1> QED
  BY Zenon, <1>1, <1>2, <1>3, <1>4 DEF LockInv

\* A task that holds the stripe takes the addrstat's lock and releases the stripe.
LEMMA LockTake ==
    ASSUME Types, LocalInv, LockInv, NEW t \in Task, Others(t),
           UNCHANGED <<table, live>>, mp'[t] = mp[t],
           stripe' = [stripe EXCEPT ![StripeOf[Looked(t)]] = NULL],
           lock[mp[t]] = NULL, lock' = [lock EXCEPT ![mp[t]] = t],
           pc[t] \in HoldsHash, pc'[t] \in HoldsM \ {"rdelete"}
    PROVE  LockInv'
<1>0. mp[t] \in live /\ mp[t] \in Obj /\ Looked(t) \in Addr
  BY Zenon, LookedType, LockTypes DEF LockInv, TableInv, StripeInv
<1>1. TableInv'
  BY Zenon DEF LockInv, TableInv
<1>2. StripeInv'
  <2> SUFFICES ASSUME NEW x \in Task, pc'[x] \in HoldsHash
               PROVE  stripe'[StripeOf[Looked(x)']] = x /\ table[Looked(x)'] = mp'[x] /\ mp'[x] # NULL
    BY Zenon DEF StripeInv
  <2>1. x # t
    BY Zenon DEF HoldsM, HoldsHash
  <2>2. pc[x] \in HoldsHash /\ mp'[x] = mp[x] /\ Looked(x)' = Looked(x)
    BY Zenon, <2>1, OtherStays
  <2>3. stripe[StripeOf[Looked(x)]] = x /\ table[Looked(x)] = mp[x] /\ mp[x] # NULL
    BY Zenon, <2>2 DEF LockInv, StripeInv
  <2>4. stripe[StripeOf[Looked(t)]] = t
    BY Zenon DEF LockInv, StripeInv
  <2>5. StripeOf[Looked(x)] # StripeOf[Looked(t)] /\ StripeOf[Looked(x)] \in Stripe
    BY Zenon, <2>1, <2>2, <2>3, <2>4, LookedType, ConstantsAssumption
  <2> QED
    BY Zenon, <2>2, <2>3, <2>5, LockTypes
<1>3. HolderInv'
  <2>1. \A x \in Task : x # t => mp'[x] = mp[x] /\ (pc[x] \in HoldsM <=> pc'[x] \in HoldsM)
    BY Zenon DEF Others, Quiet, HoldsM
  <2>2. lock'[mp[t]] = t /\ \A o \in Obj : o # mp[t] => lock'[o] = lock[o]
    BY Zenon, <1>0, LockTypes
  <2>3. \A x \in Task : pc[x] \in HoldsM => mp[x] # mp[t]
    BY ConstantsAssumption DEF LockInv, HolderInv
  <2>4. (\A x \in Task : pc[x] \in HoldsM => mp[x] \in live /\ lock[mp[x]] = x)'
    BY <1>0, <2>1, <2>2, <2>3, LockTypes DEF LockInv, HolderInv
  <2>5. (\A o \in Obj : lock[o] # NULL => pc[lock[o]] \in HoldsM /\ mp[lock[o]] = o)'
    <3> SUFFICES ASSUME NEW o \in Obj, lock'[o] # NULL
                 PROVE  pc'[lock'[o]] \in HoldsM /\ mp'[lock'[o]] = o
      BY Zenon
    <3>1. CASE o = mp[t]
      BY Zenon, <2>2, <3>1
    <3>2. CASE o # mp[t]
      <4>1. lock'[o] = lock[o] /\ lock[o] \in Task
        BY Zenon, <2>2, <3>2, LockTypes
      <4>2. pc[lock[o]] \in HoldsM /\ mp[lock[o]] = o
        BY Zenon, <4>1, ConstantsAssumption DEF LockInv, HolderInv
      <4>3. lock[o] # t
        BY Zenon, <4>2 DEF HoldsM, HoldsHash
      <4> QED
        BY Zenon, <2>1, <4>1, <4>2, <4>3
    <3> QED
      BY Zenon, <3>1, <3>2
  <2> QED
    BY Zenon, <2>4, <2>5 DEF HolderInv
<1>4. DeleteInv'
  BY Zenon DEF LockInv, DeleteInv, Others, Quiet
<1> QED
  BY Zenon, <1>1, <1>2, <1>3, <1>4 DEF LockInv

\* A task that holds the stripe gives it back without taking the addrstat's lock.
LEMMA LockGiveUp ==
    ASSUME Types, LocalInv, LockInv, NEW t \in Task, Others(t),
           UNCHANGED <<table, live, lock>>, mp'[t] = mp[t],
           stripe' = [stripe EXCEPT ![StripeOf[Looked(t)]] = NULL],
           pc[t] \in HoldsHash, pc'[t] \notin HoldsHash \cup HoldsM
    PROVE  LockInv'
<1>1. TableInv'
  BY Zenon DEF LockInv, TableInv
<1>2. StripeInv'
  <2> SUFFICES ASSUME NEW x \in Task, pc'[x] \in HoldsHash
               PROVE  stripe'[StripeOf[Looked(x)']] = x /\ table[Looked(x)'] = mp'[x] /\ mp'[x] # NULL
    BY Zenon DEF StripeInv
  <2>1. x # t
    BY Zenon
  <2>2. pc[x] \in HoldsHash /\ mp'[x] = mp[x] /\ Looked(x)' = Looked(x)
    BY Zenon, <2>1, OtherStays
  <2>3. stripe[StripeOf[Looked(x)]] = x /\ table[Looked(x)] = mp[x] /\ mp[x] # NULL
    BY Zenon, <2>2 DEF LockInv, StripeInv
  <2>4. stripe[StripeOf[Looked(t)]] = t
    BY Zenon DEF LockInv, StripeInv
  <2>5. StripeOf[Looked(x)] # StripeOf[Looked(t)] /\ StripeOf[Looked(x)] \in Stripe
    BY Zenon, <2>1, <2>2, <2>3, <2>4, LookedType, ConstantsAssumption
  <2> QED
    BY Zenon, <2>2, <2>3, <2>5, LockTypes
<1>3. HolderInv'
  <2>1. \A x \in Task : mp'[x] = mp[x] /\ (pc[x] \in HoldsM <=> pc'[x] \in HoldsM)
    BY Zenon DEF Others, Quiet, HoldsM, HoldsHash
  <2> QED
    BY <2>1, LockTypes DEF LockInv, HolderInv
<1>4. DeleteInv'
  BY Zenon DEF LockInv, DeleteInv, Others, Quiet, HoldsM
<1> QED
  BY Zenon, <1>1, <1>2, <1>3, <1>4 DEF LockInv

\* A step that only moves t leaves the other tasks alone.
LEMMA OthersQuiet ==
    ASSUME Types, NEW t \in Task, NEW l, Goto(t, l), UNCHANGED <<mp, call, checked, this_sync>>
    PROVE  Others(t)
<1>1. \A x \in Task : x # t => pc'[x] = pc[x]
  BY Zenon, GotoFacts
<1> QED
  BY Zenon, <1>1 DEF Others
=============================================================================
