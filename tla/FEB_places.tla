----------------------------- MODULE FEB_places -----------------------------
(***************************************************************************)
(* Where the tasks are: on a worker, in a ready queue, in one list of one  *)
(* addrstat, or in the hands of the task that checks their preconditions.  *)
(* For every set of tasks, workers, addresses, values and programs.        *)
(***************************************************************************)
EXTENDS FEB_proofs, FiniteSetTheorems

Members(q) == {q[i] : i \in 1..Len(q)}
NoDup(q)   == \A i, j \in 1..Len(q) : q[i] = q[j] => i = j

\* t waits for m in the list of its operation; t was spawned and is not ready; x has
\* taken t up to check it.
BlockedOn(t, o, op) ==
    tstate[t] = "FEB_BLOCKED" /\ pc[t] \in {"switch", "blocked"} /\ mp[t] = o /\ Op(t) = op
Nascent(t)   == tstate[t] = "NASCENT" /\ pc[t] = "idle"
Checks(x, t) == checked[x] = t /\ pc[x] \in Checking

\* A task in a list is blocked there, once; what it waits for and its pointer m tell the
\* list and the addrstat.
ListInv ==
    /\ \A o \in Obj : NoDup(EFQ[o]) /\ NoDup(FEQ[o])
    /\ \A o \in Obj : \A t \in Task :
        /\ t \in Members(EFQ[o]) => BlockedOn(t, o, "writeEF")
        /\ t \in Members(FEQ[o]) => BlockedOn(t, o, "readFE")
        /\ t \in FFQ[o] => Nascent(t) \/ BlockedOn(t, o, "readFF")

\* A nascent task is in one list or in the hands of one task.
NascentInv ==
    /\ \A t, x \in Task : t \in precond_tasks[x] \/ Checks(x, t) => Nascent(t)
    /\ \A t, x \in Task : ~(t \in precond_tasks[x] /\ Checks(x, t))
    /\ \A t, x, y \in Task : x # y =>
        ~((t \in precond_tasks[x] \/ Checks(x, t)) /\ (t \in precond_tasks[y] \/ Checks(y, t)))
    /\ \A t, x \in Task : \A o \in Obj :
        ~(t \in FFQ[o] /\ (t \in precond_tasks[x] \/ Checks(x, t)))
    /\ \A t \in Task : \A o, p \in Obj : Nascent(t) /\ t \in FFQ[o] /\ t \in FFQ[p] => o = p

\* A task that is ready or runs waits for nothing, but for one that is about to leave
\* its worker.
RunInv ==
    /\ \A t \in Task : t \in ready =>
        pc[t] \in {"idle", "blocked"} /\ tstate[t] \in {"NEW", "RUNNING"} /\ ~Running(t)
    /\ \A t \in Task : Running(t) =>
        /\ pc[t] \notin {"unborn", "blocked", "done"} /\ tstate[t] # "NASCENT"
        /\ tstate[t] = "FEB_BLOCKED" => pc[t] = "switch"
    /\ \A t \in Task : Running(t) \/ pc[t] \in {"unborn", "idle", "blocked", "done"}
    /\ \A t \in Task : pc[t] \notin {"unborn", "idle"} => tstate[t] # "NASCENT"
    /\ \A t \in Task : pc[t] = "unborn" => tstate[t] = "NASCENT"
    /\ \A t \in Task : tstate[t] # "NASCENT" => need[t] = <<>>
    /\ \A v, w \in Worker : on[v] = on[w] /\ on[v] # NULL => v = w

PlaceInv == ListInv /\ NascentInv /\ RunInv

\* A lock on a stripe is held by a task that looks something up there, and an addrstat
\* that is allocated can be found or is about to be deleted.
KeptInv ==
    /\ \A s \in Stripe : stripe[s] # NULL =>
        pc[stripe[s]] \in HoldsHash /\ StripeOf[Looked(stripe[s])] = s
    /\ \A o \in live : \/ \E a \in Addr : table[a] = o
                       \/ \E t \in Task : pc[t] = "rdelete" /\ mp[t] = o

-----------------------------------------------------------------------------
(* Lists.                                                                  *)

\* A task pushed on a list joins its members, and they stay different if it is new.
LEMMA PushMembers ==
    ASSUME NEW q \in Seq(Task), NEW t \in Task
    PROVE  /\ Members(<<t>> \o q) = Members(q) \cup {t}
           /\ NoDup(q) /\ t \notin Members(q) => NoDup(<<t>> \o q)
<1> DEFINE p == <<t>> \o q
<1>1. /\ p \in Seq(Task) /\ Len(p) = Len(q) + 1 /\ Len(q) \in Nat
      /\ p[1] = t /\ \A i \in 1..Len(q) : p[i + 1] = q[i]
  OBVIOUS
<1>2. \A i \in 1..Len(p) : i = 1 \/ (i - 1 \in 1..Len(q) /\ p[i] = q[i - 1])
  <2> SUFFICES ASSUME NEW i \in 1..Len(p), i # 1
               PROVE  i - 1 \in 1..Len(q) /\ p[i] = q[i - 1]
    BY Zenon
  <2>1. i - 1 \in 1..Len(q) /\ (i - 1) + 1 = i
    BY <1>1
  <2>2. p[(i - 1) + 1] = q[i - 1]
    BY Zenon, <2>1, <1>1
  <2> QED BY Zenon, <2>1, <2>2
<1> HIDE DEF p
<1>3. Members(p) = Members(q) \cup {t}
  <2>1. ASSUME NEW x \in Members(p) PROVE x \in Members(q) \cup {t}
    BY <1>1, <1>2 DEF Members
  <2>2. ASSUME NEW x \in Members(q) PROVE x \in Members(p)
    <3>1. PICK i \in 1..Len(q) : q[i] = x BY Zenon DEF Members
    <3>2. i + 1 \in 1..Len(p) /\ p[i + 1] = x BY <3>1, <1>1
    <3> QED BY Zenon, <3>2 DEF Members
  <2>3. 1 \in 1..Len(p) BY <1>1
  <2>4. t \in Members(p) BY Zenon, <1>1, <2>3 DEF Members
  <2> QED BY Zenon, <2>1, <2>2, <2>4
<1>4. ASSUME NoDup(q), t \notin Members(q) PROVE NoDup(p)
  <2> SUFFICES ASSUME NEW i \in 1..Len(p), NEW j \in 1..Len(p), p[i] = p[j] PROVE i = j
    BY Zenon DEF NoDup
  <2>1. \A k \in 1..Len(q) : q[k] # t BY Zenon, <1>4 DEF Members
  <2>2. CASE i = 1 \/ j = 1 BY Zenon, <2>1, <2>2, <1>1, <1>2
  <2>3. CASE i # 1 /\ j # 1
    <3>1. i - 1 \in 1..Len(q) /\ j - 1 \in 1..Len(q) /\ q[i - 1] = q[j - 1] BY Zenon, <2>3, <1>2
    <3>2. i - 1 = j - 1 BY Zenon, <3>1, <1>4 DEF NoDup
    <3> QED BY <3>2
  <2> QED BY Zenon, <2>2, <2>3
<1> QED BY Zenon, <1>3, <1>4 DEF p

\* Taking the head off a list leaves the others.
LEMMA TailMembers ==
    ASSUME NEW q \in Seq(Task), q # <<>>, NoDup(q)
    PROVE  /\ Head(q) \in Members(q) /\ NoDup(Tail(q))
           /\ Members(Tail(q)) = Members(q) \ {Head(q)}
<1> DEFINE p == Tail(q)
<1>1. /\ Len(q) \in Nat /\ Len(q) >= 1 /\ Len(p) = Len(q) - 1 /\ Head(q) = q[1]
      /\ \A i \in 1..Len(p) : p[i] = q[i + 1]
  OBVIOUS
<1>2. Head(q) \in Members(q)
  BY <1>1 DEF Members
<1> HIDE DEF p
<1>3. NoDup(p)
  <2> SUFFICES ASSUME NEW i \in 1..Len(p), NEW j \in 1..Len(p), p[i] = p[j] PROVE i = j
    BY Zenon DEF NoDup
  <2>1. i + 1 \in 1..Len(q) /\ j + 1 \in 1..Len(q) /\ q[i + 1] = q[j + 1] BY <1>1
  <2>2. i + 1 = j + 1 BY Zenon, <2>1 DEF NoDup
  <2> QED BY <2>2
<1>4. ASSUME NEW x \in Members(p) PROVE x \in Members(q) \ {Head(q)}
  <2>1. PICK i \in 1..Len(p) : p[i] = x BY Zenon DEF Members
  <2>2. i + 1 \in 1..Len(q) /\ q[i + 1] = x /\ i + 1 # 1 /\ 1 \in 1..Len(q) BY <2>1, <1>1
  <2>3. x # q[1] BY Zenon, <2>2 DEF NoDup
  <2> QED BY Zenon, <2>2, <2>3, <1>1 DEF Members
<1>5. ASSUME NEW x \in Members(q), x # Head(q) PROVE x \in Members(p)
  <2>1. PICK i \in 1..Len(q) : q[i] = x BY Zenon DEF Members
  <2>2. i # 1 BY Zenon, <2>1, <1>1, <1>5
  <2>3. i - 1 \in 1..Len(p) /\ (i - 1) + 1 = i BY <2>2, <1>1
  <2>4. p[i - 1] = x BY Zenon, <2>1, <2>3, <1>1
  <2> QED BY Zenon, <2>3, <2>4 DEF Members
<1> QED BY Zenon, <1>2, <1>3, <1>4, <1>5 DEF p

\* The lists of an empty addrstat have no members.
LEMMA NoMembers == Members(<<>>) = {} /\ NoDup(<<>>)
BY DEF Members, NoDup

-----------------------------------------------------------------------------
(* Steps that leave the scheduler and the lists alone.                     *)

\* A task that runs its operation is in nobody's list and in nobody's hands.
LEMMA NotListed ==
    ASSUME PlaceInv, NEW t \in Task, Running(t), pc[t] # "switch"
    PROVE  /\ \A o \in Obj : t \notin Members(EFQ[o]) /\ t \notin Members(FEQ[o]) /\ t \notin FFQ[o]
           /\ \A x \in Task : t \notin precond_tasks[x] /\ ~Checks(x, t)
           /\ t \notin ready /\ tstate[t] \notin {"NASCENT", "FEB_BLOCKED"}
<1>1. t \notin ready /\ tstate[t] \notin {"NASCENT", "FEB_BLOCKED"}
  BY Zenon DEF PlaceInv, RunInv
<1>2. ~Nascent(t) /\ \A o, op : ~BlockedOn(t, o, op)
  BY Zenon, <1>1 DEF Nascent, BlockedOn
<1> QED BY Zenon, <1>1, <1>2 DEF PlaceInv, ListInv, NascentInv

\* The others stay where they are.
Alone(t) ==
    \A x \in Task : x # t =>
        /\ pc'[x] = pc[x] /\ mp'[x] = mp[x] /\ call'[x] = call[x] /\ checked'[x] = checked[x]

\* A running task that changes only its own place keeps everybody's place.
LEMMA OwnStep ==
    ASSUME PlaceInv, NEW t \in Task, Running(t), pc[t] # "switch", Alone(t),
           UNCHANGED <<ready, on, tstate, EFQ, FEQ, FFQ, precond_tasks>>,
           pc'[t] \notin {"unborn", "blocked", "done"},
           pc'[t] \in Checking => pc[t] \in Checking /\ checked'[t] = checked[t],
           \A x \in Task : tstate[x] # "NASCENT" => need'[x] = need[x]
    PROVE  PlaceInv'
<1>0. /\ \A o \in Obj : t \notin Members(EFQ[o]) /\ t \notin Members(FEQ[o]) /\ t \notin FFQ[o]
      /\ \A x \in Task : t \notin precond_tasks[x] /\ ~Checks(x, t)
      /\ t \notin ready /\ tstate[t] \notin {"NASCENT", "FEB_BLOCKED"}
  BY Zenon, NotListed
<1>1. \A x \in Task : x # t => /\ Nascent(x)' <=> Nascent(x)
                               /\ \A o, op : BlockedOn(x, o, op)' <=> BlockedOn(x, o, op)
  BY Zenon DEF Alone, Nascent, BlockedOn, Op
<1>2. ListInv'
  <2>1. ASSUME NEW o \in Obj, NEW x \in Task
        PROVE  /\ x \in Members(EFQ'[o]) => BlockedOn(x, o, "writeEF")'
               /\ x \in Members(FEQ'[o]) => BlockedOn(x, o, "readFE")'
               /\ x \in FFQ'[o] => Nascent(x)' \/ BlockedOn(x, o, "readFF")'
    BY Zenon, <1>0, <1>1 DEF PlaceInv, ListInv
  <2>2. \A o \in Obj : NoDup(EFQ'[o]) /\ NoDup(FEQ'[o])
    BY Zenon DEF PlaceInv, ListInv
  <2> QED BY Zenon, <2>1, <2>2 DEF ListInv
<1>3. \A x, y \in Task : Checks(x, y)' => Checks(x, y)
  BY Zenon DEF Alone, Checks
<1>4. NascentInv'
  <2>1. \A y, x \in Task : (y \in precond_tasks[x] \/ Checks(x, y))' =>
            y # t /\ (y \in precond_tasks[x] \/ Checks(x, y))
    BY Zenon, <1>0, <1>3
  <2>2. \A y, x \in Task : (y \in precond_tasks[x] \/ Checks(x, y))' => Nascent(y)'
    BY Zenon, <2>1, <1>1 DEF PlaceInv, NascentInv
  <2>3. \A y \in Task : \A o, p \in Obj : Nascent(y)' /\ y \in FFQ'[o] /\ y \in FFQ'[p] => o = p
    BY Zenon, <1>0, <1>1 DEF PlaceInv, NascentInv
  <2> QED BY Zenon, <2>1, <2>2, <2>3, <1>3 DEF PlaceInv, NascentInv
<1>5. RunInv'
  <2>1. \A x \in Task : Running(x)' <=> Running(x)
    BY Zenon DEF Running
  <2>2. \A x \in Task : x # t => pc'[x] = pc[x]
    BY Zenon DEF Alone
  <2> QED BY Zenon, <1>0, <2>1, <2>2 DEF PlaceInv, RunInv
<1> QED BY Zenon, <1>2, <1>4, <1>5 DEF PlaceInv

\* A step that moves t and sets no pointer but its own leaves the others alone.
LEMMA GotoAlone ==
    ASSUME Types, NEW t \in Task, NEW l, Goto(t, l), UNCHANGED <<call, checked>>,
           mp' = mp \/ \E o : mp' = [mp EXCEPT ![t] = o]
    PROVE  Alone(t) /\ pc'[t] = l
<1>1. pc'[t] = l /\ \A x \in Task : x # t => pc'[x] = pc[x]
  BY Zenon, GotoFacts
<1>2. \A x \in Task : x # t => mp'[x] = mp[x]
  BY Zenon DEF Types
<1> QED BY Zenon, <1>1, <1>2 DEF Alone

\* An operation moves on, or returns, without a word to the scheduler.
LEMMA MovesOn ==
    ASSUME Types, PlaceInv, NEW t \in Task, Running(t), pc[t] # "switch",
           NEW l, Goto(t, l), l \notin {"unborn", "blocked", "done"} \cup Checking,
           UNCHANGED <<ready, on, tstate, EFQ, FEQ, FFQ, call, precond_tasks, checked, need>>,
           mp' = mp \/ \E o : mp' = [mp EXCEPT ![t] = o]
    PROVE  PlaceInv'
<1>1. Alone(t) /\ pc'[t] = l
  BY Zenon, GotoAlone
<1> QED BY Zenon, <1>1, OwnStep

\* Looking an addrstat up, locking it, and removing it.
LEMMA LookStep ==
    ASSUME Types, PlaceInv, NEW t \in Task,
           \/ LockHashFound(t) \/ LockHashInsert(t) \/ LockHashNoMemory(t) \/ LockHashAbsent(t)
           \/ LockM(t) \/ Status(t) \/ RemoveLockHash(t) \/ RemoveLockM(t) \/ RemoveDelete(t)
    PROVE  PlaceInv'
<1> USE DEF sync, sched, pre, At
<1>1. CASE LockHashFound(t)
  BY Zenon, <1>1, MovesOn DEF LockHashFound, Checking
<1>2. CASE LockHashInsert(t)
  <2>1. UNCHANGED <<ready, on, tstate, EFQ, FEQ, FFQ, call, precond_tasks, checked, need>>
    BY Zenon, <1>2 DEF LockHashInsert
  <2>2. Running(t) /\ pc[t] = "hash"
    BY Zenon, <1>2 DEF LockHashInsert
  <2>3. \/ Goto(t, "mlock") /\ \E o : mp' = [mp EXCEPT ![t] = o]
        \/ Goto(t, "idle") /\ mp' = mp
    BY Zenon, <1>2 DEF LockHashInsert, Return
  <2> QED BY Zenon, <2>1, <2>2, <2>3, MovesOn DEF Checking
<1>3. CASE LockHashNoMemory(t)
  BY Zenon, <1>3, MovesOn DEF LockHashNoMemory, Return, Checking
<1>4. CASE LockHashAbsent(t)
  <2>1. Goto(t, "nom") \/ Goto(t, "idle")
    BY Zenon, <1>4 DEF LockHashAbsent, Return
  <2> QED BY Zenon, <1>4, <2>1, MovesOn DEF LockHashAbsent, Checking
<1>5. CASE LockM(t)
  BY Zenon, <1>5, MovesOn DEF LockM, Checking
<1>6. CASE Status(t)
  BY Zenon, <1>6, MovesOn DEF Status, Return, Checking
<1>7. CASE RemoveLockHash(t)
  BY Zenon, <1>7, MovesOn DEF RemoveLockHash, Checking
<1>8. CASE RemoveLockM(t)
  BY Zenon, <1>8, MovesOn DEF RemoveLockM, Checking
<1>9. CASE RemoveDelete(t)
  BY Zenon, <1>9, MovesOn DEF RemoveDelete, Checking
<1> QED BY Zenon, <1>1, <1>2, <1>3, <1>4, <1>5, <1>6, <1>7, <1>8, <1>9

\* writeF, fill and empty act on any state, and the copies without a lock.
LEMMA ActStep ==
    ASSUME Types, PlaceInv, NEW t \in Task,
           writeF_fill_empty(t) \/ CopyUnlocked(t) \/ gotlock_unlock(t)
    PROVE  PlaceInv'
<1> USE DEF sync, sched, pre, At
<1>1. CASE writeF_fill_empty(t)
  <2>1. Goto(t, "fill") \/ Goto(t, "empty")
    BY Zenon, <1>1 DEF writeF_fill_empty
  <2> QED BY Zenon, <1>1, <2>1, MovesOn DEF writeF_fill_empty, Checking
<1>2. CASE CopyUnlocked(t)
  <2>1. Goto(t, "idle")
    BY Zenon, <1>2 DEF CopyUnlocked, Return
  <2> QED BY Zenon, <1>2, <2>1, MovesOn DEF CopyUnlocked, Checking
<1>3. CASE gotlock_unlock(t)
  <2>1. Goto(t, "launch") \/ Goto(t, "rhash") \/ Goto(t, "idle")
    BY Zenon, <1>3 DEF gotlock_unlock, AfterUnlock
  <2> QED BY Zenon, <1>3, <2>1, MovesOn DEF gotlock_unlock, Checking
<1> QED BY Zenon, <1>1, <1>2, <1>3

\* Looking up a precondition and locking its addrstat: the task that is checked stays in
\* the hands of the one that checks it, and one that runs has none to count down.
LEMMA CheckStep ==
    ASSUME Types, LocalInv, PlaceInv, NEW t \in Task, CheckHash(t) \/ CheckLockM(t)
    PROVE  PlaceInv'
<1> USE DEF sync, sched, pre, At
<1>1. CASE CheckHash(t)
  <2>1. /\ Running(t) /\ pc[t] = "check"
        /\ UNCHANGED <<ready, on, tstate, EFQ, FEQ, FFQ, call, precond_tasks, checked>>
    BY Zenon, <1>1 DEF CheckHash
  <2>2. Alone(t) /\ pc'[t] \in {"check", "cmlock"}
    <3>1. CASE table[This(t)] = NULL
      BY Zenon, <1>1, <2>1, <3>1 DEF CheckHash, Alone
    <3>2. CASE table[This(t)] # NULL
      BY Zenon, <1>1, <3>2, GotoAlone DEF CheckHash
    <3> QED BY Zenon, <3>1, <3>2
  <2>3. checked[t] \in Task /\ tstate[checked[t]] = "NASCENT"
    BY Zenon, <2>1 DEF LocalInv, PlaceInv, NascentInv, Checks, Checking, Nascent
  <2>4. \A x \in Task : tstate[x] # "NASCENT" => need'[x] = need[x]
    BY Zenon, <1>1, <2>3 DEF CheckHash, Types
  <2> QED BY Zenon, <2>1, <2>2, <2>4, OwnStep DEF Checking
<1>2. CASE CheckLockM(t)
  <2>1. Alone(t) /\ pc'[t] = "cbody"
    BY Zenon, <1>2, GotoAlone DEF CheckLockM
  <2> QED BY Zenon, <1>2, <2>1, OwnStep DEF CheckLockM, Checking
<1> QED BY Zenon, <1>1, <1>2

-----------------------------------------------------------------------------
(* Blocking.                                                               *)

\* A task that queues itself, in one list, leaves everybody else's place.
LEMMA BlockStep ==
    ASSUME Types, PlaceInv, NEW t \in Task, Running(t), pc[t] # "switch",
           Goto(t, "switch"), tstate' = [tstate EXCEPT ![t] = "FEB_BLOCKED"],
           UNCHANGED <<ready, on, mp, call, precond_tasks, checked, need>>,
           \A o \in Obj : NoDup(EFQ'[o]) /\ NoDup(FEQ'[o]),
           \A o \in Obj : \A x \in Task :
               /\ x \in Members(EFQ'[o]) => x \in Members(EFQ[o]) \/ (x = t /\ o = mp[t] /\ Op(t) = "writeEF")
               /\ x \in Members(FEQ'[o]) => x \in Members(FEQ[o]) \/ (x = t /\ o = mp[t] /\ Op(t) = "readFE")
               /\ x \in FFQ'[o] => x \in FFQ[o] \/ (x = t /\ o = mp[t] /\ Op(t) = "readFF")
    PROVE  PlaceInv'
<1>0. /\ \A o \in Obj : t \notin Members(EFQ[o]) /\ t \notin Members(FEQ[o]) /\ t \notin FFQ[o]
      /\ \A x \in Task : t \notin precond_tasks[x] /\ ~Checks(x, t)
      /\ t \notin ready /\ tstate[t] \notin {"NASCENT", "FEB_BLOCKED"}
  BY Zenon, NotListed
<1>1. /\ pc'[t] = "switch" /\ tstate'[t] = "FEB_BLOCKED"
      /\ \A x \in Task : x # t => pc'[x] = pc[x] /\ tstate'[x] = tstate[x]
  BY Zenon, GotoFacts DEF Types
<1>2. /\ \A x \in Task : x # t => /\ Nascent(x)' <=> Nascent(x)
                                  /\ \A o, op : BlockedOn(x, o, op)' <=> BlockedOn(x, o, op)
      /\ BlockedOn(t, mp[t], Op(t))' /\ ~Nascent(t)'
  BY Zenon, <1>1 DEF Nascent, BlockedOn, Op
<1>3. ListInv'
  <2>1. ASSUME NEW o \in Obj, NEW x \in Task
        PROVE  /\ x \in Members(EFQ'[o]) => BlockedOn(x, o, "writeEF")'
               /\ x \in Members(FEQ'[o]) => BlockedOn(x, o, "readFE")'
               /\ x \in FFQ'[o] => Nascent(x)' \/ BlockedOn(x, o, "readFF")'
    <3>1. CASE x = t
      BY Zenon, <3>1, <1>0, <1>1 DEF BlockedOn, Op
    <3>2. CASE x # t
      BY Zenon, <3>2, <1>2 DEF PlaceInv, ListInv
    <3> QED BY Zenon, <3>1, <3>2
  <2> QED BY Zenon, <2>1 DEF ListInv
<1>4. \A x, y \in Task : Checks(x, y)' => Checks(x, y)
  BY Zenon, <1>1 DEF Checks, Checking
<1>5. NascentInv'
  <2>1. \A y, x \in Task : (y \in precond_tasks[x] \/ Checks(x, y))' =>
            y # t /\ (y \in precond_tasks[x] \/ Checks(x, y))
    BY <1>0, <1>4
  <2>2. \A y, x \in Task : (y \in precond_tasks[x] \/ Checks(x, y))' => Nascent(y)'
    BY Zenon, <2>1, <1>2 DEF PlaceInv, NascentInv
  <2>3. \A y \in Task : \A o \in Obj : y # t /\ y \in FFQ'[o] => y \in FFQ[o]
    BY Zenon
  <2>4. \A y \in Task : \A o, p \in Obj : Nascent(y)' /\ y \in FFQ'[o] /\ y \in FFQ'[p] => o = p
    BY Zenon, <2>3, <1>2 DEF PlaceInv, NascentInv
  <2> QED BY Zenon, <2>1, <2>2, <2>3, <2>4, <1>4 DEF PlaceInv, NascentInv
<1>6. RunInv'
  <2>1. \A x \in Task : Running(x)' <=> Running(x)
    BY Zenon DEF Running
  <2> QED BY <1>0, <1>1, <2>1 DEF PlaceInv, RunInv
<1> QED BY Zenon, <1>3, <1>5, <1>6 DEF PlaceInv

\* Pushing t, which is in no list, on the list of m.
LEMMA PushList ==
    ASSUME NEW q \in [Obj -> Seq(Task)], NEW m \in Obj, NEW t \in Task,
           \A o \in Obj : NoDup(q[o]) /\ t \notin Members(q[o])
    PROVE  \A o \in Obj :
               /\ NoDup(Push(q, m, t)[o])
               /\ \A x \in Task : x \in Members(Push(q, m, t)[o]) =>
                                      x \in Members(q[o]) \/ (x = t /\ o = m)
<1> SUFFICES ASSUME NEW o \in Obj
             PROVE  /\ NoDup(Push(q, m, t)[o])
                    /\ \A x \in Task : x \in Members(Push(q, m, t)[o]) =>
                                           x \in Members(q[o]) \/ (x = t /\ o = m)
  BY Zenon
<1>1. CASE o = m
  <2>1. Push(q, m, t)[o] = <<t>> \o q[o]
    BY Zenon, <1>1 DEF Push
  <2>2. q[o] \in Seq(Task) /\ NoDup(q[o]) /\ t \notin Members(q[o])
    BY Zenon
  <2>3. /\ Members(<<t>> \o q[o]) = Members(q[o]) \cup {t}
        /\ NoDup(<<t>> \o q[o])
    BY Zenon, <2>2, PushMembers
  <2> QED BY Zenon, <1>1, <2>1, <2>3
<1>2. CASE o # m
  <2>1. Push(q, m, t)[o] = q[o]
    BY Zenon, <1>2 DEF Push
  <2> QED BY Zenon, <2>1
<1> QED BY Zenon, <1>1, <1>2

\* readFE, readFF and writeEF block, fail or go on.
LEMMA ReadWriteStep ==
    ASSUME Types, LockInv, PlaceInv, NEW t \in Task, readFE(t) \/ readFF(t) \/ writeEF(t)
    PROVE  PlaceInv'
<1> USE DEF sync, sched, pre, At
<1>0. /\ Running(t) /\ pc[t] = "body" /\ mp[t] \in Obj
      /\ UNCHANGED <<ready, on, mp, call, precond_tasks, checked, need>>
  BY Zenon DEF readFE, readFF, writeEF, LockInv, HolderInv, HoldsM, Types
<1>00. /\ \A o \in Obj : t \notin Members(EFQ[o]) /\ t \notin Members(FEQ[o]) /\ t \notin FFQ[o]
       /\ \A o \in Obj : NoDup(EFQ[o]) /\ NoDup(FEQ[o])
  BY Zenon, <1>0, NotListed DEF PlaceInv, ListInv
<1>1. CASE readFE(t)
  <2>1. \/ /\ Goto(t, "switch") /\ tstate' = [tstate EXCEPT ![t] = "FEB_BLOCKED"]
           /\ FEQ' = Push(FEQ, mp[t], t) /\ UNCHANGED <<EFQ, FFQ>> /\ Op(t) = "readFE"
        \/ (Goto(t, "idle") \/ Goto(t, "empty")) /\ UNCHANGED <<tstate, EFQ, FEQ, FFQ>>
    BY Zenon, <1>1 DEF readFE, Block, NoAddrres, UnlockReturn, Return
  <2>2. \A o \in Obj : /\ NoDup(Push(FEQ, mp[t], t)[o])
                       /\ \A x \in Task : x \in Members(Push(FEQ, mp[t], t)[o]) =>
                              x \in Members(FEQ[o]) \/ (x = t /\ o = mp[t])
    BY Zenon, <1>0, <1>00, PushList DEF Types
  <2>3. CASE FEQ' = Push(FEQ, mp[t], t) /\ Goto(t, "switch") /\ UNCHANGED <<EFQ, FFQ>>
             /\ tstate' = [tstate EXCEPT ![t] = "FEB_BLOCKED"] /\ Op(t) = "readFE"
    BY Zenon, <1>0, <1>00, <2>2, <2>3, BlockStep
  <2> QED BY Zenon, <1>0, <2>1, <2>3, MovesOn DEF Checking
<1>2. CASE readFF(t)
  <2>1. \/ /\ Goto(t, "switch") /\ tstate' = [tstate EXCEPT ![t] = "FEB_BLOCKED"]
           /\ FFQ' = [FFQ EXCEPT ![mp[t]] = @ \cup {t}] /\ UNCHANGED <<EFQ, FEQ>> /\ Op(t) = "readFF"
        \/ Goto(t, "idle") /\ UNCHANGED <<tstate, EFQ, FEQ, FFQ>>
    BY Zenon, <1>2 DEF readFF, Block, NoAddrres, UnlockReturn, Return
  <2>2. CASE FFQ' = [FFQ EXCEPT ![mp[t]] = @ \cup {t}] /\ Goto(t, "switch") /\ UNCHANGED <<EFQ, FEQ>>
             /\ tstate' = [tstate EXCEPT ![t] = "FEB_BLOCKED"] /\ Op(t) = "readFF"
    <3>1. \A o \in Obj : \A x \in Task : x \in FFQ'[o] => x \in FFQ[o] \/ (x = t /\ o = mp[t])
      BY Zenon, <1>0, <2>2 DEF Types
    <3> QED BY Zenon, <1>0, <1>00, <2>2, <3>1, BlockStep
  <2> QED BY Zenon, <1>0, <2>1, <2>2, MovesOn DEF Checking
<1>3. CASE writeEF(t)
  <2>1. \/ /\ Goto(t, "switch") /\ tstate' = [tstate EXCEPT ![t] = "FEB_BLOCKED"]
           /\ EFQ' = Push(EFQ, mp[t], t) /\ UNCHANGED <<FEQ, FFQ>> /\ Op(t) = "writeEF"
        \/ (Goto(t, "idle") \/ Goto(t, "fill")) /\ UNCHANGED <<tstate, EFQ, FEQ, FFQ>>
    BY Zenon, <1>3 DEF writeEF, Block, NoAddrres, UnlockReturn, Return
  <2>2. \A o \in Obj : /\ NoDup(Push(EFQ, mp[t], t)[o])
                       /\ \A x \in Task : x \in Members(Push(EFQ, mp[t], t)[o]) =>
                              x \in Members(EFQ[o]) \/ (x = t /\ o = mp[t])
    BY Zenon, <1>0, <1>00, PushList DEF Types
  <2>3. CASE EFQ' = Push(EFQ, mp[t], t) /\ Goto(t, "switch") /\ UNCHANGED <<FEQ, FFQ>>
             /\ tstate' = [tstate EXCEPT ![t] = "FEB_BLOCKED"] /\ Op(t) = "writeEF"
    BY Zenon, <1>0, <1>00, <2>2, <2>3, BlockStep
  <2> QED BY Zenon, <1>0, <2>1, <2>3, MovesOn DEF Checking
<1> QED BY Zenon, <1>1, <1>2, <1>3

-----------------------------------------------------------------------------
(* Waking.                                                                 *)

\* The tasks in S, blocked and taken off their lists, become ready; those in N, nascent,
\* go from the list of m into t's hands.
Wakes(t, m, S, N) ==
    /\ S \in SUBSET Task /\ N \in SUBSET Task
    /\ Schedule(S)
    /\ \A x \in S : tstate[x] = "FEB_BLOCKED" /\ pc[x] = "blocked"
    /\ \A x \in S : \A o \in Obj :
           x \notin Members(EFQ'[o]) /\ x \notin Members(FEQ'[o]) /\ x \notin FFQ'[o]
    /\ \A x \in N : tstate[x] = "NASCENT" /\ x \in FFQ[m]
    /\ N # {} => FFQ'[m] = {}
    /\ \A x \in Task : precond_tasks'[x] = IF x = t THEN precond_tasks[x] \cup N ELSE precond_tasks[x]
    /\ \A o \in Obj : NoDup(EFQ'[o]) /\ NoDup(FEQ'[o])
    /\ \A o \in Obj : \A x \in Task :
           /\ x \in Members(EFQ'[o]) => x \in Members(EFQ[o])
           /\ x \in Members(FEQ'[o]) => x \in Members(FEQ[o])
           /\ x \in FFQ'[o] => x \in FFQ[o]

\* Waking keeps everybody's place.
LEMMA WakeStep ==
    ASSUME Types, PlaceInv, NEW t \in Task, Running(t), pc[t] \in {"fill", "empty"},
           NEW l \in {"fill", "empty", "unlock"}, Goto(t, l),
           NEW m \in Obj, NEW S, NEW N, Wakes(t, m, S, N),
           UNCHANGED <<on, mp, call, checked, need>>
    PROVE  PlaceInv'
<1> USE DEF Wakes
<1>0. /\ \A x \in Task : t \notin precond_tasks[x] /\ ~Checks(x, t)
      /\ t \notin ready /\ tstate[t] \notin {"NASCENT", "FEB_BLOCKED"} /\ t \notin S
      /\ \A o \in Obj : t \notin Members(EFQ[o]) /\ t \notin Members(FEQ[o]) /\ t \notin FFQ[o]
  BY Zenon, NotListed
<1>1. /\ pc'[t] = l /\ \A x \in Task : x # t => pc'[x] = pc[x]
  BY Zenon, GotoFacts
<1>2. /\ \A x \in S : tstate'[x] = "RUNNING"
      /\ \A x \in Task \ S : tstate'[x] = tstate[x]
      /\ ready' = ready \cup S
  BY Zenon DEF Schedule
<1>3. \A x \in Task : Nascent(x)' <=> Nascent(x)
  BY Zenon, <1>0, <1>1, <1>2 DEF Nascent
<1>4. \A x \in Task \ S : \A o, op : BlockedOn(x, o, op) => BlockedOn(x, o, op)'
  BY Zenon, <1>0, <1>1, <1>2 DEF BlockedOn, Op
<1>5. ListInv'
  <2>1. ASSUME NEW o \in Obj, NEW x \in Task
        PROVE  /\ x \in Members(EFQ'[o]) => BlockedOn(x, o, "writeEF")'
               /\ x \in Members(FEQ'[o]) => BlockedOn(x, o, "readFE")'
               /\ x \in FFQ'[o] => Nascent(x)' \/ BlockedOn(x, o, "readFF")'
    BY Zenon, <1>3, <1>4 DEF PlaceInv, ListInv
  <2> QED BY Zenon, <2>1 DEF ListInv
<1>6. \A x, y \in Task : Checks(x, y)' <=> Checks(x, y)
  BY Zenon, <1>1 DEF Checks, Checking
<1>7. \A x \in Task : /\ x # t => precond_tasks'[x] = precond_tasks[x]
                      /\ precond_tasks'[t] = precond_tasks[t] \cup N
  BY Zenon
<1>8. NascentInv'
  <2>0. \A y \in N : Nascent(y)
    BY Zenon DEF PlaceInv, ListInv, BlockedOn
  <2>1. \A y, x \in Task : (y \in precond_tasks[x] \/ Checks(x, y))' => Nascent(y)'
    BY Zenon, <2>0, <1>3, <1>6, <1>7 DEF PlaceInv, NascentInv
  <2>2. \A y \in N : \A x \in Task : y \notin precond_tasks[x] /\ ~Checks(x, y)
    BY Zenon DEF PlaceInv, NascentInv
  <2>3. \A y, x \in Task : ~(y \in precond_tasks'[x] /\ Checks(x, y)')
    BY Zenon, <2>2, <1>6, <1>7 DEF PlaceInv, NascentInv
  <2>4. \A y, x, z \in Task : x # z =>
        ~((y \in precond_tasks[x] \/ Checks(x, y))' /\ (y \in precond_tasks[z] \/ Checks(z, y))')
    BY <2>2, <1>6, <1>7 DEF PlaceInv, NascentInv
  <2>5. \A y \in N : \A o \in Obj : y \notin FFQ'[o]
    BY Zenon, <2>0 DEF PlaceInv, NascentInv
  <2>6. \A y, x \in Task : \A o \in Obj :
        ~(y \in FFQ'[o] /\ (y \in precond_tasks[x] \/ Checks(x, y))')
    BY Zenon, <2>5, <1>6, <1>7 DEF PlaceInv, NascentInv
  <2>7. \A y \in Task : \A o, p \in Obj : Nascent(y)' /\ y \in FFQ'[o] /\ y \in FFQ'[p] => o = p
    BY Zenon, <1>3 DEF PlaceInv, NascentInv
  <2> QED BY Zenon, <2>1, <2>3, <2>4, <2>6, <2>7 DEF NascentInv
<1>9. RunInv'
  <2>1. \A x \in Task : Running(x)' <=> Running(x)
    BY Zenon DEF Running
  <2>2. \A x \in S : ~Running(x) /\ need[x] = <<>>
    BY Zenon DEF PlaceInv, RunInv
  <2>3. \A x \in Task : x \in ready' =>
            pc'[x] \in {"idle", "blocked"} /\ tstate'[x] \in {"NEW", "RUNNING"} /\ ~Running(x)'
    BY <1>0, <1>1, <1>2, <2>1, <2>2 DEF PlaceInv, RunInv
  <2>4. \A x \in Task : Running(x)' =>
            /\ pc'[x] \notin {"unborn", "blocked", "done"} /\ tstate'[x] # "NASCENT"
            /\ tstate'[x] = "FEB_BLOCKED" => pc'[x] = "switch"
    BY <1>0, <1>1, <1>2, <2>1, <2>2 DEF PlaceInv, RunInv
  <2>5. \A x \in Task : Running(x)' \/ pc'[x] \in {"unborn", "idle", "blocked", "done"}
    BY Zenon, <1>1, <2>1 DEF PlaceInv, RunInv
  <2>6. /\ \A x \in Task : pc'[x] \notin {"unborn", "idle"} => tstate'[x] # "NASCENT"
        /\ \A x \in Task : pc'[x] = "unborn" => tstate'[x] = "NASCENT"
        /\ \A x \in Task : tstate'[x] # "NASCENT" => need'[x] = <<>>
    BY <1>0, <1>1, <1>2, <2>2 DEF PlaceInv, RunInv
  <2>7. \A v, w \in Worker : on'[v] = on'[w] /\ on'[v] # NULL => v = w
    BY DEF PlaceInv, RunInv
  <2> QED BY Zenon, <2>3, <2>4, <2>5, <2>6, <2>7 DEF RunInv
<1> QED BY Zenon, <1>5, <1>8, <1>9 DEF PlaceInv

\* Who waits in a list of the addrstat that t has locked has left its worker: it would hold
\* the lock itself otherwise (qthread_master unlocks when the context is saved).
LEMMA WaiterHasLeft ==
    ASSUME LockInv, NEW t \in Task, pc[t] \in {"fill", "empty"},
           NEW x \in Task, NEW op, BlockedOn(x, mp[t], op)
    PROVE  pc[x] = "blocked" /\ tstate[x] = "FEB_BLOCKED"
<1>1. x # t
  BY Zenon DEF BlockedOn
<1>2. pc[x] # "switch"
  BY Zenon, <1>1, HolderUnique DEF BlockedOn, HoldsM
<1> QED BY Zenon, <1>2 DEF BlockedOn

\* The head of a list leaves it.
LEMMA TailList ==
    ASSUME NEW q \in [Obj -> Seq(Task)], NEW m \in Obj, NEW r,
           \A o \in Obj : NoDup(q[o]) /\ (o # m => r[o] = q[o]),
           r[m] = IF q[m] = <<>> THEN q[m] ELSE Tail(q[m])
    PROVE  /\ \A o \in Obj : NoDup(r[o]) /\ \A x \in Task : x \in Members(r[o]) => x \in Members(q[o])
           /\ q[m] # <<>> => Head(q[m]) \in Members(q[m]) /\ Head(q[m]) \notin Members(r[m])
<1>1. \A o \in Obj : o # m => r[o] = q[o]
  BY Zenon
<1>2. CASE q[m] = <<>>
  <2>1. r[m] = q[m] BY Zenon, <1>2
  <2> QED BY Zenon, <1>1, <1>2, <2>1
<1>3. CASE q[m] # <<>>
  <2>1. r[m] = Tail(q[m]) BY Zenon, <1>3
  <2>2. q[m] \in Seq(Task) /\ NoDup(q[m]) BY Zenon
  <2>3. /\ Head(q[m]) \in Members(q[m]) /\ NoDup(Tail(q[m]))
        /\ Members(Tail(q[m])) = Members(q[m]) \ {Head(q[m])}
    BY Zenon, <1>3, <2>2, TailMembers
  <2> QED BY Zenon, <1>1, <2>1, <2>3
<1> QED BY Zenon, <1>2, <1>3

\* qthread_gotlock_fill_inner wakes the readers and one taker, and takes nascent tasks up.
LEMMA FillStep ==
    ASSUME Types, LockInv, PlaceInv, NEW t \in Task, gotlock_fill(t)
    PROVE  PlaceInv'
<1> DEFINE m == mp[t]
           N == {x \in FFQ[m] : tstate[x] = "NASCENT"}
           taker == IF FEQ[m] = <<>> THEN {} ELSE {Head(FEQ[m])}
           S == taker \cup (FFQ[m] \ N)
<1>0. Running(t) /\ pc[t] = "fill" /\ m \in Obj
  BY Zenon DEF gotlock_fill, At, LockInv, HolderInv, HoldsM, Types
<1>1. /\ FEQ' = [FEQ EXCEPT ![m] = IF @ = <<>> THEN @ ELSE Tail(@)]
      /\ FFQ' = [FFQ EXCEPT ![m] = {}] /\ UNCHANGED EFQ
      /\ Schedule(S) /\ precond_tasks' = [precond_tasks EXCEPT ![t] = @ \cup N]
      /\ Goto(t, IF taker = {} THEN "unlock" ELSE "empty")
      /\ UNCHANGED <<on, mp, call, checked, need>>
  BY Zenon DEF gotlock_fill
<1>2. \A o \in Obj : NoDup(EFQ[o]) /\ NoDup(FEQ[o])
  BY Zenon DEF PlaceInv, ListInv
<1>3. FEQ \in [Obj -> Seq(Task)] /\ FFQ \in [Obj -> SUBSET Task]
  BY Zenon DEF Types
<1> HIDE DEF m
<1>4. /\ \A o \in Obj : NoDup(FEQ'[o]) /\ \A x \in Task : x \in Members(FEQ'[o]) => x \in Members(FEQ[o])
      /\ FEQ[m] # <<>> => Head(FEQ[m]) \in Members(FEQ[m]) /\ Head(FEQ[m]) \notin Members(FEQ'[m])
  <2>1. \A o \in Obj : o # m => FEQ'[o] = FEQ[o]
    BY Zenon, <1>1, <1>3
  <2>2. FEQ'[m] = IF FEQ[m] = <<>> THEN FEQ[m] ELSE Tail(FEQ[m])
    BY Zenon, <1>0, <1>1, <1>3
  <2> QED BY Zenon, <1>0, <1>2, <1>3, <2>1, <2>2, TailList
<1>5. FFQ'[m] = {} /\ \A o \in Obj : FFQ'[o] \subseteq FFQ[o]
  BY Zenon, <1>0, <1>1, <1>3
<1>6. S \in SUBSET Task /\ N \in SUBSET Task
  <2>1. FEQ[m] # <<>> => Head(FEQ[m]) \in Task
    BY <1>0, <1>3
  <2> QED BY Zenon, <1>0, <1>3, <2>1
<1>7. ASSUME NEW x \in S
      PROVE  /\ tstate[x] = "FEB_BLOCKED" /\ pc[x] = "blocked"
             /\ \A o \in Obj : x \notin Members(EFQ'[o]) /\ x \notin Members(FEQ'[o]) /\ x \notin FFQ'[o]
  <2>0. x \in Task BY Zenon, <1>6
  <2>1. CASE x \in taker
    <3>1. x \in Members(FEQ[m]) /\ x \notin Members(FEQ'[m])
      BY Zenon, <2>1, <1>4
    <3>2. BlockedOn(x, m, "readFE")
      BY Zenon, <3>1, <2>0, <1>0 DEF PlaceInv, ListInv
    <3>3. tstate[x] = "FEB_BLOCKED" /\ pc[x] = "blocked"
      BY Zenon, <3>2, <2>0, <1>0, WaiterHasLeft DEF m
    <3>4. ASSUME NEW o \in Obj
          PROVE  x \notin Members(EFQ[o]) /\ x \notin FFQ[o] /\ (x \in Members(FEQ[o]) => o = m)
      BY Zenon, <3>2, <2>0 DEF PlaceInv, ListInv, BlockedOn, Nascent
    <3> QED BY Zenon, <2>0, <3>1, <3>3, <3>4, <1>1, <1>4, <1>5
  <2>2. CASE x \in FFQ[m] \ N
    <3>1. BlockedOn(x, m, "readFF")
      BY Zenon, <2>2, <2>0, <1>0 DEF PlaceInv, ListInv, Nascent
    <3>2. tstate[x] = "FEB_BLOCKED" /\ pc[x] = "blocked"
      BY Zenon, <3>1, <2>0, <1>0, WaiterHasLeft DEF m
    <3>3. ASSUME NEW o \in Obj
          PROVE  x \notin Members(EFQ[o]) /\ x \notin Members(FEQ[o]) /\ (x \in FFQ[o] => o = m)
      BY Zenon, <3>1, <2>0 DEF PlaceInv, ListInv, BlockedOn, Nascent
    <3> QED BY Zenon, <2>0, <3>2, <3>3, <1>1, <1>4, <1>5
  <2> QED BY Zenon, <2>1, <2>2
<1>8. \A x \in N : tstate[x] = "NASCENT" /\ x \in FFQ[m]
  BY Zenon
<1>9. PICK l \in {"empty", "unlock"} : Goto(t, l)
  BY Zenon, <1>1
<1> HIDE DEF S, N, taker
<1>10. \A o \in Obj : \A x \in Task :
           /\ x \in Members(EFQ'[o]) => x \in Members(EFQ[o])
           /\ x \in Members(FEQ'[o]) => x \in Members(FEQ[o])
           /\ x \in FFQ'[o] => x \in FFQ[o]
  BY Zenon, <1>1, <1>4, <1>5
<1>11. \A o \in Obj : NoDup(EFQ'[o]) /\ NoDup(FEQ'[o])
  BY Zenon, <1>1, <1>2, <1>4
<1>12. \A x \in Task : precond_tasks'[x] = IF x = t THEN precond_tasks[x] \cup N ELSE precond_tasks[x]
  BY Zenon, <1>1 DEF Types
<1>13. Wakes(t, m, S, N)
  BY Zenon, <1>1, <1>5, <1>6, <1>7, <1>8, <1>10, <1>11, <1>12 DEF Wakes
<1> QED BY Zenon, <1>0, <1>1, <1>9, <1>13, WakeStep

\* qthread_gotlock_empty_inner wakes one writer.
LEMMA EmptyStep ==
    ASSUME Types, LockInv, PlaceInv, NEW t \in Task, gotlock_empty(t)
    PROVE  PlaceInv'
<1> DEFINE m == mp[t]
           S == IF EFQ[m] = <<>> THEN {} ELSE {Head(EFQ[m])}
<1>0. Running(t) /\ pc[t] = "empty" /\ m \in Obj
  BY Zenon DEF gotlock_empty, At, LockInv, HolderInv, HoldsM, Types
<1>1. /\ EFQ' = [EFQ EXCEPT ![m] = IF @ = <<>> THEN @ ELSE Tail(@)]
      /\ UNCHANGED <<FEQ, FFQ>> /\ Schedule(S) /\ UNCHANGED precond_tasks
      /\ Goto(t, IF S = {} THEN "unlock" ELSE "fill")
      /\ UNCHANGED <<on, mp, call, checked, need>>
  BY Zenon DEF gotlock_empty, pre
<1>2. \A o \in Obj : NoDup(EFQ[o]) /\ NoDup(FEQ[o])
  BY Zenon DEF PlaceInv, ListInv
<1>3. EFQ \in [Obj -> Seq(Task)] /\ precond_tasks \in [Task -> SUBSET Task]
  BY Zenon DEF Types
<1> HIDE DEF m
<1>4. /\ \A o \in Obj : NoDup(EFQ'[o]) /\ \A x \in Task : x \in Members(EFQ'[o]) => x \in Members(EFQ[o])
      /\ EFQ[m] # <<>> => Head(EFQ[m]) \in Members(EFQ[m]) /\ Head(EFQ[m]) \notin Members(EFQ'[m])
  <2>1. \A o \in Obj : o # m => EFQ'[o] = EFQ[o]
    BY Zenon, <1>1, <1>3
  <2>2. EFQ'[m] = IF EFQ[m] = <<>> THEN EFQ[m] ELSE Tail(EFQ[m])
    BY Zenon, <1>0, <1>1, <1>3
  <2> QED BY Zenon, <1>0, <1>2, <1>3, <2>1, <2>2, TailList
<1>5. S \in SUBSET Task
  <2>1. EFQ[m] # <<>> => Head(EFQ[m]) \in Task
    BY <1>0, <1>3
  <2> QED BY Zenon, <2>1
<1>6. ASSUME NEW x \in S
      PROVE  /\ tstate[x] = "FEB_BLOCKED" /\ pc[x] = "blocked"
             /\ \A o \in Obj : x \notin Members(EFQ'[o]) /\ x \notin Members(FEQ'[o]) /\ x \notin FFQ'[o]
  <2>0. x \in Task BY Zenon, <1>5
  <2>1. x \in Members(EFQ[m]) /\ x \notin Members(EFQ'[m])
    BY Zenon, <1>6, <1>4
  <2>2. BlockedOn(x, m, "writeEF")
    BY Zenon, <2>1, <2>0, <1>0 DEF PlaceInv, ListInv
  <2>3. tstate[x] = "FEB_BLOCKED" /\ pc[x] = "blocked"
    BY Zenon, <2>2, <2>0, <1>0, WaiterHasLeft DEF m
  <2>4. ASSUME NEW o \in Obj
        PROVE  x \notin Members(FEQ[o]) /\ x \notin FFQ[o] /\ (x \in Members(EFQ[o]) => o = m)
    BY Zenon, <2>2, <2>0 DEF PlaceInv, ListInv, BlockedOn, Nascent
  <2> QED BY Zenon, <2>0, <2>1, <2>3, <2>4, <1>1, <1>4
<1>7. PICK l \in {"fill", "unlock"} : Goto(t, l)
  BY Zenon, <1>1
<1> HIDE DEF S
<1>8. \A o \in Obj : \A x \in Task :
           /\ x \in Members(EFQ'[o]) => x \in Members(EFQ[o])
           /\ x \in Members(FEQ'[o]) => x \in Members(FEQ[o])
           /\ x \in FFQ'[o] => x \in FFQ[o]
  BY Zenon, <1>1, <1>4
<1>9. \A o \in Obj : NoDup(EFQ'[o]) /\ NoDup(FEQ'[o])
  BY Zenon, <1>1, <1>2, <1>4
<1>10. Wakes(t, m, S, {})
  BY <1>1, <1>5, <1>6, <1>8, <1>9 DEF Wakes
<1> QED BY Zenon, <1>0, <1>1, <1>7, <1>10, WakeStep
-----------------------------------------------------------------------------
(* Nascent tasks.                                                          *)

\* Taking the next nascent task up leaves it in the same hands.
LEMMA PickStep ==
    ASSUME Types, PlaceInv, NEW t \in Task, PickNascent(t)
    PROVE  PlaceInv'
<1> USE DEF sync, sched, pre, At
<1>0. PICK n \in precond_tasks[t] :
          /\ checked' = [checked EXCEPT ![t] = n]
          /\ precond_tasks' = [precond_tasks EXCEPT ![t] = @ \ {n}]
  BY Zenon DEF PickNascent
<1>1. /\ Running(t) /\ pc[t] = "launch" /\ Goto(t, "check") /\ n \in Task
      /\ UNCHANGED <<ready, on, tstate, EFQ, FEQ, FFQ, call, mp, need>>
  BY Zenon, <1>0 DEF PickNascent, Types
<1>2. t \notin ready /\ tstate[t] \notin {"NASCENT", "FEB_BLOCKED"}
  BY Zenon, <1>1, NotListed
<1>3. pc'[t] = "check" /\ \A x \in Task : x # t => pc'[x] = pc[x]
  BY Zenon, <1>1, GotoFacts
<1>4. /\ checked'[t] = n /\ \A x \in Task : x # t => checked'[x] = checked[x]
      /\ precond_tasks'[t] = precond_tasks[t] \ {n}
      /\ \A x \in Task : x # t => precond_tasks'[x] = precond_tasks[x]
  BY Zenon, <1>0 DEF Types
<1>5. \A x \in Task : /\ Nascent(x)' <=> Nascent(x)
                      /\ \A o, op : BlockedOn(x, o, op)' <=> BlockedOn(x, o, op)
  BY Zenon, <1>1, <1>2, <1>3 DEF Nascent, BlockedOn, Op
<1>6. ListInv'
  BY Zenon, <1>1, <1>5 DEF PlaceInv, ListInv
<1>7. \A x, y \in Task : /\ y \in precond_tasks'[x] => y \in precond_tasks[x] /\ (x = t => y # n)
                         /\ Checks(x, y)' => (x # t /\ Checks(x, y)) \/ (x = t /\ y = n)
  BY Zenon, <1>3, <1>4 DEF Checks
<1>8. \A x, y \in Task : (y \in precond_tasks[x] \/ Checks(x, y))' => y \in precond_tasks[x] \/ Checks(x, y)
  BY Zenon, <1>0, <1>7
<1>9. NascentInv'
  <2>1. \A y, x \in Task : (y \in precond_tasks[x] \/ Checks(x, y))' => Nascent(y)'
    BY Zenon, <1>5, <1>8 DEF PlaceInv, NascentInv
  <2>2. \A y, x \in Task : ~(y \in precond_tasks'[x] /\ Checks(x, y)')
    BY Zenon, <1>7 DEF PlaceInv, NascentInv
  <2>3. \A y, x, z \in Task : x # z =>
        ~((y \in precond_tasks[x] \/ Checks(x, y))' /\ (y \in precond_tasks[z] \/ Checks(z, y))')
    BY Zenon, <1>8 DEF PlaceInv, NascentInv
  <2>4. \A y, x \in Task : \A o \in Obj :
        ~(y \in FFQ'[o] /\ (y \in precond_tasks[x] \/ Checks(x, y))')
    BY Zenon, <1>1, <1>8 DEF PlaceInv, NascentInv
  <2>5. \A y \in Task : \A o, p \in Obj : Nascent(y)' /\ y \in FFQ'[o] /\ y \in FFQ'[p] => o = p
    BY Zenon, <1>1, <1>5 DEF PlaceInv, NascentInv
  <2> QED BY Zenon, <2>1, <2>2, <2>3, <2>4, <2>5 DEF NascentInv
<1>10. RunInv'
  <2>1. \A x \in Task : Running(x)' <=> Running(x)
    BY Zenon, <1>1 DEF Running
  <2> QED BY Zenon, <1>1, <1>2, <1>3, <2>1 DEF PlaceInv, RunInv
<1> QED BY Zenon, <1>6, <1>9, <1>10 DEF PlaceInv

\* The task that t checks is nascent, in no list, in nobody else's hands, and not t.
LEMMA CheckedPlace ==
    ASSUME Types, LocalInv, PlaceInv, NEW t \in Task, Running(t), pc[t] \in Checking
    PROVE  /\ checked[t] \in Task /\ checked[t] # t /\ Nascent(checked[t]) /\ ~Running(checked[t])
           /\ \A o \in Obj : /\ checked[t] \notin Members(EFQ[o]) /\ checked[t] \notin Members(FEQ[o])
                             /\ checked[t] \notin FFQ[o]
           /\ \A x \in Task : checked[t] \notin precond_tasks[x] /\ (Checks(x, checked[t]) => x = t)
<1> DEFINE n == checked[t]
<1>1. n \in Task /\ Checks(t, n)
  BY Zenon DEF LocalInv, Checks
<1> HIDE DEF n
<1>2. Nascent(n)
  BY Zenon, <1>1 DEF PlaceInv, NascentInv
<1>3. ~Running(n) /\ n # t
  BY Zenon, <1>1, <1>2 DEF PlaceInv, RunInv, Nascent
<1>4. \A o \in Obj : n \notin Members(EFQ[o]) /\ n \notin Members(FEQ[o]) /\ n \notin FFQ[o]
  BY Zenon, <1>1, <1>2 DEF PlaceInv, ListInv, NascentInv, Nascent, BlockedOn
<1>5. \A x \in Task : n \notin precond_tasks[x] /\ (Checks(x, n) => x = t)
  BY Zenon, <1>1 DEF PlaceInv, NascentInv
<1> QED BY Zenon, <1>1, <1>2, <1>3, <1>4, <1>5 DEF n

\* A task whose preconditions were all seen full leaves the hands that checked it and
\* becomes ready.
LEMMA LaunchStep ==
    ASSUME Types, LocalInv, PlaceInv, NEW t \in Task, Launch(t)
    PROVE  PlaceInv'
<1> USE DEF sync, sched, pre, At
<1> DEFINE n == checked[t]
<1>1. /\ Running(t) /\ pc[t] = "check" /\ need[n] = <<>>
      /\ tstate' = [tstate EXCEPT ![n] = "NEW"] /\ ready' = ready \cup {n}
      /\ UNCHANGED <<on, EFQ, FEQ, FFQ, call, mp, checked, need, precond_tasks>>
  BY Zenon DEF Launch
<1>2. PICK l \in {"launch", "rhash", "idle"} : Goto(t, l)
  BY Zenon DEF Launch, AfterUnlock
<1>3. t \notin ready /\ tstate[t] \notin {"NASCENT", "FEB_BLOCKED"}
  BY Zenon, <1>1, NotListed
<1>4. /\ n \in Task /\ n # t /\ Nascent(n) /\ ~Running(n)
      /\ \A o \in Obj : n \notin Members(EFQ[o]) /\ n \notin Members(FEQ[o]) /\ n \notin FFQ[o]
      /\ \A x \in Task : n \notin precond_tasks[x] /\ (Checks(x, n) => x = t)
  BY Zenon, <1>1, CheckedPlace DEF Checking
<1> HIDE DEF n
<1>5. pc'[t] = l /\ \A x \in Task : x # t => pc'[x] = pc[x]
  BY Zenon, <1>2, GotoFacts
<1>6. tstate'[n] = "NEW" /\ \A x \in Task : x # n => tstate'[x] = tstate[x]
  BY Zenon, <1>1, <1>4 DEF Types
<1>7. \A x \in Task : x # n => /\ Nascent(x)' <=> Nascent(x)
                               /\ \A o, op : BlockedOn(x, o, op)' <=> BlockedOn(x, o, op)
  BY Zenon, <1>1, <1>3, <1>5, <1>6 DEF Nascent, BlockedOn, Op
<1>8. ListInv'
  <2>1. ASSUME NEW o \in Obj, NEW x \in Task
        PROVE  /\ x \in Members(EFQ'[o]) => BlockedOn(x, o, "writeEF")'
               /\ x \in Members(FEQ'[o]) => BlockedOn(x, o, "readFE")'
               /\ x \in FFQ'[o] => Nascent(x)' \/ BlockedOn(x, o, "readFF")'
    BY Zenon, <1>1, <1>4, <1>7 DEF PlaceInv, ListInv
  <2>2. \A o \in Obj : NoDup(EFQ'[o]) /\ NoDup(FEQ'[o])
    BY Zenon, <1>1 DEF PlaceInv, ListInv
  <2> QED BY Zenon, <2>1, <2>2 DEF ListInv
<1>9. \A x, y \in Task : Checks(x, y)' => Checks(x, y) /\ x # t
  BY Zenon, <1>1, <1>5 DEF Checks, Checking
<1>10. NascentInv'
  <2>1. \A y, x \in Task : (y \in precond_tasks[x] \/ Checks(x, y))' =>
            y # n /\ (y \in precond_tasks[x] \/ Checks(x, y))
    BY Zenon, <1>1, <1>4, <1>9
  <2>2. \A y, x \in Task : (y \in precond_tasks[x] \/ Checks(x, y))' => Nascent(y)'
    BY Zenon, <2>1, <1>7 DEF PlaceInv, NascentInv
  <2>3. \A y \in Task : \A o, p \in Obj : Nascent(y)' /\ y \in FFQ'[o] /\ y \in FFQ'[p] => o = p
    BY <1>1, <1>4, <1>7 DEF PlaceInv, NascentInv
  <2> QED BY Zenon, <2>1, <2>2, <2>3, <1>1, <1>9 DEF PlaceInv, NascentInv
<1>11. RunInv'
  <2>1. \A x \in Task : Running(x)' <=> Running(x)
    BY Zenon, <1>1 DEF Running
  <2>2. pc'[n] = "idle"
    BY Zenon, <1>4, <1>5 DEF Nascent
  <2>3. \A x \in Task : x \in ready' =>
            pc'[x] \in {"idle", "blocked"} /\ tstate'[x] \in {"NEW", "RUNNING"} /\ ~Running(x)'
    BY Zenon, <1>1, <1>3, <1>4, <1>5, <1>6, <2>1, <2>2 DEF PlaceInv, RunInv
  <2>4. \A x \in Task : Running(x)' =>
            /\ pc'[x] \notin {"unborn", "blocked", "done"} /\ tstate'[x] # "NASCENT"
            /\ tstate'[x] = "FEB_BLOCKED" => pc'[x] = "switch"
    BY Zenon, <1>3, <1>4, <1>5, <1>6, <2>1 DEF PlaceInv, RunInv
  <2>5. \A x \in Task : Running(x)' \/ pc'[x] \in {"unborn", "idle", "blocked", "done"}
    BY Zenon, <1>1, <1>5, <2>1 DEF PlaceInv, RunInv
  <2>6. /\ \A x \in Task : pc'[x] \notin {"unborn", "idle"} => tstate'[x] # "NASCENT"
        /\ \A x \in Task : pc'[x] = "unborn" => tstate'[x] = "NASCENT"
        /\ \A x \in Task : tstate'[x] # "NASCENT" => need'[x] = <<>>
    BY <1>1, <1>3, <1>5, <1>6, <2>2 DEF PlaceInv, RunInv
  <2>7. \A v, w \in Worker : on'[v] = on'[w] /\ on'[v] # NULL => v = w
    BY Zenon, <1>1 DEF PlaceInv, RunInv
  <2> QED BY Zenon, <2>3, <2>4, <2>5, <2>6, <2>7 DEF RunInv
<1> QED BY Zenon, <1>8, <1>10, <1>11 DEF PlaceInv

\* A task with a precondition that is not full goes from t's hands to the list of m.
LEMMA PrecondStep ==
    ASSUME Types, LocalInv, LockInv, PlaceInv, NEW t \in Task, CheckPrecond(t)
    PROVE  PlaceInv'
<1> USE DEF sync, sched, pre, At
<1> DEFINE n == checked[t]
<1>1. /\ Running(t) /\ pc[t] = "cbody" /\ mp[t] \in Obj
      /\ UNCHANGED <<ready, on, EFQ, FEQ, call, mp, checked, precond_tasks>>
  BY Zenon DEF CheckPrecond, LockInv, HolderInv, HoldsM, Types
<1>2. t \notin ready /\ tstate[t] \notin {"NASCENT", "FEB_BLOCKED"}
  BY Zenon, <1>1, NotListed
<1>3. /\ n \in Task /\ n # t /\ Nascent(n) /\ ~Running(n)
      /\ \A o \in Obj : n \notin Members(EFQ[o]) /\ n \notin Members(FEQ[o]) /\ n \notin FFQ[o]
      /\ \A x \in Task : n \notin precond_tasks[x] /\ (Checks(x, n) => x = t)
  BY Zenon, <1>1, CheckedPlace DEF Checking
<1>4. CASE full[mp[t]]
  <2>1. need' = [need EXCEPT ![n] = DropLast(@)] /\ Goto(t, "check") /\ UNCHANGED <<FFQ, tstate>>
    BY Zenon, <1>4 DEF CheckPrecond
  <2>2. Alone(t) /\ pc'[t] = "check"
    BY Zenon, <1>1, <2>1, GotoAlone
  <2>3. \A x \in Task : tstate[x] # "NASCENT" => need'[x] = need[x]
    BY Zenon, <1>3, <2>1 DEF Nascent, Types
  <2> QED BY Zenon, <1>1, <2>1, <2>2, <2>3, OwnStep DEF Checking
<1>5. CASE ~full[mp[t]]
  <2>1. /\ FFQ' = [FFQ EXCEPT ![mp[t]] = @ \cup {n}] /\ UNCHANGED need
        /\ tstate' = [tstate EXCEPT ![n] = "NASCENT"]
    BY Zenon, <1>5 DEF CheckPrecond
  <2>2. PICK l \in {"launch", "rhash", "idle"} : Goto(t, l)
    BY Zenon, <1>5 DEF CheckPrecond, AfterUnlock
  <2> HIDE DEF n
  <2>3. pc'[t] = l /\ \A x \in Task : x # t => pc'[x] = pc[x]
    BY Zenon, <2>2, GotoFacts
  <2>4. tstate' = tstate
    BY Zenon, <1>3, <2>1 DEF Nascent, Types
  <2>5. \A x \in Task : /\ Nascent(x)' <=> Nascent(x)
                        /\ \A o, op : BlockedOn(x, o, op)' <=> BlockedOn(x, o, op)
    BY Zenon, <1>1, <1>2, <2>3, <2>4 DEF Nascent, BlockedOn, Op
  <2>6. \A o \in Obj : \A x \in Task : x \in FFQ'[o] => x \in FFQ[o] \/ (x = n /\ o = mp[t])
    BY Zenon, <1>1, <2>1 DEF Types
  <2>7. ListInv'
    BY Zenon, <1>1, <1>3, <2>5, <2>6 DEF PlaceInv, ListInv
  <2>8. \A x, y \in Task : Checks(x, y)' => Checks(x, y) /\ x # t
    BY Zenon, <1>1, <2>3 DEF Checks, Checking
  <2>9. NascentInv'
    <3>1. \A y, x \in Task : (y \in precond_tasks[x] \/ Checks(x, y))' =>
              y # n /\ (y \in precond_tasks[x] \/ Checks(x, y))
      BY Zenon, <1>1, <1>3, <2>8
    <3>2. \A y, x \in Task : (y \in precond_tasks[x] \/ Checks(x, y))' => Nascent(y)'
      BY Zenon, <3>1, <2>5 DEF PlaceInv, NascentInv
    <3>3. \A y \in Task : \A o, p \in Obj : Nascent(y)' /\ y \in FFQ'[o] /\ y \in FFQ'[p] => o = p
      BY <1>3, <2>5, <2>6 DEF PlaceInv, NascentInv
    <3>4. \A y, x \in Task : \A o \in Obj :
              ~(y \in FFQ'[o] /\ (y \in precond_tasks[x] \/ Checks(x, y))')
      BY Zenon, <3>1, <2>6 DEF PlaceInv, NascentInv
    <3> QED BY Zenon, <3>1, <3>2, <3>3, <3>4, <1>1, <2>8 DEF PlaceInv, NascentInv
  <2>10. RunInv'
    <3>1. \A x \in Task : Running(x)' <=> Running(x)
      BY Zenon, <1>1 DEF Running
    <3> QED BY Zenon, <1>1, <1>2, <2>1, <2>3, <2>4, <3>1 DEF PlaceInv, RunInv
  <2> QED BY Zenon, <2>7, <2>9, <2>10 DEF PlaceInv
<1> QED BY Zenon, <1>4, <1>5

-----------------------------------------------------------------------------
(* Calls, and the worker loop.                                             *)

\* A call begins; qthread_spawn makes a nascent task, which is in its spawner's hands.
LEMMA BeginStep ==
    ASSUME Types, PlaceInv, NEW t \in Task, Begin(t)
    PROVE  PlaceInv'
<1> USE DEF sync, sched, pre, At
<1> DEFINE c == Head(todo[t])
<1>1. /\ Running(t) /\ pc[t] = "idle" /\ call' = [call EXCEPT ![t] = c]
      /\ UNCHANGED <<ready, on, tstate, EFQ, FEQ, FFQ, mp, checked, need>>
  BY Zenon DEF Begin
<1>2. \/ Goto(t, "hash") /\ UNCHANGED precond_tasks
      \/ /\ c.op = "spawn" /\ pc[c.n] = "unborn"
         /\ precond_tasks' = [precond_tasks EXCEPT ![t] = {c.n}]
         /\ pc' = [pc EXCEPT ![c.n] = "idle", ![t] = "launch"]
  BY Zenon DEF Begin
<1>3. c.op = "spawn" => c.n \in Task
  <2>1. todo[t] # <<>>
    BY Zenon DEF Begin
  <2> QED BY Zenon, <2>1, NextCall
<1> HIDE DEF c
<1>4. \A x \in Task : x # t => call'[x] = call[x]
  BY Zenon, <1>1 DEF Types
<1>5. CASE Goto(t, "hash") /\ UNCHANGED precond_tasks
  <2>1. pc'[t] = "hash" /\ \A x \in Task : x # t => pc'[x] = pc[x]
    BY Zenon, <1>5, GotoFacts
  <2>2. Alone(t)
    BY Zenon, <1>1, <1>4, <2>1 DEF Alone
  <2> QED BY Zenon, <1>1, <1>5, <2>1, <2>2, OwnStep DEF Checking
<1>6. CASE /\ c.op = "spawn" /\ pc[c.n] = "unborn"
           /\ precond_tasks' = [precond_tasks EXCEPT ![t] = {c.n}]
           /\ pc' = [pc EXCEPT ![c.n] = "idle", ![t] = "launch"]
  <2>0. PICK n \in Task : n = c.n
    BY Zenon, <1>3, <1>6
  <2>1. /\ pc'[t] = "launch" /\ pc'[n] = "idle" /\ pc[n] = "unborn"
        /\ n # t /\ \A x \in Task \ {t, n} : pc'[x] = pc[x]
    BY Zenon, <1>1, <1>6, <2>0 DEF Types
  <2>2. /\ precond_tasks'[t] = {n}
        /\ \A x \in Task : x # t => precond_tasks'[x] = precond_tasks[x]
    BY Zenon, <1>6, <2>0 DEF Types
  <2>3. /\ t \notin ready /\ tstate[t] \notin {"NASCENT", "FEB_BLOCKED"}
        /\ \A o \in Obj : t \notin Members(EFQ[o]) /\ t \notin Members(FEQ[o]) /\ t \notin FFQ[o]
        /\ \A x \in Task : t \notin precond_tasks[x] /\ ~Checks(x, t)
    BY Zenon, <1>1, NotListed
  <2>4. /\ tstate[n] = "NASCENT" /\ n \notin ready /\ ~Running(n)
        /\ ~Nascent(n) /\ \A o, op : ~BlockedOn(n, o, op)
    BY Zenon, <2>0, <2>1 DEF PlaceInv, RunInv, Nascent, BlockedOn
  <2>5. /\ \A o \in Obj : n \notin Members(EFQ[o]) /\ n \notin Members(FEQ[o]) /\ n \notin FFQ[o]
        /\ \A x \in Task : n \notin precond_tasks[x] /\ ~Checks(x, n)
    BY Zenon, <2>0, <2>4 DEF PlaceInv, ListInv, NascentInv
  <2>6. /\ \A x \in Task \ {t, n} : /\ Nascent(x)' <=> Nascent(x)
                                    /\ \A o, op : BlockedOn(x, o, op)' <=> BlockedOn(x, o, op)
        /\ Nascent(n)' /\ ~Nascent(t)'
    BY Zenon, <1>1, <1>4, <2>0, <2>1, <2>3, <2>4 DEF Nascent, BlockedOn, Op
  <2>7. ListInv'
    <3>1. ASSUME NEW o \in Obj, NEW x \in Task
          PROVE  /\ x \in Members(EFQ'[o]) => BlockedOn(x, o, "writeEF")'
                 /\ x \in Members(FEQ'[o]) => BlockedOn(x, o, "readFE")'
                 /\ x \in FFQ'[o] => Nascent(x)' \/ BlockedOn(x, o, "readFF")'
      BY Zenon, <1>1, <2>3, <2>5, <2>6 DEF PlaceInv, ListInv
    <3>2. \A o \in Obj : NoDup(EFQ'[o]) /\ NoDup(FEQ'[o])
      BY Zenon, <1>1 DEF PlaceInv, ListInv
    <3> QED BY Zenon, <3>1, <3>2 DEF ListInv
  <2>8. \A x, y \in Task : Checks(x, y)' => Checks(x, y) /\ x # t
    BY Zenon, <1>1, <2>0, <2>1 DEF Checks, Checking
  <2>9. \A x, y \in Task : (y \in precond_tasks[x] \/ Checks(x, y))' =>
            \/ y = n /\ x = t /\ ~Checks(x, y)'
            \/ y \notin {t, n} /\ (y \in precond_tasks[x] \/ Checks(x, y)) /\ x # t
    BY <2>2, <2>3, <2>5, <2>8
  <2>10. NascentInv'
    <3>1. \A y, x \in Task : (y \in precond_tasks[x] \/ Checks(x, y))' => Nascent(y)'
      BY Zenon, <2>6, <2>9 DEF PlaceInv, NascentInv
    <3>2. \A y, x \in Task : ~(y \in precond_tasks'[x] /\ Checks(x, y)')
      BY Zenon, <2>2, <2>8, <2>9 DEF PlaceInv, NascentInv
    <3>3. \A y, x, z \in Task : x # z =>
          ~((y \in precond_tasks[x] \/ Checks(x, y))' /\ (y \in precond_tasks[z] \/ Checks(z, y))')
      BY Zenon, <2>9 DEF PlaceInv, NascentInv
    <3>4. \A y, x \in Task : \A o \in Obj :
          ~(y \in FFQ'[o] /\ (y \in precond_tasks[x] \/ Checks(x, y))')
      BY <1>1, <2>5, <2>9 DEF PlaceInv, NascentInv
    <3>5. \A y \in Task : \A o, p \in Obj : Nascent(y)' /\ y \in FFQ'[o] /\ y \in FFQ'[p] => o = p
      BY Zenon, <1>1, <2>3, <2>5, <2>6 DEF PlaceInv, NascentInv
    <3> QED BY Zenon, <3>1, <3>2, <3>3, <3>4, <3>5 DEF NascentInv
  <2>11. RunInv'
    <3>1. \A x \in Task : Running(x)' <=> Running(x)
      BY Zenon, <1>1 DEF Running
    <3>2. \A x \in Task : x \in ready' =>
              pc'[x] \in {"idle", "blocked"} /\ tstate'[x] \in {"NEW", "RUNNING"} /\ ~Running(x)'
      BY Zenon, <1>1, <2>1, <2>3, <2>4, <3>1 DEF PlaceInv, RunInv
    <3>3. \A x \in Task : Running(x)' =>
              /\ pc'[x] \notin {"unborn", "blocked", "done"} /\ tstate'[x] # "NASCENT"
              /\ tstate'[x] = "FEB_BLOCKED" => pc'[x] = "switch"
      BY Zenon, <1>1, <2>1, <2>3, <2>4, <3>1 DEF PlaceInv, RunInv
    <3>4. \A x \in Task : Running(x)' \/ pc'[x] \in {"unborn", "idle", "blocked", "done"}
      BY Zenon, <1>1, <2>1, <3>1 DEF PlaceInv, RunInv
    <3>5. /\ \A x \in Task : pc'[x] \notin {"unborn", "idle"} => tstate'[x] # "NASCENT"
          /\ \A x \in Task : pc'[x] = "unborn" => tstate'[x] = "NASCENT"
          /\ \A x \in Task : tstate'[x] # "NASCENT" => need'[x] = <<>>
      BY Zenon, <1>1, <2>1, <2>3 DEF PlaceInv, RunInv
    <3>6. \A v, w \in Worker : on'[v] = on'[w] /\ on'[v] # NULL => v = w
      BY Zenon, <1>1 DEF PlaceInv, RunInv
    <3> QED BY Zenon, <3>2, <3>3, <3>4, <3>5, <3>6 DEF RunInv
  <2> QED BY Zenon, <2>7, <2>10, <2>11 DEF PlaceInv
<1> QED BY Zenon, <1>2, <1>5, <1>6

\* The worker's steps move one task, t, that is in no list or stays blocked in its own.
LEMMA MasterFrame ==
    ASSUME Types, PlaceInv, NEW t \in Task, pc[t] \notin Checking, pc'[t] \notin Checking,
           \A x \in Task : x # t => pc'[x] = pc[x] /\ tstate'[x] = tstate[x],
           ~Nascent(t) /\ ~Nascent(t)',
           UNCHANGED <<EFQ, FEQ, FFQ, mp, call, checked, precond_tasks>>,
           \A o, op : BlockedOn(t, o, op) => BlockedOn(t, o, op)'
    PROVE  ListInv' /\ NascentInv'
<1>1. \A x \in Task : /\ Nascent(x)' <=> Nascent(x)
                      /\ \A o, op : BlockedOn(x, o, op) => BlockedOn(x, o, op)'
  BY Zenon DEF Nascent, BlockedOn, Op
<1>2. \A x, y \in Task : Checks(x, y)' <=> Checks(x, y)
  BY Zenon DEF Checks
<1>3. ListInv'
  BY Zenon, <1>1 DEF PlaceInv, ListInv
<1>4. NascentInv'
  BY Zenon, <1>1, <1>2 DEF PlaceInv, NascentInv
<1> QED BY Zenon, <1>3, <1>4

\* A worker takes a ready task: it is in no list, and on no other worker.
LEMMA DispatchStep ==
    ASSUME Types, PlaceInv, NEW w \in Worker, NEW t \in Task, Dispatch(w, t)
    PROVE  PlaceInv'
<1>1. /\ on[w] = NULL /\ t \in ready /\ ready' = ready \ {t} /\ on' = [on EXCEPT ![w] = t]
      /\ UNCHANGED <<tstate, EFQ, FEQ, FFQ, mp, call, checked, precond_tasks, need>>
  BY Zenon DEF Dispatch, sync, pre
<1>2. pc[t] \in {"idle", "blocked"} /\ tstate[t] \in {"NEW", "RUNNING"} /\ ~Running(t)
  BY Zenon, <1>1 DEF PlaceInv, RunInv
<1>3. pc'[t] = "idle" /\ \A x \in Task : x # t => pc'[x] = pc[x]
  BY Zenon, <1>2, GotoFacts DEF Dispatch
<1>4. ListInv' /\ NascentInv'
  <2>1. ~Nascent(t) /\ ~Nascent(t)' /\ \A o, op : ~BlockedOn(t, o, op)
    BY Zenon, <1>1, <1>2 DEF Nascent, BlockedOn
  <2>2. pc[t] \notin Checking /\ pc'[t] \notin Checking
    BY Zenon, <1>2, <1>3 DEF Checking
  <2> QED BY Zenon, <1>1, <1>3, <2>1, <2>2, MasterFrame
<1>5. on'[w] = t /\ \A v \in Worker : v # w => on'[v] = on[v]
  BY Zenon, <1>1 DEF Types
<1>6. Running(t)' /\ \A x \in Task : x # t => (Running(x)' <=> Running(x))
  <2>1. NULL \notin Task BY Zenon, ConstantsAssumption
  <2> QED BY Zenon, <1>1, <1>5, <2>1 DEF Running
<1>7. RunInv'
  <2>1. \A u, v \in Worker : on'[u] = on'[v] /\ on'[u] # NULL => u = v
    BY <1>2, <1>5 DEF PlaceInv, RunInv, Running
  <2>2. \A x \in Task : x \in ready' =>
            pc'[x] \in {"idle", "blocked"} /\ tstate'[x] \in {"NEW", "RUNNING"} /\ ~Running(x)'
    BY Zenon, <1>1, <1>3, <1>6 DEF PlaceInv, RunInv
  <2>3. \A x \in Task : Running(x)' =>
            /\ pc'[x] \notin {"unborn", "blocked", "done"} /\ tstate'[x] # "NASCENT"
            /\ tstate'[x] = "FEB_BLOCKED" => pc'[x] = "switch"
    BY Zenon, <1>1, <1>2, <1>3, <1>6 DEF PlaceInv, RunInv
  <2>4. \A x \in Task : Running(x)' \/ pc'[x] \in {"unborn", "idle", "blocked", "done"}
    BY Zenon, <1>3, <1>6 DEF PlaceInv, RunInv
  <2>5. /\ \A x \in Task : pc'[x] \notin {"unborn", "idle"} => tstate'[x] # "NASCENT"
        /\ \A x \in Task : pc'[x] = "unborn" => tstate'[x] = "NASCENT"
        /\ \A x \in Task : tstate'[x] # "NASCENT" => need'[x] = <<>>
    BY Zenon, <1>1, <1>3 DEF PlaceInv, RunInv
  <2> QED BY Zenon, <2>1, <2>2, <2>3, <2>4, <2>5 DEF RunInv
<1> QED BY Zenon, <1>4, <1>7 DEF PlaceInv

\* A worker's task leaves it: it blocked, or it ended.
LEMMA LeaveStep ==
    ASSUME Types, PlaceInv, NEW w \in Worker, NEW t \in Task, on[w] = t,
           on' = [on EXCEPT ![w] = NULL], UNCHANGED <<ready, need>>,
           pc[t] \in {"idle", "switch"}, NEW l \in {"blocked", "done"}, Goto(t, l),
           \A x \in Task : x # t => tstate'[x] = tstate[x],
           tstate'[t] = tstate[t] \/ tstate'[t] = "TERMINATED"
    PROVE  RunInv'
<1>1. pc'[t] = l /\ \A x \in Task : x # t => pc'[x] = pc[x]
  BY Zenon, GotoFacts
<1>2. on'[w] = NULL /\ \A v \in Worker : v # w => on'[v] = on[v]
  BY Zenon DEF Types
<1>3. NULL \notin Task
  BY Zenon, ConstantsAssumption
<1>4. Running(t) /\ t \notin ready /\ tstate[t] # "NASCENT"
  <2>1. Running(t) BY Zenon DEF Running
  <2> QED BY Zenon, <2>1 DEF PlaceInv, RunInv
<1>5. ~Running(t)' /\ \A x \in Task : x # t => (Running(x)' <=> Running(x))
  <2>1. \A v \in Worker : on[v] = t => v = w
    BY Zenon, <1>3 DEF PlaceInv, RunInv
  <2> QED BY Zenon, <1>2, <1>3, <2>1 DEF Running
<1>6. \A u, v \in Worker : on'[u] = on'[v] /\ on'[u] # NULL => u = v
  BY <1>2 DEF PlaceInv, RunInv
<1>7. \A x \in Task : x \in ready' =>
          pc'[x] \in {"idle", "blocked"} /\ tstate'[x] \in {"NEW", "RUNNING"} /\ ~Running(x)'
  BY Zenon, <1>1, <1>4, <1>5 DEF PlaceInv, RunInv
<1>8. \A x \in Task : Running(x)' =>
          /\ pc'[x] \notin {"unborn", "blocked", "done"} /\ tstate'[x] # "NASCENT"
          /\ tstate'[x] = "FEB_BLOCKED" => pc'[x] = "switch"
  BY <1>1, <1>5 DEF PlaceInv, RunInv
<1>9. \A x \in Task : Running(x)' \/ pc'[x] \in {"unborn", "idle", "blocked", "done"}
  BY Zenon, <1>1, <1>5 DEF PlaceInv, RunInv
<1>10. /\ \A x \in Task : pc'[x] \notin {"unborn", "idle"} => tstate'[x] # "NASCENT"
       /\ \A x \in Task : pc'[x] = "unborn" => tstate'[x] = "NASCENT"
       /\ \A x \in Task : tstate'[x] # "NASCENT" => need'[x] = <<>>
  BY <1>1, <1>4 DEF PlaceInv, RunInv
<1> QED BY Zenon, <1>6, <1>7, <1>8, <1>9, <1>10 DEF RunInv

\* qthread_master, when its task comes back.
LEMMA ComeBackStep ==
    ASSUME Types, PlaceInv, NEW w \in Worker, MasterUnlock(w) \/ Terminate(w)
    PROVE  PlaceInv'
<1>1. PICK t \in Task : t = on[w]
  BY Zenon DEF MasterUnlock, Terminate, Types
<1>2. tstate[t] # "NASCENT" /\ (tstate[t] = "FEB_BLOCKED" => pc[t] = "switch")
  BY Zenon, <1>1 DEF PlaceInv, RunInv, Running
<1>3. CASE MasterUnlock(w)
  <2>1. /\ pc[t] = "switch" /\ Goto(t, "blocked") /\ on' = [on EXCEPT ![w] = NULL]
        /\ UNCHANGED <<tstate, EFQ, FEQ, FFQ, mp, call, checked, precond_tasks, ready, need>>
    BY Zenon, <1>1, <1>3 DEF MasterUnlock, pre
  <2>2. pc'[t] = "blocked" /\ \A x \in Task : x # t => pc'[x] = pc[x]
    BY Zenon, <1>1, <2>1, GotoFacts
  <2>3. /\ ~Nascent(t) /\ ~Nascent(t)' /\ pc[t] \notin Checking /\ pc'[t] \notin Checking
        /\ \A o, op : BlockedOn(t, o, op) => BlockedOn(t, o, op)'
    BY Zenon, <2>1, <2>2 DEF Nascent, BlockedOn, Op, Checking
  <2>4. ListInv' /\ NascentInv'
    BY Zenon, <1>1, <2>1, <2>2, <2>3, MasterFrame
  <2>5. RunInv'
    BY Zenon, <1>1, <2>1, LeaveStep
  <2> QED BY Zenon, <2>4, <2>5 DEF PlaceInv
<1>4. CASE Terminate(w)
  <2>1. /\ pc[t] = "idle" /\ Goto(t, "done") /\ on' = [on EXCEPT ![w] = NULL]
        /\ tstate' = [tstate EXCEPT ![t] = "TERMINATED"]
        /\ UNCHANGED <<EFQ, FEQ, FFQ, mp, call, checked, precond_tasks, ready, need>>
    BY Zenon, <1>1, <1>4 DEF Terminate, sync, pre
  <2>2. pc'[t] = "done" /\ \A x \in Task : x # t => pc'[x] = pc[x]
    BY Zenon, <1>1, <2>1, GotoFacts
  <2>3. tstate'[t] = "TERMINATED" /\ \A x \in Task : x # t => tstate'[x] = tstate[x]
    BY Zenon, <1>1, <2>1 DEF Types
  <2>4. /\ ~Nascent(t) /\ ~Nascent(t)' /\ pc[t] \notin Checking /\ pc'[t] \notin Checking
        /\ \A o, op : ~BlockedOn(t, o, op)
    BY Zenon, <1>2, <2>1, <2>2 DEF Nascent, BlockedOn, Checking
  <2>5. ListInv' /\ NascentInv'
    BY Zenon, <1>1, <2>1, <2>2, <2>3, <2>4, MasterFrame
  <2>6. RunInv'
    BY Zenon, <1>1, <2>1, <2>3, LeaveStep
  <2> QED BY Zenon, <2>5, <2>6 DEF PlaceInv
<1> QED BY Zenon, <1>3, <1>4

\* Every step keeps everybody's place.
LEMMA PlaceStep ==
    ASSUME IInv, PlaceInv, [Next]_vars
    PROVE  PlaceInv'
<1>0. Types /\ LocalInv /\ LockInv
  BY Zenon DEF IInv
<1>1. ASSUME NEW t \in Task, Step(t) PROVE PlaceInv'
  BY Zenon, <1>0, <1>1, BeginStep, LookStep, ActStep, ReadWriteStep, FillStep, EmptyStep, PickStep,
     LaunchStep, CheckStep, PrecondStep DEF Step
<1>2. ASSUME NEW w \in Worker, Master(w) PROVE PlaceInv'
  BY Zenon, <1>0, <1>2, DispatchStep, ComeBackStep DEF Master
<1>3. CASE UNCHANGED vars
  <2>1. UNCHANGED <<ready, on, tstate, EFQ, FEQ, FFQ, pc, mp, call, precond_tasks, checked, need>>
    BY Zenon, <1>3 DEF vars, sync, sched, local, pre
  <2>2. /\ \A x \in Task : /\ Nascent(x)' <=> Nascent(x)
                           /\ \A o, op : BlockedOn(x, o, op)' <=> BlockedOn(x, o, op)
        /\ \A x, y \in Task : Checks(x, y)' <=> Checks(x, y)
        /\ \A x \in Task : Running(x)' <=> Running(x)
    BY Zenon, <2>1 DEF Nascent, BlockedOn, Op, Checks, Running
  <2>3. ListInv' BY Zenon, <2>1, <2>2 DEF PlaceInv, ListInv
  <2>4. NascentInv' BY Zenon, <2>1, <2>2 DEF PlaceInv, NascentInv
  <2>5. RunInv' BY Zenon, <2>1, <2>2 DEF PlaceInv, RunInv
  <2> QED BY Zenon, <2>3, <2>4, <2>5 DEF PlaceInv
<1> QED BY Zenon, <1>1, <1>2, <1>3 DEF Next, Quiescent

-----------------------------------------------------------------------------
(* Locks on stripes, and addrstats.                                        *)

\* What a step of t leaves alone of a task with a stripe, or one that deletes.
LEMMA OthersKeep ==
    ASSUME NEW t \in Task, Others(t), NEW x \in Task, x # t
    PROVE  /\ pc[x] \in HoldsHash => pc'[x] \in HoldsHash /\ Looked(x)' = Looked(x)
           /\ pc[x] = "rdelete" => pc'[x] = "rdelete" /\ mp'[x] = mp[x]
  BY Zenon DEF Others, Quiet, HoldsHash, Looked, A

\* A step that does nothing to the table, of a task that has no stripe.
LEMMA KeptStay ==
    ASSUME Types, KeptInv, NEW t \in Task, Others(t), UNCHANGED <<stripe, table, live>>,
           pc[t] \notin HoldsHash \cup {"rdelete"}
    PROVE  KeptInv'
<1>1. ASSUME NEW s \in Stripe, stripe'[s] # NULL
      PROVE  pc'[stripe'[s]] \in HoldsHash /\ StripeOf[Looked(stripe[s])'] = s
  <2>1. PICK x \in Task : x = stripe[s]
    BY Zenon, <1>1, LockTypes
  <2>2. pc[x] \in HoldsHash /\ StripeOf[Looked(x)] = s
    BY Zenon, <1>1, <2>1 DEF KeptInv
  <2>3. pc'[x] \in HoldsHash /\ Looked(x)' = Looked(x)
    BY Zenon, <2>2, OthersKeep
  <2>4. Looked(stripe[s])' = Looked(x)'
    BY Zenon, <2>1 DEF Looked, A
  <2> QED BY Zenon, <2>1, <2>2, <2>3, <2>4
<1>2. ASSUME NEW o \in live'
      PROVE  \/ \E a \in Addr : table'[a] = o
             \/ \E x \in Task : pc'[x] = "rdelete" /\ mp'[x] = o
  BY Zenon, OthersKeep DEF KeptInv
<1> QED BY Zenon, <1>1, <1>2 DEF KeptInv

\* Taking a stripe that is free.
LEMMA KeptLook ==
    ASSUME Types, KeptInv, NEW t \in Task, Others(t), NEW a \in Addr,
           UNCHANGED <<table, live>>,
           stripe[StripeOf[a]] = NULL, stripe' = [stripe EXCEPT ![StripeOf[a]] = t],
           pc[t] \notin HoldsHash \cup {"rdelete"}, pc'[t] \in HoldsHash, Looked(t)' = a
    PROVE  KeptInv'
<1>1. ASSUME NEW s \in Stripe, stripe'[s] # NULL
      PROVE  pc'[stripe'[s]] \in HoldsHash /\ StripeOf[Looked(stripe[s])'] = s
  <2>0. stripe'[s] = IF s = StripeOf[a] THEN t ELSE stripe[s]
    BY Zenon, LockTypes
  <2>1. PICK x \in Task : x = stripe'[s]
    BY Zenon, <1>1, <2>0, LockTypes
  <2>2. Looked(stripe[s])' = Looked(x)'
    BY <2>1 DEF Looked, A
  <2>3. CASE s = StripeOf[a]
    BY Zenon, <2>0, <2>1, <2>2, <2>3
  <2>4. CASE s # StripeOf[a]
    <3>1. pc[x] \in HoldsHash /\ StripeOf[Looked(x)] = s
      BY <1>1, <2>0, <2>1, <2>4 DEF KeptInv
    <3>2. pc'[x] \in HoldsHash /\ Looked(x)' = Looked(x)
      BY Zenon, <3>1, OthersKeep
    <3> QED BY Zenon, <2>1, <2>2, <3>1, <3>2
  <2> QED BY Zenon, <2>3, <2>4
<1>2. ASSUME NEW o \in live'
      PROVE  \/ \E b \in Addr : table'[b] = o
             \/ \E x \in Task : pc'[x] = "rdelete" /\ mp'[x] = o
  BY OthersKeep DEF KeptInv
<1> QED BY Zenon, <1>1, <1>2 DEF KeptInv

\* Giving a stripe back: the task had no other.
LEMMA StripeGivenBack ==
    ASSUME Types, KeptInv, NEW t \in Task, Others(t), pc[t] \in HoldsHash,
           stripe' = [stripe EXCEPT ![StripeOf[Looked(t)]] = NULL]
    PROVE  \A s \in Stripe : stripe'[s] # NULL =>
               (pc[stripe[s]] \in HoldsHash /\ StripeOf[Looked(stripe[s])] = s)'
<1> SUFFICES ASSUME NEW s \in Stripe, stripe'[s] # NULL
             PROVE  pc'[stripe'[s]] \in HoldsHash /\ StripeOf[Looked(stripe[s])'] = s
  BY Zenon
<1>1. s # StripeOf[Looked(t)] /\ stripe'[s] = stripe[s]
  BY Zenon, LockTypes
<1>2. PICK x \in Task : x = stripe[s]
  BY Zenon, <1>1, LockTypes
<1>3. pc[x] \in HoldsHash /\ StripeOf[Looked(x)] = s
  BY Zenon, <1>1, <1>2 DEF KeptInv
<1>4. x # t
  BY Zenon, <1>1, <1>3
<1>5. pc'[x] \in HoldsHash /\ Looked(x)' = Looked(x)
  BY Zenon, <1>3, <1>4, OthersKeep
<1>6. Looked(stripe[s])' = Looked(x)'
  BY <1>1, <1>2 DEF Looked, A
<1> QED BY Zenon, <1>1, <1>2, <1>3, <1>5, <1>6

\* ... and nothing else.
LEMMA KeptGiveBack ==
    ASSUME Types, KeptInv, NEW t \in Task, Others(t), pc[t] \in HoldsHash,
           stripe' = [stripe EXCEPT ![StripeOf[Looked(t)]] = NULL], UNCHANGED <<table, live>>
    PROVE  KeptInv'
<1>1. ASSUME NEW o \in live'
      PROVE  \/ \E b \in Addr : table'[b] = o
             \/ \E x \in Task : pc'[x] = "rdelete" /\ mp'[x] = o
  BY OthersKeep DEF KeptInv, HoldsHash
<1> QED BY Zenon, <1>1, StripeGivenBack DEF KeptInv

\* An addrstat that is inserted is in the table, where there was none.
LEMMA KeptInsert ==
    ASSUME Types, KeptInv, NEW t \in Task, LockHashInsert(t)
    PROVE  KeptInv'
<1> USE DEF sync, sched, pre
<1>0. Others(t)
  BY Zenon, OthersKept DEF Step
<1>1. PICK o \in Obj \ live : LockHashInsert(t)!5!(o)
  BY Zenon DEF LockHashInsert
<1>2. A(t) \in Addr /\ table[A(t)] = NULL /\ o # NULL /\ pc[t] = "hash" /\ call' = call
  BY Zenon, CallType, ConstantsAssumption DEF LockHashInsert, At
<1>3. \/ stripe' = [stripe EXCEPT ![StripeOf[A(t)]] = t] /\ pc'[t] = "mlock"
      \/ stripe' = stripe
  BY Zenon, <1>1, GotoFacts
<1>4. table'[A(t)] = o /\ \A a \in Addr : a # A(t) => table'[a] = table[a]
  BY Zenon, <1>1, <1>2, LockTypes
<1>5. ASSUME NEW p \in live'
      PROVE  \/ \E b \in Addr : table'[b] = p
             \/ \E x \in Task : pc'[x] = "rdelete" /\ mp'[x] = p
  <2>1. CASE p = o
    BY Zenon, <1>2, <1>4, <2>1
  <2>2. CASE p \in live
    <3>1. CASE \E b \in Addr : table[b] = p
      <4>1. PICK b \in Addr : table[b] = p BY Zenon, <3>1
      <4>2. p # NULL BY Zenon, <2>2, LockTypes, ConstantsAssumption
      <4> QED BY Zenon, <1>2, <1>4, <4>1, <4>2
    <3>2. CASE \E x \in Task : pc[x] = "rdelete" /\ mp[x] = p
      BY Zenon, <1>0, <1>2, <3>2, OthersKeep
    <3> QED BY Zenon, <2>2, <3>1, <3>2 DEF KeptInv
  <2> QED BY Zenon, <1>1, <2>1, <2>2
<1>6. ASSUME NEW s \in Stripe, stripe'[s] # NULL
      PROVE  pc'[stripe'[s]] \in HoldsHash /\ StripeOf[Looked(stripe[s])'] = s
  <2>0. stripe'[s] = stripe[s] \/ (stripe'[s] = t /\ s = StripeOf[A(t)] /\ pc'[t] = "mlock")
    BY Zenon, <1>3, LockTypes
  <2>1. PICK x \in Task : x = stripe'[s]
    BY Zenon, <1>6, <2>0, LockTypes
  <2>2. Looked(stripe[s])' = Looked(x)'
    BY Zenon, <2>1 DEF Looked, A
  <2>3. CASE stripe'[s] = t /\ s = StripeOf[A(t)] /\ pc'[t] = "mlock"
    <3>1. Looked(t)' = A(t)
      BY Zenon, <1>2, <2>3 DEF Looked, A
    <3> QED BY Zenon, <2>1, <2>2, <2>3, <3>1 DEF HoldsHash
  <2>4. CASE stripe'[s] = stripe[s]
    <3>1. pc[x] \in HoldsHash /\ StripeOf[Looked(x)] = s
      BY Zenon, <1>6, <2>1, <2>4 DEF KeptInv
    <3>2. pc'[x] \in HoldsHash /\ Looked(x)' = Looked(x)
      BY Zenon, <1>0, <1>2, <3>1, OthersKeep DEF HoldsHash
    <3> QED BY Zenon, <2>1, <2>2, <3>1, <3>2
  <2> QED BY Zenon, <2>0, <2>3, <2>4
<1> QED BY Zenon, <1>5, <1>6 DEF KeptInv

\* qthread_FEB_remove takes an addrstat out of the table to delete it, or leaves it there.
LEMMA KeptRemove ==
    ASSUME Types, LocalInv, LockInv, KeptInv, NEW t \in Task, RemoveLockM(t)
    PROVE  KeptInv'
<1> USE DEF sync, sched, pre
<1>0. Others(t)
  BY Zenon, OthersKept DEF Step
<1>1. /\ pc[t] = "rmlock" /\ Looked(t) = A(t) /\ A(t) \in Addr
      /\ stripe' = [stripe EXCEPT ![StripeOf[A(t)]] = NULL]
      /\ UNCHANGED <<live, mp>>
      /\ \/ table' = [table EXCEPT ![A(t)] = NULL] /\ pc'[t] = "rdelete"
         \/ table' = table
  BY Zenon, CallType, GotoFacts DEF RemoveLockM, At, Looked
<1>2. table[A(t)] = mp[t]
  BY Zenon, <1>1 DEF LockInv, StripeInv, HoldsHash
<1>3. ASSUME NEW o \in live'
      PROVE  \/ \E b \in Addr : table'[b] = o
             \/ \E x \in Task : pc'[x] = "rdelete" /\ mp'[x] = o
  <2>1. CASE \E x \in Task : pc[x] = "rdelete" /\ mp[x] = o
    BY Zenon, <1>0, <1>1, <2>1, OthersKeep
  <2>2. CASE \E b \in Addr : table[b] = o
    <3>1. PICK b \in Addr : table[b] = o
      BY Zenon, <2>2
    <3>2. CASE table' = table
      BY Zenon, <3>1, <3>2
    <3>3. CASE table' = [table EXCEPT ![A(t)] = NULL] /\ pc'[t] = "rdelete"
      <4>1. CASE b = A(t)
        BY Zenon, <1>1, <1>2, <3>1, <3>3, <4>1
      <4>2. CASE b # A(t)
        <5>1. table'[b] = o
          BY Zenon, <3>1, <3>3, <4>2, LockTypes
        <5> QED BY Zenon, <5>1
      <4> QED BY Zenon, <4>1, <4>2
    <3> QED BY Zenon, <1>1, <3>2, <3>3
  <2> QED BY Zenon, <1>1, <2>1, <2>2 DEF KeptInv
<1>4. \A s \in Stripe : stripe'[s] # NULL =>
          (pc[stripe[s]] \in HoldsHash /\ StripeOf[Looked(stripe[s])] = s)'
  BY Zenon, <1>0, <1>1, StripeGivenBack DEF HoldsHash
<1> QED BY Zenon, <1>3, <1>4 DEF KeptInv

\* An addrstat that is deleted is not allocated any more.
LEMMA KeptDelete ==
    ASSUME Types, KeptInv, NEW t \in Task, RemoveDelete(t)
    PROVE  KeptInv'
<1> USE DEF sync, sched, pre
<1>0. Others(t)
  BY Zenon, OthersKept DEF Step
<1>1. /\ pc[t] = "rdelete" /\ UNCHANGED <<stripe, table, mp>> /\ live' = live \ {mp[t]}
  BY Zenon DEF RemoveDelete, At
<1>2. ASSUME NEW o \in live'
      PROVE  \/ \E b \in Addr : table'[b] = o
             \/ \E x \in Task : pc'[x] = "rdelete" /\ mp'[x] = o
  BY Zenon, <1>0, <1>1, OthersKeep DEF KeptInv
<1>3. ASSUME NEW s \in Stripe, stripe'[s] # NULL
      PROVE  pc'[stripe'[s]] \in HoldsHash /\ StripeOf[Looked(stripe[s])'] = s
  <2>1. PICK x \in Task : x = stripe[s]
    BY Zenon, <1>1, <1>3, LockTypes
  <2>2. pc[x] \in HoldsHash /\ StripeOf[Looked(x)] = s /\ x # t
    BY Zenon, <1>1, <1>3, <2>1 DEF KeptInv, HoldsHash
  <2>3. pc'[x] \in HoldsHash /\ Looked(x)' = Looked(x)
    BY Zenon, <1>0, <2>2, OthersKeep
  <2>4. Looked(stripe[s])' = Looked(x)'
    BY Zenon, <1>1, <2>1 DEF Looked, A
  <2> QED BY Zenon, <1>1, <2>1, <2>2, <2>3, <2>4
<1> QED BY Zenon, <1>2, <1>3 DEF KeptInv

\* Every step keeps KeptInv.
LEMMA KeptStep ==
    ASSUME IInv, KeptInv, [Next]_vars
    PROVE  KeptInv'
<1> USE DEF sync, sched, pre, At
<1>0. Types /\ LocalInv /\ LockInv
  BY Zenon DEF IInv
<1>1. ASSUME NEW t \in Task, Step(t) PROVE KeptInv'
  <2>0. Others(t)
    BY Zenon, <1>0, <1>1, OthersKept
  <2>1. CASE \/ Begin(t) \/ LockHashNoMemory(t) \/ LockHashAbsent(t) \/ readFE(t) \/ readFF(t)
             \/ writeEF(t) \/ writeF_fill_empty(t) \/ CopyUnlocked(t)
             \/ gotlock_fill(t) \/ gotlock_empty(t) \/ gotlock_unlock(t)
             \/ PickNascent(t) \/ Launch(t) \/ CheckPrecond(t)
    <3>1. UNCHANGED <<stripe, table, live>>
      BY Zenon, <2>1 DEF Begin, LockHashNoMemory, LockHashAbsent, readFE, readFF, writeEF, writeF_fill_empty,
         CopyUnlocked, gotlock_fill, gotlock_empty, gotlock_unlock, PickNascent, Launch, CheckPrecond
    <3>2. pc[t] \in {"idle", "hash", "body", "nom", "fill", "empty", "unlock", "launch", "check", "cbody"}
      BY Zenon, <2>1 DEF Begin, LockHashNoMemory, LockHashAbsent, readFE, readFF, writeEF, writeF_fill_empty,
         CopyUnlocked, gotlock_fill, gotlock_empty, gotlock_unlock, PickNascent, Launch, CheckPrecond
    <3> QED BY Zenon, <1>0, <2>0, <3>1, <3>2, KeptStay DEF HoldsHash
  <2>2. CASE LockHashFound(t)
    <3>1. /\ A(t) \in Addr /\ pc[t] = "hash" /\ pc'[t] = "mlock" /\ call' = call
          /\ UNCHANGED <<table, live>>
          /\ stripe[StripeOf[A(t)]] = NULL /\ stripe' = [stripe EXCEPT ![StripeOf[A(t)]] = t]
      BY Zenon, <1>0, <2>2, CallType, GotoFacts DEF LockHashFound
    <3>2. Looked(t)' = A(t)
      BY Zenon, <3>1 DEF Looked, A
    <3> QED BY Zenon, <1>0, <2>0, <3>1, <3>2, KeptLook DEF HoldsHash
  <2>3. CASE LockM(t) \/ Status(t)
    <3>1. pc[t] = "mlock" /\ UNCHANGED <<table, live>> /\ stripe' = [stripe EXCEPT ![StripeOf[A(t)]] = NULL]
      BY Zenon, <2>3 DEF LockM, Status
    <3>2. Looked(t) = A(t)
      BY Zenon, <3>1 DEF Looked
    <3> QED BY Zenon, <1>0, <2>0, <3>1, <3>2, KeptGiveBack DEF HoldsHash
  <2>4. CASE CheckHash(t)
    <3>1. pc[t] = "check" /\ UNCHANGED <<table, live>>
      BY Zenon, <2>4 DEF CheckHash
    <3>2. CASE table[This(t)] = NULL
      <4>1. stripe' = stripe
        BY Zenon, <2>4, <3>2 DEF CheckHash
      <4> QED BY Zenon, <1>0, <2>0, <3>1, <4>1, KeptStay DEF HoldsHash
    <3>3. CASE table[This(t)] # NULL
      <4>1. PICK a \in Addr : a = This(t)
        BY Zenon, <1>0, <2>4, ThisType DEF CheckHash, Checking
      <4>2. /\ stripe[StripeOf[a]] = NULL /\ stripe' = [stripe EXCEPT ![StripeOf[a]] = t]
            /\ this_sync' = [this_sync EXCEPT ![t] = a] /\ Goto(t, "cmlock")
        BY Zenon, <2>4, <3>3, <4>1 DEF CheckHash
      <4>3. pc'[t] = "cmlock" /\ this_sync'[t] = a
        BY Zenon, <1>0, <4>2, GotoFacts DEF Types
      <4>4. Looked(t)' = a
        BY Zenon, <4>3 DEF Looked
      <4> QED BY Zenon, <1>0, <2>0, <3>1, <4>2, <4>3, <4>4, KeptLook DEF HoldsHash
    <3> QED BY Zenon, <3>2, <3>3
  <2>5. CASE CheckLockM(t)
    <3>1. /\ pc[t] = "cmlock" /\ UNCHANGED <<table, live>>
          /\ stripe' = [stripe EXCEPT ![StripeOf[this_sync[t]]] = NULL]
      BY Zenon, <2>5 DEF CheckLockM
    <3>2. Looked(t) = this_sync[t]
      BY Zenon, <3>1 DEF Looked
    <3> QED BY Zenon, <1>0, <2>0, <3>1, <3>2, KeptGiveBack DEF HoldsHash
  <2>6. CASE RemoveLockHash(t)
    <3>1. /\ A(t) \in Addr /\ pc[t] = "rhash" /\ call' = call
          /\ UNCHANGED <<table, live>>
          /\ \/ stripe' = stripe
             \/ /\ stripe[StripeOf[A(t)]] = NULL /\ stripe' = [stripe EXCEPT ![StripeOf[A(t)]] = t]
                /\ pc'[t] = "rmlock"
      BY Zenon, <1>0, <2>6, CallType, GotoFacts DEF RemoveLockHash
    <3>2. CASE stripe' = stripe
      BY Zenon, <1>0, <2>0, <3>1, <3>2, KeptStay DEF HoldsHash
    <3>3. CASE stripe' # stripe
      <4>1. pc'[t] = "rmlock" /\ Looked(t)' = A(t)
        BY Zenon, <3>1, <3>3 DEF Looked, A
      <4> QED BY Zenon, <1>0, <2>0, <3>1, <3>3, <4>1, KeptLook DEF HoldsHash
    <3> QED BY Zenon, <3>2, <3>3
  <2> QED BY Zenon, <1>0, <1>1, <2>1, <2>2, <2>3, <2>4, <2>5, <2>6, KeptInsert, KeptRemove, KeptDelete DEF Step
<1>2. ASSUME NEW w \in Worker, Master(w) PROVE KeptInv'
  <2>1. PICK t \in Task : /\ pc[t] \in {"idle", "blocked", "switch"} \/ pc' = pc
                          /\ \E l : Goto(t, l)
                          /\ UNCHANGED <<mp, call, checked, this_sync, stripe, table, live>>
    <3>1. CASE MasterUnlock(w) \/ Terminate(w)
      <4>1. on[w] \in Task
        BY Zenon, <1>0, <3>1 DEF MasterUnlock, Terminate, Types
      <4> QED BY Zenon, <3>1, <4>1 DEF MasterUnlock, Terminate
    <3>2. ASSUME NEW t \in Task, Dispatch(w, t)
          PROVE  /\ pc[t] \in {"idle", "blocked", "switch"} \/ pc' = pc
                 /\ \E l : Goto(t, l)
                 /\ UNCHANGED <<mp, call, checked, this_sync, stripe, table, live>>
      <4>1. pc[t] # "blocked" => pc' = pc
        BY Zenon, <1>0, <3>2 DEF Dispatch, Goto, Types
      <4> QED BY Zenon, <3>2, <4>1 DEF Dispatch
    <3> QED BY Zenon, <1>2, <3>1, <3>2 DEF Master
  <2>2. CASE pc[t] \in {"idle", "blocked", "switch"}
    <3>1. Others(t)
      BY Zenon, <1>0, <2>1, OthersQuiet
    <3> QED BY Zenon, <1>0, <2>1, <2>2, <3>1, KeptStay DEF HoldsHash
  <2>3. CASE pc' = pc
    BY Zenon, <2>1, <2>3 DEF KeptInv, Looked, A
  <2> QED BY Zenon, <2>1, <2>2, <2>3
<1>3. CASE UNCHANGED vars
  BY Zenon, <1>3 DEF KeptInv, Looked, A, vars, local
<1> QED BY Zenon, <1>1, <1>2, <1>3 DEF Next, Quiescent

-----------------------------------------------------------------------------
(* The theorems.                                                           *)

\* When the runtime has started, nobody waits and nothing is locked.
LEMMA InitPlaces == Init => PlaceInv /\ KeptInv
<1> SUFFICES ASSUME Init PROVE PlaceInv /\ KeptInv
  BY Zenon
<1> DEFINE Sp == Spawned(todo)
<1>1. /\ EFQ = [o \in Obj |-> <<>>] /\ FEQ = [o \in Obj |-> <<>>] /\ FFQ = [o \in Obj |-> {}]
      /\ precond_tasks = [t \in Task |-> {}] /\ stripe = [s \in Stripe |-> NULL] /\ live = {}
      /\ on = [w \in Worker |-> NULL] /\ ready = Task \ Sp
      /\ tstate = [t \in Task |-> IF t \in Sp THEN "NASCENT" ELSE "NEW"]
      /\ pc = [t \in Task |-> IF t \in Sp THEN "unborn" ELSE "idle"]
      /\ need = [t \in Task |-> IF t \in Sp THEN Preconds[t] ELSE <<>>]
  BY Zenon DEF Init
<1> HIDE DEF Sp
<1>2. ListInv
  BY Zenon, <1>1, NoMembers DEF ListInv
<1>3. NascentInv
  BY Zenon, <1>1 DEF NascentInv, Checks, Checking
<1>4. RunInv
  <2>1. \A t \in Task : ~Running(t)
    BY Zenon, <1>1, ConstantsAssumption DEF Running
  <2> QED BY Zenon, <1>1, <2>1 DEF RunInv
<1>5. KeptInv
  BY Zenon, <1>1 DEF KeptInv
<1> QED BY Zenon, <1>2, <1>3, <1>4, <1>5 DEF PlaceInv

\* Everybody's place is an invariant, together with that of the locks.
THEOREM PlacesInductive == Spec => [](IInv /\ PlaceInv /\ KeptInv)
<1>1. IInv /\ PlaceInv /\ KeptInv /\ [Next]_vars => (PlaceInv /\ KeptInv)'
  BY Zenon, PlaceStep, KeptStep
<1> QED
  BY Inductive, InitPlaces, <1>1, PTL DEF Spec

\* A set without two different members has at most one.
LEMMA AtMostOne ==
    ASSUME NEW S, \A p, q \in S : p = q
    PROVE  Cardinality(S) <= 1
<1>1. CASE S = {}
  BY <1>1, FS_EmptySet
<1>2. CASE S # {}
  <2>1. PICK p \in S : TRUE
    BY Zenon, <1>2
  <2>2. S = {p}
    BY Zenon, <2>1
  <2>3. Cardinality({p}) = 1
    BY Zenon, FS_Singleton
  <2> QED BY <2>2, <2>3
<1> QED BY Zenon, <1>1, <1>2

\* Where a task waits.
LEMMA WaitingPlace ==
    ASSUME Types, NEW t \in Task, NEW p \in Waiting(t)
    PROVE  \/ \E o \in Obj : \E i \in 1..Len(EFQ[o]) : p = <<"EF", o, i>> /\ EFQ[o][i] = t
           \/ \E o \in Obj : \E i \in 1..Len(FEQ[o]) : p = <<"FE", o, i>> /\ FEQ[o][i] = t
           \/ \E o \in Obj : p = <<"FF", o, 0>> /\ t \in FFQ[o]
           \/ \E x \in Task : p = <<"precond", x, 0>> /\ (t \in precond_tasks[x] \/ Checks(x, t))
<1>0. live \subseteq Obj
  BY Zenon DEF Types
<1>1. \/ \E o \in live : \E i \in Positions(EFQ[o], t) : p = <<"EF", o, i>>
      \/ \E o \in live : \E i \in Positions(FEQ[o], t) : p = <<"FE", o, i>>
      \/ \E o \in {o \in live : t \in FFQ[o]} : p = <<"FF", o, 0>>
      \/ \E x \in {x \in Task : t \in precond_tasks[x] \/ (checked[x] = t /\ pc[x] \in Checking)} :
             p = <<"precond", x, 0>>
  <2> DEFINE EF == UNION {{<<"EF", o, i>> : i \in Positions(EFQ[o], t)} : o \in live}
             FE == UNION {{<<"FE", o, i>> : i \in Positions(FEQ[o], t)} : o \in live}
             FF == {<<"FF", o, 0>> : o \in {o \in live : t \in FFQ[o]}}
             Pre == {<<"precond", x, 0>> : x \in {x \in Task :
                        t \in precond_tasks[x] \/ (checked[x] = t /\ pc[x] \in Checking)}}
  <2>0. Waiting(t) = EF \cup FE \cup FF \cup Pre
    BY Zenon DEF Waiting
  <2>1. p \in EF \/ p \in FE \/ p \in FF \/ p \in Pre
    <3> HIDE DEF EF, FE, FF, Pre
    <3> QED BY Zenon, <2>0
  <2>2. CASE p \in EF
    BY Zenon, <2>2
  <2>3. CASE p \in FE
    BY Zenon, <2>3
  <2>4. CASE p \in FF
    BY Zenon, <2>4
  <2>5. CASE p \in Pre
    BY Zenon, <2>5
  <2> QED BY Zenon, <2>1, <2>2, <2>3, <2>4, <2>5
<1>2. CASE \E o \in live : \E i \in Positions(EFQ[o], t) : p = <<"EF", o, i>>
  BY Zenon, <1>0, <1>2 DEF Positions
<1>3. CASE \E o \in live : \E i \in Positions(FEQ[o], t) : p = <<"FE", o, i>>
  BY Zenon, <1>0, <1>3 DEF Positions
<1>4. CASE \E o \in {o \in live : t \in FFQ[o]} : p = <<"FF", o, 0>>
  BY Zenon, <1>0, <1>4
<1>5. CASE \E x \in {x \in Task : t \in precond_tasks[x] \/ (checked[x] = t /\ pc[x] \in Checking)} :
             p = <<"precond", x, 0>>
  BY Zenon, <1>5 DEF Checks
<1> QED BY Zenon, <1>1, <1>2, <1>3, <1>4, <1>5

\* A task waits in one place.
LEMMA WaitsOnce ==
    ASSUME Types, PlaceInv, NEW t \in Task, NEW p \in Waiting(t), NEW q \in Waiting(t)
    PROVE  p = q
<1>1. /\ \A o \in Obj : \A i \in 1..Len(EFQ[o]) : EFQ[o][i] = t => BlockedOn(t, o, "writeEF")
      /\ \A o \in Obj : \A i \in 1..Len(FEQ[o]) : FEQ[o][i] = t => BlockedOn(t, o, "readFE")
      /\ \A o \in Obj : t \in FFQ[o] => Nascent(t) \/ BlockedOn(t, o, "readFF")
      /\ \A x \in Task : t \in precond_tasks[x] \/ Checks(x, t) => Nascent(t)
  BY Zenon DEF PlaceInv, ListInv, NascentInv, Members
<1>2. CASE Nascent(t)
  <2>1. \A o, op : ~BlockedOn(t, o, op)
    BY Zenon, <1>2 DEF Nascent, BlockedOn
  <2>2. \A r \in Waiting(t) :
           \/ \E o \in Obj : r = <<"FF", o, 0>> /\ t \in FFQ[o]
           \/ \E x \in Task : r = <<"precond", x, 0>> /\ (t \in precond_tasks[x] \/ Checks(x, t))
    BY Zenon, <1>1, <2>1, WaitingPlace
  <2>3. \A o \in Obj : \A x \in Task : ~(t \in FFQ[o] /\ (t \in precond_tasks[x] \/ Checks(x, t)))
    BY Zenon DEF PlaceInv, NascentInv
  <2>4. \A o, o2 \in Obj : t \in FFQ[o] /\ t \in FFQ[o2] => o = o2
    BY Zenon, <1>2 DEF PlaceInv, NascentInv
  <2>5. \A x, y \in Task : (t \in precond_tasks[x] \/ Checks(x, t)) /\ (t \in precond_tasks[y] \/ Checks(y, t)) => x = y
    BY Zenon DEF PlaceInv, NascentInv
  <2>6. CASE \E o \in Obj : p = <<"FF", o, 0>> /\ t \in FFQ[o]
    BY Zenon, <2>2, <2>3, <2>4, <2>6
  <2>7. CASE \E x \in Task : p = <<"precond", x, 0>> /\ (t \in precond_tasks[x] \/ Checks(x, t))
    BY Zenon, <2>2, <2>3, <2>5, <2>7
  <2> QED BY Zenon, <2>2, <2>6, <2>7
<1>3. CASE ~Nascent(t)
  <2>1. \A r \in Waiting(t) :
           \/ /\ BlockedOn(t, mp[t], "writeEF")
              /\ mp[t] \in Obj /\ \E i \in 1..Len(EFQ[mp[t]]) : r = <<"EF", mp[t], i>> /\ EFQ[mp[t]][i] = t
           \/ /\ BlockedOn(t, mp[t], "readFE")
              /\ mp[t] \in Obj /\ \E i \in 1..Len(FEQ[mp[t]]) : r = <<"FE", mp[t], i>> /\ FEQ[mp[t]][i] = t
           \/ BlockedOn(t, mp[t], "readFF") /\ r = <<"FF", mp[t], 0>>
    <3> SUFFICES ASSUME NEW r \in Waiting(t)
                 PROVE  \/ /\ BlockedOn(t, mp[t], "writeEF")
                           /\ mp[t] \in Obj /\ \E i \in 1..Len(EFQ[mp[t]]) : r = <<"EF", mp[t], i>> /\ EFQ[mp[t]][i] = t
                        \/ /\ BlockedOn(t, mp[t], "readFE")
                           /\ mp[t] \in Obj /\ \E i \in 1..Len(FEQ[mp[t]]) : r = <<"FE", mp[t], i>> /\ FEQ[mp[t]][i] = t
                        \/ BlockedOn(t, mp[t], "readFF") /\ r = <<"FF", mp[t], 0>>
      BY Zenon
    <3>1. \A o, op : BlockedOn(t, o, op) => o = mp[t]
      BY Zenon DEF BlockedOn
    <3>2. CASE \E o \in Obj : \E i \in 1..Len(EFQ[o]) : r = <<"EF", o, i>> /\ EFQ[o][i] = t
      BY Zenon, <1>1, <3>1, <3>2
    <3>3. CASE \E o \in Obj : \E i \in 1..Len(FEQ[o]) : r = <<"FE", o, i>> /\ FEQ[o][i] = t
      BY Zenon, <1>1, <3>1, <3>3
    <3>4. CASE \E o \in Obj : r = <<"FF", o, 0>> /\ t \in FFQ[o]
      BY Zenon, <1>1, <1>3, <3>1, <3>4
    <3>5. CASE \E x \in Task : r = <<"precond", x, 0>> /\ (t \in precond_tasks[x] \/ Checks(x, t))
      BY Zenon, <1>1, <1>3, <3>5
    <3> QED BY Zenon, <3>2, <3>3, <3>4, <3>5, WaitingPlace
  <2>2. /\ ~(BlockedOn(t, mp[t], "writeEF") /\ BlockedOn(t, mp[t], "readFE"))
        /\ ~(BlockedOn(t, mp[t], "writeEF") /\ BlockedOn(t, mp[t], "readFF"))
        /\ ~(BlockedOn(t, mp[t], "readFE") /\ BlockedOn(t, mp[t], "readFF"))
    BY Zenon DEF BlockedOn
  <2>3. mp[t] \in Obj =>
           /\ \A i, j \in 1..Len(EFQ[mp[t]]) : EFQ[mp[t]][i] = t /\ EFQ[mp[t]][j] = t => i = j
           /\ \A i, j \in 1..Len(FEQ[mp[t]]) : FEQ[mp[t]][i] = t /\ FEQ[mp[t]][j] = t => i = j
    BY Zenon DEF PlaceInv, ListInv, NoDup
  <2> QED BY <2>1, <2>2, <2>3
<1> QED BY Zenon, <1>2, <1>3

\* A task is on one worker, in a ready queue, or in one list once, and a waker makes no
\* task ready whose context its worker has not saved, whatever the programs do.
THEOREM EveryTaskInOnePlace == Spec => []OnePlace
<1>1. IInv /\ PlaceInv /\ KeptInv => OnePlace
  <2> SUFFICES ASSUME IInv, PlaceInv, NEW t \in Task
               PROVE  /\ t \in ready => Waiting(t) = {} /\ ~Running(t)
                      /\ Cardinality(Waiting(t)) <= 1
                      /\ Cardinality({w \in Worker : on[w] = t}) <= 1
                      /\ Running(t) /\ Waiting(t) # {} => pc[t] = "switch"
    BY Zenon DEF OnePlace
  <2>0. Types
    BY Zenon DEF IInv
  <2>1. ~Nascent(t) /\ (\A o, op : ~BlockedOn(t, o, op)) => Waiting(t) = {}
    <3> SUFFICES ASSUME ~Nascent(t), \A o, op : ~BlockedOn(t, o, op), NEW p \in Waiting(t)
                 PROVE  FALSE
      BY Zenon
    <3>1. /\ \A o \in Obj : \A i \in 1..Len(EFQ[o]) : EFQ[o][i] # t
          /\ \A o \in Obj : \A i \in 1..Len(FEQ[o]) : FEQ[o][i] # t
          /\ \A o \in Obj : t \notin FFQ[o]
          /\ \A x \in Task : t \notin precond_tasks[x] /\ ~Checks(x, t)
      BY Zenon DEF PlaceInv, ListInv, NascentInv, Members
    <3> QED BY Zenon, <2>0, <3>1, WaitingPlace
  <2>2. t \in ready => Waiting(t) = {} /\ ~Running(t)
    BY Zenon, <2>1 DEF PlaceInv, RunInv, Nascent, BlockedOn
  <2>3. Cardinality(Waiting(t)) <= 1
    BY Zenon, <2>0, WaitsOnce, AtMostOne
  <2>4. Cardinality({w \in Worker : on[w] = t}) <= 1
    <3>1. \A v, w \in {w \in Worker : on[w] = t} : v = w
      BY ConstantsAssumption DEF PlaceInv, RunInv
    <3> QED BY Zenon, <3>1, AtMostOne
  <2>5. Running(t) /\ Waiting(t) # {} => pc[t] = "switch"
    BY Zenon, <2>1 DEF PlaceInv, RunInv, Nascent, BlockedOn
  <2> QED BY Zenon, <2>2, <2>3, <2>4, <2>5
<1> QED
  BY PlacesInductive, <1>1, PTL

\* No task is ready or runs before all its preconditions were seen full, as the
\* comment in qthread_master says, whatever it was spawned with.
THEOREM PrecondsComeFirst == Spec => []ReadyHasNoPreconds
<1>1. IInv /\ PlaceInv /\ KeptInv => ReadyHasNoPreconds
  BY Zenon DEF PlaceInv, RunInv, ReadyHasNoPreconds
<1> QED
  BY PlacesInductive, <1>1, PTL

\* On every path, the error paths included, a lock is held by a running task inside its
\* critical section, and an addrstat that is allocated is in the table or about to be deleted.
THEOREM NoLockIsLeft == Spec => []LocksReleased
<1>1. IInv /\ PlaceInv /\ KeptInv => LocksReleased
  <2> SUFFICES ASSUME IInv, PlaceInv, KeptInv PROVE LocksReleased
    BY Zenon
  <2>0. Types
    BY Zenon DEF IInv
  <2>1. \A t \in Task : pc[t] \in HoldsM \cup HoldsHash => Running(t)
    BY Zenon DEF PlaceInv, RunInv, HoldsM, HoldsHash
  <2>2. \A o \in Obj : lock[o] # NULL => Running(lock[o]) /\ pc[lock[o]] \in HoldsM /\ mp[lock[o]] = o
    BY Zenon, <2>0, <2>1, LockTypes DEF IInv, LockInv, HolderInv
  <2>3. \A s \in Stripe : stripe[s] # NULL => Running(stripe[s]) /\ pc[stripe[s]] \in HoldsHash
    BY <2>0, <2>1, LockTypes DEF KeptInv
  <2> QED BY Zenon, <2>2, <2>3 DEF KeptInv, LocksReleased
<1> QED
  BY PlacesInductive, <1>1, PTL
=============================================================================
