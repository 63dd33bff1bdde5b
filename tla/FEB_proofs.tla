----------------------------- MODULE FEB_proofs -----------------------------
(***************************************************************************)
(* Proofs about FEB, for every set of tasks, workers, addresses, values    *)
(* and programs: every step keeps the locks, then the lists of waiters;    *)
(* and the theorems.                                                       *)
(***************************************************************************)
EXTENDS FEB_locks

\* Every step keeps LockInv.
LEMMA LockStep ==
    ASSUME Types, LocalInv, LockInv, [Next]_vars
    PROVE  LockInv'
<1> USE DEF sync, sched, pre, local, vars
<1>0. \A t \in Task : Step(t) => Others(t)
  BY Zenon, OthersKept
<1>1. ASSUME NEW w \in Worker, NEW t \in Task, Dispatch(w, t) PROVE LockInv'
  <2>1. CASE pc[t] = "blocked"
    <3>1. Goto(t, "idle") /\ UNCHANGED <<mp, call, checked, this_sync, stripe, table, live, lock>>
      BY Zenon, <1>1, <2>1 DEF Dispatch
    <3>2. Others(t) /\ pc'[t] = "idle"
      BY Zenon, <3>1, OthersQuiet, GotoFacts
    <3> QED
      BY Zenon, <2>1, <3>1, <3>2, LockStay DEF HoldsHash, HoldsM
  <2>2. CASE pc[t] # "blocked"
    <3>1. pc' = pc
      BY Zenon, <1>1, <2>2 DEF Dispatch, Goto, Types
    <3> QED
      BY Zenon, <1>1, <3>1 DEF Dispatch, LockInv, TableInv, StripeInv, HolderInv, DeleteInv, Looked, A
  <2> QED
    BY Zenon, <2>1, <2>2
<1>2. ASSUME NEW w \in Worker, MasterUnlock(w) PROVE LockInv'
  <2> DEFINE t == on[w]
  <2>1. t \in Task /\ pc[t] = "switch" /\ Goto(t, "blocked")
    BY Zenon, <1>2 DEF MasterUnlock, Types
  <2>2. UNCHANGED <<mp, call, checked, this_sync, stripe, table, live>> /\ lock' = [lock EXCEPT ![mp[t]] = NULL]
    BY Zenon, <1>2 DEF MasterUnlock
  <2> HIDE DEF t
  <2>3. Others(t) /\ pc'[t] = "blocked"
    BY Zenon, <2>1, <2>2, OthersQuiet, GotoFacts
  <2> QED
    BY Zenon, <2>1, <2>2, <2>3, LockRelease DEF HoldsHash, HoldsM
<1>3. ASSUME NEW w \in Worker, Terminate(w) PROVE LockInv'
  <2> DEFINE t == on[w]
  <2>1. t \in Task /\ pc[t] = "idle" /\ Goto(t, "done")
    BY Zenon, <1>3 DEF Terminate, Types
  <2>2. UNCHANGED <<mp, call, checked, this_sync, stripe, table, live, lock>>
    BY Zenon, <1>3 DEF Terminate
  <2> HIDE DEF t
  <2>3. Others(t) /\ pc'[t] = "done"
    BY Zenon, <2>1, <2>2, OthersQuiet, GotoFacts
  <2> QED
    BY Zenon, <2>1, <2>2, <2>3, LockStay DEF HoldsHash, HoldsM
<1>4. ASSUME NEW t \in Task, Begin(t) PROVE LockInv'
  <2>1. pc'[t] \in {"hash", "launch"}
    BY Zenon, <1>4 DEF Begin, Goto, Types
  <2> QED
    BY Zenon, <1>0, <1>4, <2>1, LockStay DEF Step, Begin, At, HoldsHash, HoldsM
<1>5. ASSUME NEW t \in Task, LockHashFound(t) PROVE LockInv'
  <2>1. pc'[t] = "mlock"
    BY Zenon, <1>5, GotoFacts DEF LockHashFound
  <2>2. Looked(t)' = A(t) /\ A(t) \in Addr
    BY Zenon, <1>5, <2>1, CallType DEF LockHashFound, Looked, A
  <2> QED
    BY Zenon, <1>0, <1>5, <2>1, <2>2, LockLook DEF Step, LockHashFound, At, HoldsHash, HoldsM
<1>6. ASSUME NEW t \in Task, LockHashInsert(t) PROVE LockInv'
  <2> DEFINE a == A(t)
  <2>1. PICK o \in Obj \ live : LockHashInsert(t)!5!(o)
    BY Zenon, <1>6 DEF LockHashInsert
  <2>2. /\ a \in Addr /\ StripeOf[a] \in Stripe /\ o \in Obj /\ o # NULL
        /\ live' = live \cup {o} /\ table' = [table EXCEPT ![a] = o] /\ table[a] = NULL /\ lock' = lock
        /\ stripe[StripeOf[a]] = NULL /\ Others(t) /\ call' = call
    BY Zenon, <1>0, <1>6, <2>1, CallType, ConstantsAssumption DEF Step, LockHashInsert
  <2>3. \/ stripe' = [stripe EXCEPT ![StripeOf[a]] = t] /\ mp' = [mp EXCEPT ![t] = o] /\ pc'[t] = "mlock"
        \/ stripe' = stripe /\ mp' = mp /\ pc'[t] = "idle"
    BY Zenon, <2>1, GotoFacts DEF Return
  <2>4. pc[t] = "hash" /\ (pc'[t] = "mlock" => Looked(t)' = a)
    BY Zenon, <1>6, <2>2 DEF LockHashInsert, At, Looked, A
  <2> HIDE DEF a
  <2>5. table'[a] = o /\ \A b \in Addr : b # a => table'[b] = table[b]
    BY Zenon, <2>2, LockTypes
  <2>6. \A b \in Addr : table[b] # o
    BY Zenon, <2>2 DEF LockInv, TableInv
  <2>7. \A x \in Task : x # t => mp'[x] = mp[x] /\ (pc[x] \in HoldsM <=> pc'[x] \in HoldsM)
    BY Zenon, <2>2 DEF Others, Quiet, HoldsM
  <2>8. TableInv'
    BY <2>2, <2>5, <2>6 DEF LockInv, TableInv
  <2>9. StripeInv'
    <3> SUFFICES ASSUME NEW x \in Task, pc'[x] \in HoldsHash
                 PROVE  stripe'[StripeOf[Looked(x)']] = x /\ table'[Looked(x)'] = mp'[x] /\ mp'[x] # NULL
      BY Zenon DEF StripeInv
    <3>1. CASE x = t
      <4>1. stripe' = [stripe EXCEPT ![StripeOf[a]] = t] /\ mp' = [mp EXCEPT ![t] = o] /\ pc'[t] = "mlock"
        BY Zenon, <2>3, <3>1 DEF HoldsHash
      <4>2. stripe'[StripeOf[a]] = t /\ mp'[t] = o
        BY Zenon, <2>2, <4>1, LockTypes
      <4> QED
        BY Zenon, <2>2, <2>4, <2>5, <3>1, <4>1, <4>2
    <3>2. CASE x # t
      <4>1. pc[x] \in HoldsHash /\ mp'[x] = mp[x] /\ Looked(x)' = Looked(x)
        BY Zenon, <2>2, <3>2, OtherStays
      <4>2. stripe[StripeOf[Looked(x)]] = x /\ table[Looked(x)] = mp[x] /\ mp[x] # NULL
        BY Zenon, <4>1 DEF LockInv, StripeInv
      <4>3. Looked(x) \in Addr /\ StripeOf[Looked(x)] \in Stripe /\ StripeOf[Looked(x)] # StripeOf[a]
        BY Zenon, <2>2, <4>1, <4>2, LookedType, ConstantsAssumption
      <4>4. stripe'[StripeOf[Looked(x)]] = x
        BY Zenon, <2>2, <2>3, <4>2, <4>3, LockTypes
      <4> QED
        BY Zenon, <2>5, <4>1, <4>2, <4>3, <4>4
    <3> QED
      BY Zenon, <3>1, <3>2
  <2>10. HolderInv'
    <3>1. pc[t] \notin HoldsM /\ pc'[t] \notin HoldsM
      BY Zenon, <2>3, <2>4 DEF HoldsM
    <3>2. \A x \in Task : pc[x] \in HoldsM <=> pc'[x] \in HoldsM
      BY Zenon, <2>7, <3>1
    <3>3. \A x \in Task : pc[x] \in HoldsM => mp'[x] = mp[x]
      BY Zenon, <2>7, <3>1
    <3> QED
      BY <2>2, <3>2, <3>3, LockTypes DEF LockInv, HolderInv
  <2>11. DeleteInv'
    <3> SUFFICES ASSUME NEW x \in Task, pc'[x] = "rdelete", NEW b \in Addr PROVE table'[b] # mp'[x]
      BY Zenon DEF DeleteInv
    <3>1. x # t
      BY Zenon, <2>3
    <3>2. pc[x] = "rdelete" /\ mp'[x] = mp[x]
      BY Zenon, <2>2, <3>1 DEF Others, Quiet
    <3>3. mp[x] # o /\ table[b] # mp[x]
      BY Zenon, <2>2, <3>2 DEF LockInv, HolderInv, DeleteInv, HoldsM
    <3> QED
      BY Zenon, <2>5, <3>2, <3>3
  <2> QED
    BY Zenon, <2>8, <2>9, <2>10, <2>11 DEF LockInv
<1>7. ASSUME NEW t \in Task, LockHashNoMemory(t) PROVE LockInv'
  <2>1. pc'[t] = "idle"
    BY Zenon, <1>7, GotoFacts DEF LockHashNoMemory, Return
  <2> QED
    BY Zenon, <1>0, <1>7, <2>1, LockStay DEF Step, LockHashNoMemory, At, HoldsHash, HoldsM
<1>8. ASSUME NEW t \in Task, LockHashAbsent(t) PROVE LockInv'
  <2>1. pc'[t] \in {"idle", "nom"}
    BY Zenon, <1>8, GotoFacts DEF LockHashAbsent, Return
  <2> QED
    BY Zenon, <1>0, <1>8, <2>1, LockStay DEF Step, LockHashAbsent, At, HoldsHash, HoldsM
<1>9. ASSUME NEW t \in Task, LockM(t) PROVE LockInv'
  <2>1. pc'[t] = "body"
    BY Zenon, <1>9, GotoFacts DEF LockM
  <2>2. Looked(t) = A(t)
    BY Zenon, <1>9 DEF LockM, At, Looked
  <2> QED
    BY Zenon, <1>0, <1>9, <2>1, <2>2, LockTake DEF Step, LockM, At, HoldsHash, HoldsM
<1>10. ASSUME NEW t \in Task, Status(t) PROVE LockInv'
  <2>1. pc'[t] = "idle"
    BY Zenon, <1>10, GotoFacts DEF Status, Return
  <2>2. Looked(t) = A(t)
    BY Zenon, <1>10 DEF Status, At, Looked
  <2> QED
    BY Zenon, <1>0, <1>10, <2>1, <2>2, LockGiveUp DEF Step, Status, At, HoldsHash, HoldsM
<1>11. ASSUME NEW t \in Task, readFE(t) PROVE LockInv'
  <2>1. \/ lock' = lock /\ pc'[t] \in {"switch", "empty"}
        \/ lock' = [lock EXCEPT ![mp[t]] = NULL] /\ pc'[t] = "idle"
    BY Zenon, <1>11, GotoFacts DEF readFE, Block, NoAddrres, UnlockReturn, Return
  <2> QED
    BY Zenon, <1>0, <1>11, <2>1, LockStay, LockRelease DEF Step, readFE, At, HoldsHash, HoldsM
<1>12. ASSUME NEW t \in Task, readFF(t) PROVE LockInv'
  <2>1. \/ lock' = lock /\ pc'[t] = "switch"
        \/ lock' = [lock EXCEPT ![mp[t]] = NULL] /\ pc'[t] = "idle"
    BY Zenon, <1>12, GotoFacts DEF readFF, Block, NoAddrres, UnlockReturn, Return
  <2> QED
    BY Zenon, <1>0, <1>12, <2>1, LockStay, LockRelease DEF Step, readFF, At, HoldsHash, HoldsM
<1>13. ASSUME NEW t \in Task, writeEF(t) PROVE LockInv'
  <2>1. \/ lock' = lock /\ pc'[t] \in {"switch", "fill"}
        \/ lock' = [lock EXCEPT ![mp[t]] = NULL] /\ pc'[t] = "idle"
    BY Zenon, <1>13, GotoFacts DEF writeEF, Block, NoAddrres, UnlockReturn, Return
  <2> QED
    BY Zenon, <1>0, <1>13, <2>1, LockStay, LockRelease DEF Step, writeEF, At, HoldsHash, HoldsM
<1>14. ASSUME NEW t \in Task, writeF_fill_empty(t) PROVE LockInv'
  <2>1. pc'[t] \in {"fill", "empty"}
    BY Zenon, <1>14, GotoFacts DEF writeF_fill_empty
  <2> QED
    BY Zenon, <1>0, <1>14, <2>1, LockStay DEF Step, writeF_fill_empty, At, HoldsHash, HoldsM
<1>15. ASSUME NEW t \in Task, CopyUnlocked(t) PROVE LockInv'
  <2>1. pc'[t] = "idle"
    BY Zenon, <1>15, GotoFacts DEF CopyUnlocked, Return
  <2> QED
    BY Zenon, <1>0, <1>15, <2>1, LockStay DEF Step, CopyUnlocked, At, HoldsHash, HoldsM
<1>16. ASSUME NEW t \in Task, gotlock_fill(t) PROVE LockInv'
  <2>1. pc'[t] \in {"unlock", "empty"}
    BY Zenon, <1>16, GotoFacts DEF gotlock_fill
  <2> QED
    BY Zenon, <1>0, <1>16, <2>1, LockStay DEF Step, gotlock_fill, At, HoldsHash, HoldsM
<1>17. ASSUME NEW t \in Task, gotlock_empty(t) PROVE LockInv'
  <2>1. pc'[t] \in {"unlock", "fill"}
    BY Zenon, <1>17, GotoFacts DEF gotlock_empty
  <2> QED
    BY Zenon, <1>0, <1>17, <2>1, LockStay DEF Step, gotlock_empty, At, HoldsHash, HoldsM
<1>18. ASSUME NEW t \in Task, gotlock_unlock(t) PROVE LockInv'
  <2>1. pc'[t] \in {"launch", "rhash", "idle"}
    BY Zenon, <1>18, GotoFacts DEF gotlock_unlock, AfterUnlock
  <2> QED
    BY Zenon, <1>0, <1>18, <2>1, LockRelease DEF Step, gotlock_unlock, At, HoldsHash, HoldsM
<1>19. ASSUME NEW t \in Task, PickNascent(t) PROVE LockInv'
  <2>1. pc'[t] = "check"
    BY Zenon, <1>19, GotoFacts DEF PickNascent
  <2> QED
    BY Zenon, <1>0, <1>19, <2>1, LockStay DEF Step, PickNascent, At, HoldsHash, HoldsM
<1>20. ASSUME NEW t \in Task, Launch(t) PROVE LockInv'
  <2>1. pc'[t] \in {"launch", "rhash", "idle"}
    BY Zenon, <1>20, GotoFacts DEF Launch, AfterUnlock
  <2> QED
    BY Zenon, <1>0, <1>20, <2>1, LockStay DEF Step, Launch, At, HoldsHash, HoldsM
<1>21. ASSUME NEW t \in Task, CheckHash(t) PROVE LockInv'
  <2>1. This(t) \in Addr
    BY Zenon, <1>21, ThisType DEF CheckHash, At, Checking
  <2>2. CASE table[This(t)] = NULL
    BY Zenon, <1>0, <1>21, <2>2, LockStay DEF Step, CheckHash, At, HoldsHash, HoldsM
  <2>3. CASE table[This(t)] # NULL
    <3>1. pc'[t] = "cmlock" /\ this_sync'[t] = This(t)
      BY ZenonT(60), <1>21, <2>3, GotoFacts DEF CheckHash, Types
    <3>2. Looked(t)' = This(t)
      BY Zenon, <3>1 DEF Looked
    <3> QED
      BY Zenon, <1>0, <1>21, <2>1, <2>3, <3>1, <3>2, LockLook DEF Step, CheckHash, At, HoldsHash, HoldsM
  <2> QED
    BY Zenon, <2>2, <2>3
<1>22. ASSUME NEW t \in Task, CheckLockM(t) PROVE LockInv'
  <2>1. pc'[t] = "cbody"
    BY Zenon, <1>22, GotoFacts DEF CheckLockM
  <2>2. Looked(t) = this_sync[t]
    BY Zenon, <1>22 DEF CheckLockM, At, Looked
  <2> QED
    BY Zenon, <1>0, <1>22, <2>1, <2>2, LockTake DEF Step, CheckLockM, At, HoldsHash, HoldsM
<1>23. ASSUME NEW t \in Task, CheckPrecond(t) PROVE LockInv'
  <2>1. pc'[t] \in {"check", "launch", "rhash", "idle"}
    BY Zenon, <1>23, GotoFacts DEF CheckPrecond, AfterUnlock
  <2> QED
    BY Zenon, <1>0, <1>23, <2>1, LockRelease DEF Step, CheckPrecond, At, HoldsHash, HoldsM
<1>24. ASSUME NEW t \in Task, RemoveLockHash(t) PROVE LockInv'
  <2>1. CASE table[A(t)] = NULL
    <3>1. pc'[t] = "idle"
      BY Zenon, <1>24, <2>1, GotoFacts DEF RemoveLockHash
    <3> QED
      BY Zenon, <1>0, <1>24, <2>1, <3>1, LockStay DEF Step, RemoveLockHash, At, HoldsHash, HoldsM
  <2>2. CASE table[A(t)] # NULL
    <3>1. pc'[t] = "rmlock"
      BY Zenon, <1>24, <2>2, GotoFacts DEF RemoveLockHash
    <3>2. Looked(t)' = A(t) /\ A(t) \in Addr
      BY Zenon, <1>24, <3>1, CallType DEF RemoveLockHash, Looked, A
    <3> QED
      BY Zenon, <1>0, <1>24, <2>2, <3>1, <3>2, LockLook DEF Step, RemoveLockHash, At, HoldsHash, HoldsM
  <2> QED
    BY Zenon, <2>1, <2>2
<1>25. ASSUME NEW t \in Task, RemoveLockM(t) PROVE LockInv'
  <2> DEFINE a == A(t)
  <2>1. Looked(t) = a /\ a \in Addr /\ pc[t] = "rmlock" /\ Others(t)
    BY Zenon, <1>0, <1>25, CallType DEF Step, RemoveLockM, At, Looked
  <2>2. CASE ~Removable(mp[t])
    <3>1. pc'[t] = "idle" /\ UNCHANGED <<lock, table>>
      BY Zenon, <1>25, <2>2, GotoFacts DEF RemoveLockM
    <3> QED
      BY Zenon, <1>25, <2>1, <3>1, LockGiveUp DEF RemoveLockM, HoldsHash, HoldsM
  <2>3. CASE Removable(mp[t])
    <3>1. /\ pc'[t] = "rdelete" /\ lock' = [lock EXCEPT ![mp[t]] = t] /\ lock[mp[t]] = NULL
          /\ table' = [table EXCEPT ![a] = NULL] /\ live' = live /\ mp' = mp
          /\ stripe' = [stripe EXCEPT ![StripeOf[a]] = NULL]
      BY Zenon, <1>25, <2>3, GotoFacts DEF RemoveLockM
    <3>2. table[a] = mp[t] /\ mp[t] # NULL /\ stripe[StripeOf[a]] = t
      BY Zenon, <2>1 DEF LockInv, StripeInv, HoldsHash
    <3>3. mp[t] \in live /\ mp[t] \in Obj
      BY Zenon, <2>1, <3>2, LockTypes DEF LockInv, TableInv
    <3> HIDE DEF a
    <3>4. table'[a] = NULL /\ \A b \in Addr : b # a => table'[b] = table[b]
      BY Zenon, <2>1, <3>1, LockTypes
    <3>5. lock'[mp[t]] = t /\ \A o \in Obj : o # mp[t] => lock'[o] = lock[o]
      BY Zenon, <3>1, <3>3, LockTypes
    <3>6. \A x \in Task : x # t => (pc[x] \in HoldsM <=> pc'[x] \in HoldsM)
      BY Zenon, <2>1 DEF Others, Quiet, HoldsM
    <3>7. TableInv'
      BY <3>1, <3>4 DEF LockInv, TableInv
    <3>8. StripeInv'
      <4> SUFFICES ASSUME NEW x \in Task, pc'[x] \in HoldsHash
                   PROVE  stripe'[StripeOf[Looked(x)']] = x /\ table'[Looked(x)'] = mp'[x] /\ mp'[x] # NULL
        BY Zenon DEF StripeInv
      <4>1. x # t
        BY Zenon, <3>1 DEF HoldsHash
      <4>2. pc[x] \in HoldsHash /\ mp'[x] = mp[x] /\ Looked(x)' = Looked(x)
        BY Zenon, <2>1, <4>1, OtherStays
      <4>3. stripe[StripeOf[Looked(x)]] = x /\ table[Looked(x)] = mp[x] /\ mp[x] # NULL
        BY Zenon, <4>2 DEF LockInv, StripeInv
      <4>4. Looked(x) \in Addr /\ StripeOf[Looked(x)] \in Stripe /\ StripeOf[Looked(x)] # StripeOf[a]
        BY Zenon, <3>2, <4>1, <4>2, <4>3, LookedType, ConstantsAssumption
      <4>5. stripe'[StripeOf[Looked(x)]] = x
        BY Zenon, <3>1, <4>3, <4>4, LockTypes
      <4>6. Looked(x) # a
        BY Zenon, <4>4
      <4> QED
        BY Zenon, <3>4, <4>2, <4>3, <4>4, <4>5, <4>6
    <3>9. HolderInv'
      <4>1. \A x \in Task : pc[x] \in HoldsM => mp[x] # mp[t]
        BY <3>1, ConstantsAssumption DEF LockInv, HolderInv
      <4>2. (\A x \in Task : pc[x] \in HoldsM => mp[x] \in live /\ lock[mp[x]] = x)'
        <5> SUFFICES ASSUME NEW x \in Task, pc'[x] \in HoldsM
                     PROVE  mp[x] \in live /\ lock'[mp[x]] = x
          BY Zenon, <3>1
        <5>1. CASE x = t
          BY Zenon, <3>3, <3>5, <5>1
        <5>2. CASE x # t
          <6>1. pc[x] \in HoldsM
            BY Zenon, <3>6, <5>2
          <6>2. mp[x] \in live /\ lock[mp[x]] = x /\ mp[x] \in Obj /\ mp[x] # mp[t]
            BY Zenon, <4>1, <6>1, LockTypes DEF LockInv, HolderInv
          <6> QED
            BY Zenon, <3>5, <6>2
        <5> QED
          BY Zenon, <5>1, <5>2
      <4>3. (\A o \in Obj : lock[o] # NULL => pc[lock[o]] \in HoldsM /\ mp[lock[o]] = o)'
        <5> SUFFICES ASSUME NEW o \in Obj, lock'[o] # NULL
                     PROVE  pc'[lock'[o]] \in HoldsM /\ mp[lock'[o]] = o
          BY Zenon, <3>1
        <5>1. CASE o = mp[t]
          BY Zenon, <3>1, <3>5, <5>1 DEF HoldsM
        <5>2. CASE o # mp[t]
          <6>1. lock'[o] = lock[o] /\ lock[o] \in Task
            BY Zenon, <3>5, <5>2, LockTypes
          <6>2. pc[lock[o]] \in HoldsM /\ mp[lock[o]] = o
            BY Zenon, <6>1, ConstantsAssumption DEF LockInv, HolderInv
          <6> QED
            BY Zenon, <3>6, <5>2, <6>1, <6>2
        <5> QED
          BY Zenon, <5>1, <5>2
      <4> QED
        BY Zenon, <4>2, <4>3 DEF HolderInv
    <3>10. DeleteInv'
      <4> SUFFICES ASSUME NEW x \in Task, pc'[x] = "rdelete", NEW b \in Addr PROVE table'[b] # mp[x]
        BY Zenon, <3>1 DEF DeleteInv
      <4>1. CASE x = t
        BY Zenon, <2>1, <3>2, <3>4, <4>1 DEF LockInv, TableInv
      <4>2. CASE x # t
        <5>1. pc[x] = "rdelete"
          BY Zenon, <2>1, <4>2 DEF Others, Quiet
        <5>2. table[b] # mp[x] /\ mp[x] \in Obj
          BY Zenon, <5>1, LockTypes DEF LockInv, HolderInv, DeleteInv, HoldsM
        <5> QED
          BY Zenon, <3>4, <5>2, ConstantsAssumption
      <4> QED
        BY Zenon, <4>1, <4>2
    <3> QED
      BY Zenon, <3>7, <3>8, <3>9, <3>10 DEF LockInv
  <2> QED
    BY Zenon, <2>2, <2>3
<1>26. ASSUME NEW t \in Task, RemoveDelete(t) PROVE LockInv'
  <2>1. /\ pc[t] = "rdelete" /\ pc'[t] = "idle" /\ Others(t) /\ mp' = mp /\ table' = table
        /\ lock' = [lock EXCEPT ![mp[t]] = NULL] /\ live' = live \ {mp[t]} /\ stripe' = stripe
    BY Zenon, <1>0, <1>26, GotoFacts DEF Step, RemoveDelete, At
  <2>2. /\ pc[t] \in HoldsM /\ mp[t] \in Obj
        /\ \A b \in Addr : table[b] # mp[t]
    BY Zenon, <2>1, LockTypes DEF LockInv, HolderInv, DeleteInv, HoldsM
  <2>3. lock'[mp[t]] = NULL /\ \A o \in Obj : o # mp[t] => lock'[o] = lock[o]
    BY Zenon, <2>1, <2>2, LockTypes
  <2>4. \A x \in Task : x # t => (pc[x] \in HoldsM <=> pc'[x] \in HoldsM)
    BY Zenon, <2>1 DEF Others, Quiet, HoldsM
  <2>5. TableInv'
    BY Zenon, <2>1, <2>2 DEF LockInv, TableInv
  <2>6. StripeInv'
    BY Zenon, <2>1, OtherStays DEF LockInv, StripeInv, HoldsHash
  <2>7. HolderInv'
    <3>1. pc'[t] \notin HoldsM
      BY Zenon, <2>1 DEF HoldsM
    <3>2. (\A x \in Task : pc[x] \in HoldsM => mp[x] \in live /\ lock[mp[x]] = x)'
      <4> SUFFICES ASSUME NEW x \in Task, pc'[x] \in HoldsM
                   PROVE  mp[x] \in live' /\ lock'[mp[x]] = x
        BY Zenon, <2>1
      <4>1. x # t /\ pc[x] \in HoldsM
        BY Zenon, <2>4, <3>1
      <4>2. mp[x] \in live /\ lock[mp[x]] = x /\ mp[x] \in Obj /\ mp[x] # mp[t]
        BY Zenon, <2>2, <4>1, HolderUnique, LockTypes DEF LockInv, HolderInv
      <4> QED
        BY Zenon, <2>1, <2>3, <4>2
    <3>3. (\A o \in Obj : lock[o] # NULL => pc[lock[o]] \in HoldsM /\ mp[lock[o]] = o)'
      <4> SUFFICES ASSUME NEW o \in Obj, lock'[o] # NULL
                   PROVE  pc'[lock'[o]] \in HoldsM /\ mp[lock'[o]] = o
        BY Zenon, <2>1
      <4>1. o # mp[t] /\ lock'[o] = lock[o] /\ lock[o] \in Task
        BY Zenon, <2>3, LockTypes
      <4>2. pc[lock[o]] \in HoldsM /\ mp[lock[o]] = o
        BY Zenon, <4>1, ConstantsAssumption DEF LockInv, HolderInv
      <4> QED
        BY Zenon, <2>4, <4>1, <4>2
    <3> QED
      BY Zenon, <3>2, <3>3 DEF HolderInv
  <2>8. DeleteInv'
    BY Zenon, <2>1 DEF LockInv, DeleteInv, Others, Quiet
  <2> QED
    BY Zenon, <2>5, <2>6, <2>7, <2>8 DEF LockInv
<1>27. CASE UNCHANGED vars
  BY Zenon, <1>27 DEF LockInv, TableInv, StripeInv, HolderInv, DeleteInv, Looked, A
<1> QED
  BY Zenon, <1>1, <1>2, <1>3, <1>4, <1>5, <1>6, <1>7, <1>8, <1>9, <1>10, <1>11, <1>12, <1>13, <1>14,
     <1>15, <1>16, <1>17, <1>18, <1>19, <1>20, <1>21, <1>22, <1>23, <1>24, <1>25, <1>26, <1>27
     DEF Next, Step, Master, Quiescent

-----------------------------------------------------------------------------
(* Every step keeps SettledInv: away from the two halves of a change an    *)
(* addrstat's lists agree with its bit.                                    *)

NoList(o) == EFQ[o] = <<>> /\ FEQ[o] = <<>> /\ FFQ[o] = {}

\* A step that touches at most the addrstat m.
LEMMA SettledFrame ==
    ASSUME Types, SettledInv, NEW m,
           \A o \in Obj : o # m =>
               /\ full'[o] = full[o] /\ EFQ'[o] = EFQ[o] /\ FEQ'[o] = FEQ[o] /\ FFQ'[o] = FFQ[o]
               /\ lock'[o] = lock[o]
               /\ lock[o] # NULL /\ pc[lock[o]] \in {"fill", "empty"} => pc'[lock[o]] = pc[lock[o]]
               /\ o \in live => o \in live',
           m \in Obj => \/ Settled(m)'
                        \/ lock'[m] # NULL /\ pc'[lock'[m]] \in {"fill", "empty"},
           m \in Obj \ live' => NoList(m)',
           \A x \in Task : pc'[x] = "rdelete" =>
               \/ pc[x] = "rdelete" /\ mp'[x] = mp[x] /\ mp[x] \in Obj /\ mp[x] # m
               \/ Removable(mp[x])'
    PROVE  SettledInv'
<1>1. (\A o \in Obj : Settled(o) \/ (lock[o] # NULL /\ pc[lock[o]] \in {"fill", "empty"}))'
  <2> SUFFICES ASSUME NEW o \in Obj
               PROVE  Settled(o)' \/ (lock'[o] # NULL /\ pc'[lock'[o]] \in {"fill", "empty"})
    BY Zenon
  <2>1. CASE o = m
    BY Zenon, <2>1
  <2>2. CASE o # m
    BY Zenon, <2>2 DEF SettledInv, Settled
  <2> QED
    BY Zenon, <2>1, <2>2
<1>2. (\A x \in Task : pc[x] = "rdelete" => Removable(mp[x]))'
  BY DEF SettledInv, Removable
<1>3. (\A o \in Obj \ live : EFQ[o] = <<>> /\ FEQ[o] = <<>> /\ FFQ[o] = {})'
  BY Zenon DEF SettledInv, NoList
<1> QED
  BY Zenon, <1>1, <1>2, <1>3 DEF SettledInv

\* A step of a task that holds no addrstat's lock and touches none.
LEMMA SettledStay ==
    ASSUME Types, LocalInv, LockInv, SettledInv, NEW t \in Task, Others(t),
           UNCHANGED <<full, EFQ, FEQ, FFQ, live, lock>>,
           pc[t] \notin {"fill", "empty"}, pc'[t] # "rdelete"
    PROVE  SettledInv'
<1>1. NULL \notin Obj
  BY Zenon, ConstantsAssumption
<1>2. \A o \in Obj : lock[o] # NULL /\ pc[lock[o]] \in {"fill", "empty"} => pc'[lock[o]] = pc[lock[o]]
  <2> SUFFICES ASSUME NEW o \in Obj, lock[o] # NULL, pc[lock[o]] \in {"fill", "empty"}
               PROVE  pc'[lock[o]] = pc[lock[o]]
    BY Zenon
  <2>1. lock[o] \in Task /\ lock[o] # t
    BY Zenon DEF Types
  <2> QED
    BY Zenon, <2>1 DEF Others, Quiet
<1>3. \A x \in Task : pc'[x] = "rdelete" => pc[x] = "rdelete" /\ mp'[x] = mp[x] /\ mp[x] \in Obj /\ mp[x] # NULL
  <2> SUFFICES ASSUME NEW x \in Task, pc'[x] = "rdelete"
               PROVE  pc[x] = "rdelete" /\ mp'[x] = mp[x] /\ mp[x] \in Obj
    BY Zenon, <1>1
  <2>1. pc[x] = "rdelete" /\ mp'[x] = mp[x]
    BY Zenon DEF Others, Quiet
  <2> QED
    BY Zenon, <2>1 DEF LockInv, HolderInv, HoldsM, Types
<1> QED
  BY Zenon, <1>1, <1>2, <1>3, SettledFrame

\* A step of the holder of m's lock, which may change m and may release it.
LEMMA SettledHolder ==
    ASSUME Types, LocalInv, LockInv, SettledInv, NEW t \in Task, Others(t),
           pc[t] \in HoldsM, mp'[t] = mp[t], live' = live, pc'[t] # "rdelete",
           \A o \in Obj : o # mp[t] =>
               /\ full'[o] = full[o] /\ EFQ'[o] = EFQ[o] /\ FEQ'[o] = FEQ[o] /\ FFQ'[o] = FFQ[o]
               /\ lock'[o] = lock[o],
           Settled(mp[t])' \/ (lock'[mp[t]] = t /\ pc'[t] \in {"fill", "empty"})
    PROVE  SettledInv'
<1>1. mp[t] \in Obj /\ mp[t] \in live /\ lock[mp[t]] = t /\ t # NULL
  BY Zenon, ConstantsAssumption DEF LockInv, HolderInv, Types
<1>2. \A o \in Obj : o # mp[t] /\ lock[o] # NULL /\ pc[lock[o]] \in {"fill", "empty"} => pc'[lock[o]] = pc[lock[o]]
  <2> SUFFICES ASSUME NEW o \in Obj, o # mp[t], lock[o] # NULL, pc[lock[o]] \in {"fill", "empty"}
               PROVE  pc'[lock[o]] = pc[lock[o]]
    BY Zenon
  <2>1. lock[o] \in Task
    BY DEF Types
  <2>2. mp[lock[o]] = o
    BY Zenon DEF LockInv, HolderInv
  <2> QED
    BY Zenon, <2>1, <2>2 DEF Others, Quiet
<1>3. \A x \in Task : pc'[x] = "rdelete" => pc[x] = "rdelete" /\ mp'[x] = mp[x] /\ mp[x] \in Obj /\ mp[x] # mp[t]
  <2> SUFFICES ASSUME NEW x \in Task, pc'[x] = "rdelete"
               PROVE  pc[x] = "rdelete" /\ mp'[x] = mp[x] /\ mp[x] \in Obj /\ mp[x] # mp[t]
    BY Zenon
  <2>1. x # t /\ pc[x] = "rdelete" /\ mp'[x] = mp[x]
    BY Zenon DEF Others, Quiet
  <2>2. pc[x] \in HoldsM
    BY Zenon, <2>1 DEF HoldsM
  <2> QED
    BY Zenon, <2>1, <2>2, HolderUnique DEF LockInv, HolderInv, Types
<1> QED
  BY Zenon, <1>1, <1>2, <1>3, SettledFrame

\* Away from the two halves of a change, what a task has locked is settled.
LEMMA HeldIsSettled ==
    ASSUME Types, LockInv, SettledInv, NEW t \in Task, pc[t] \in HoldsM \ {"fill", "empty"}
    PROVE  mp[t] \in Obj /\ Settled(mp[t])
  BY Zenon DEF LockInv, HolderInv, SettledInv, Types

\* m is unlocked and nothing else of it changes.
LEMMA SettledRelease ==
    ASSUME Types, LocalInv, LockInv, SettledInv, NEW t \in Task, Others(t),
           pc[t] \in HoldsM \ {"fill", "empty"}, mp'[t] = mp[t], pc'[t] # "rdelete",
           UNCHANGED <<full, EFQ, FEQ, FFQ, live>>, lock' = [lock EXCEPT ![mp[t]] = NULL]
    PROVE  SettledInv'
<1>1. mp[t] \in Obj /\ Settled(mp[t])
  BY Zenon, HeldIsSettled
<1>2. Settled(mp[t])'
  BY Zenon, <1>1 DEF Settled
<1>3. \A o \in Obj : o # mp[t] => lock'[o] = lock[o]
  BY Zenon DEF Types
<1> QED
  BY Zenon, <1>2, <1>3, SettledHolder

\* m, which nobody has locked, is locked.
LEMMA SettledTake ==
    ASSUME Types, LocalInv, LockInv, SettledInv, NEW t \in Task, Others(t),
           pc[t] \in HoldsHash, mp'[t] = mp[t], pc'[t] = "rdelete" => Removable(mp[t]),
           UNCHANGED <<full, EFQ, FEQ, FFQ, live>>,
           lock[mp[t]] = NULL, lock' = [lock EXCEPT ![mp[t]] = t]
    PROVE  SettledInv'
<1>0. mp[t] \in Obj /\ mp[t] \in live
  BY Zenon, LookedType DEF LockInv, StripeInv, TableInv, Types
<1>1. PICK m \in Obj : m = mp[t] /\ m \in live
  BY Zenon, <1>0
<1>2. Settled(m)'
  <2>1. Settled(m)
    BY Zenon, <1>1 DEF SettledInv
  <2> QED
    BY Zenon, <2>1 DEF Settled
<1>3. \A o \in Obj : o # m => lock'[o] = lock[o]
  BY Zenon, <1>1 DEF Types
<1>4. \A o \in Obj : o # m /\ lock[o] # NULL /\ pc[lock[o]] \in {"fill", "empty"} => pc'[lock[o]] = pc[lock[o]]
  <2> SUFFICES ASSUME NEW o \in Obj, lock[o] # NULL, pc[lock[o]] \in {"fill", "empty"}
               PROVE  pc'[lock[o]] = pc[lock[o]]
    BY Zenon
  <2>1. lock[o] \in Task /\ lock[o] # t
    BY Zenon DEF Types, HoldsHash
  <2> QED
    BY Zenon, <2>1 DEF Others, Quiet
<1>5. \A x \in Task : pc'[x] = "rdelete" =>
          \/ pc[x] = "rdelete" /\ mp'[x] = mp[x] /\ mp[x] \in Obj /\ mp[x] # m
          \/ Removable(mp[x])'
  <2> SUFFICES ASSUME NEW x \in Task, pc'[x] = "rdelete"
               PROVE  \/ pc[x] = "rdelete" /\ mp'[x] = mp[x] /\ mp[x] \in Obj /\ mp[x] # m
                      \/ Removable(mp[x])'
    BY Zenon
  <2>1. CASE x = t
    BY Zenon, <1>1, <2>1 DEF Removable
  <2>2. CASE x # t
    <3>1. pc[x] = "rdelete" /\ mp'[x] = mp[x]
      BY Zenon, <2>2 DEF Others, Quiet
    <3>2. mp[x] \in Obj /\ lock[mp[x]] = x
      BY Zenon, <3>1 DEF LockInv, HolderInv, HoldsM, Types
    <3> QED
      BY Zenon, <1>1, <3>1, <3>2, ConstantsAssumption
  <2> QED
    BY Zenon, <2>1, <2>2
<1>6. \A o \in Obj : o # m =>
          /\ full'[o] = full[o] /\ EFQ'[o] = EFQ[o] /\ FEQ'[o] = FEQ[o] /\ FFQ'[o] = FFQ[o]
          /\ lock'[o] = lock[o]
          /\ lock[o] # NULL /\ pc[lock[o]] \in {"fill", "empty"} => pc'[lock[o]] = pc[lock[o]]
          /\ o \in live => o \in live'
  BY Zenon, <1>3, <1>4
<1>7. m \notin Obj \ live'
  BY Zenon, <1>1
<1> QED
  BY Zenon, <1>2, <1>5, <1>6, <1>7, SettledFrame

\* Every step keeps SettledInv.
LEMMA SettledStep ==
    ASSUME Types, LocalInv, LockInv, SettledInv, [Next]_vars
    PROVE  SettledInv'
<1> USE DEF sync, sched, pre, local, vars
<1>0. \A t \in Task : Step(t) => Others(t)
  BY Zenon, OthersKept
<1>1. ASSUME NEW w \in Worker, NEW t \in Task, Dispatch(w, t) PROVE SettledInv'
  <2>1. CASE pc[t] = "blocked"
    <3>1. Goto(t, "idle") /\ UNCHANGED <<mp, call, checked, this_sync, full, EFQ, FEQ, FFQ, live, lock>>
      BY Zenon, <1>1, <2>1 DEF Dispatch
    <3>2. Others(t) /\ pc'[t] = "idle"
      BY Zenon, <3>1, OthersQuiet, GotoFacts
    <3> QED
      BY Zenon, <2>1, <3>1, <3>2, SettledStay
  <2>2. CASE pc[t] # "blocked"
    <3>1. pc' = pc
      BY Zenon, <1>1, <2>2 DEF Dispatch, Goto, Types
    <3> QED
      BY Zenon, <1>1, <3>1 DEF Dispatch, SettledInv, Settled, Removable
  <2> QED
    BY Zenon, <2>1, <2>2
<1>2. ASSUME NEW w \in Worker, MasterUnlock(w) PROVE SettledInv'
  <2> DEFINE t == on[w]
  <2>1. t \in Task /\ pc[t] = "switch" /\ Goto(t, "blocked")
    BY Zenon, <1>2 DEF MasterUnlock, Types
  <2>2. /\ UNCHANGED <<mp, call, checked, this_sync, full, EFQ, FEQ, FFQ, live>>
        /\ lock' = [lock EXCEPT ![mp[t]] = NULL]
    BY Zenon, <1>2 DEF MasterUnlock
  <2> HIDE DEF t
  <2>3. Others(t) /\ pc'[t] = "blocked"
    BY Zenon, <2>1, <2>2, OthersQuiet, GotoFacts
  <2> QED
    BY Zenon, <2>1, <2>2, <2>3, SettledRelease DEF HoldsM
<1>3. ASSUME NEW w \in Worker, Terminate(w) PROVE SettledInv'
  <2> DEFINE t == on[w]
  <2>1. t \in Task /\ pc[t] = "idle" /\ Goto(t, "done")
    BY Zenon, <1>3 DEF Terminate, Types
  <2>2. UNCHANGED <<mp, call, checked, this_sync, full, EFQ, FEQ, FFQ, live, lock>>
    BY Zenon, <1>3 DEF Terminate
  <2> HIDE DEF t
  <2>3. Others(t) /\ pc'[t] = "done"
    BY Zenon, <2>1, <2>2, OthersQuiet, GotoFacts
  <2> QED
    BY Zenon, <2>1, <2>2, <2>3, SettledStay
<1>4. ASSUME NEW t \in Task, Begin(t) PROVE SettledInv'
  <2>1. pc'[t] \in {"hash", "launch"}
    BY ZenonT(60), <1>4 DEF Begin, Goto, Types
  <2> QED
    BY Zenon, <1>0, <1>4, <2>1, SettledStay DEF Step, Begin, At
<1>5. ASSUME NEW t \in Task, LockHashFound(t) PROVE SettledInv'
  BY Zenon, <1>0, <1>5, SettledStay, GotoFacts DEF Step, LockHashFound, At
<1>6. ASSUME NEW t \in Task, LockHashInsert(t) PROVE SettledInv'
  <2>1. PICK o \in Obj \ live : LockHashInsert(t)!5!(o)
    BY Zenon, <1>6 DEF LockHashInsert
  <2>2. /\ live' = live \cup {o} /\ full' = [full EXCEPT ![o] = (Op(t) # "empty")]
        /\ UNCHANGED <<lock, EFQ, FEQ, FFQ>> /\ Others(t) /\ pc[t] = "hash"
    BY Zenon, <1>0, <1>6, <2>1 DEF Step, LockHashInsert, At
  <2>3. pc'[t] \in {"mlock", "idle"}
    BY Zenon, <2>1, GotoFacts DEF Return
  <2>4. Settled(o)'
    BY Zenon, <2>1, <2>2 DEF SettledInv, Settled
  <2>5. \A p \in Obj : p # o =>
          /\ full'[p] = full[p] /\ EFQ'[p] = EFQ[p] /\ FEQ'[p] = FEQ[p] /\ FFQ'[p] = FFQ[p]
          /\ lock'[p] = lock[p]
          /\ lock[p] # NULL /\ pc[lock[p]] \in {"fill", "empty"} => pc'[lock[p]] = pc[lock[p]]
          /\ p \in live => p \in live'
    <3> SUFFICES ASSUME NEW p \in Obj, p # o
                 PROVE  /\ full'[p] = full[p]
                        /\ lock[p] # NULL /\ pc[lock[p]] \in {"fill", "empty"} => pc'[lock[p]] = pc[lock[p]]
      BY Zenon, <2>2
    <3>1. full'[p] = full[p]
      BY Zenon, <2>2 DEF Types
    <3>2. lock[p] # NULL => lock[p] \in Task
      BY Zenon DEF Types
    <3>3. lock[p] # NULL /\ pc[lock[p]] \in {"fill", "empty"} => pc'[lock[p]] = pc[lock[p]]
      BY Zenon, <2>2, <3>2 DEF Others, Quiet
    <3> QED
      BY Zenon, <3>1, <3>3
  <2>6. \A x \in Task : pc'[x] = "rdelete" =>
          pc[x] = "rdelete" /\ mp'[x] = mp[x] /\ mp[x] \in Obj /\ mp[x] # o
    <3> SUFFICES ASSUME NEW x \in Task, pc'[x] = "rdelete"
                 PROVE  pc[x] = "rdelete" /\ mp'[x] = mp[x] /\ mp[x] \in Obj /\ mp[x] # o
      BY Zenon
    <3>1. pc[x] = "rdelete" /\ mp'[x] = mp[x]
      BY Zenon, <2>2, <2>3 DEF Others, Quiet
    <3> QED
      BY Zenon, <3>1 DEF LockInv, HolderInv, HoldsM, Types
  <2>7. o \notin Obj \ live'
    BY Zenon, <2>2
  <2> QED
    BY Zenon, <2>4, <2>5, <2>6, <2>7, SettledFrame
<1>7. ASSUME NEW t \in Task, LockHashNoMemory(t) PROVE SettledInv'
  BY ZenonT(60), <1>0, <1>7, SettledStay, GotoFacts DEF Step, LockHashNoMemory, At, Return
<1>8. ASSUME NEW t \in Task, LockHashAbsent(t) PROVE SettledInv'
  <2>1. pc'[t] \in {"idle", "nom"}
    BY Zenon, <1>8, GotoFacts DEF LockHashAbsent, Return
  <2> QED
    BY Zenon, <1>0, <1>8, <2>1, SettledStay DEF Step, LockHashAbsent, At
<1>9. ASSUME NEW t \in Task, LockM(t) PROVE SettledInv'
  <2>1. pc'[t] = "body"
    BY Zenon, <1>9, GotoFacts DEF LockM
  <2> QED
    BY Zenon, <1>0, <1>9, <2>1, SettledTake DEF Step, LockM, At, HoldsHash
<1>10. ASSUME NEW t \in Task, Status(t) PROVE SettledInv'
  <2>1. pc'[t] = "idle"
    BY Zenon, <1>10, GotoFacts DEF Status, Return
  <2> QED
    BY Zenon, <1>0, <1>10, <2>1, SettledStay DEF Step, Status, At
<1>11. ASSUME NEW t \in Task, readFE(t) PROVE SettledInv'
  <2>1. Others(t) /\ pc[t] = "body" /\ mp[t] \in Obj /\ Settled(mp[t])
    BY Zenon, <1>0, <1>11, HeldIsSettled DEF Step, readFE, At, HoldsM
  <2>2. \/ lock' = [lock EXCEPT ![mp[t]] = NULL] /\ FEQ' = FEQ /\ pc'[t] = "idle"
        \/ lock' = lock /\ FEQ' = FEQ /\ pc'[t] = "empty"
        \/ lock' = lock /\ FEQ' = Push(FEQ, mp[t], t) /\ pc'[t] = "switch" /\ ~full[mp[t]]
    BY Zenon, <1>11, GotoFacts DEF readFE, Block, NoAddrres, UnlockReturn, Return
  <2>3. CASE lock' = lock /\ FEQ' = Push(FEQ, mp[t], t) /\ pc'[t] = "switch" /\ ~full[mp[t]]
    <3>1. \A o \in Obj : o # mp[t] => FEQ'[o] = FEQ[o]
      BY Zenon, <2>3 DEF Types, Push
    <3>2. Settled(mp[t])'
      BY Zenon, <1>11, <2>1, <2>3 DEF readFE, Settled
    <3> QED
      BY Zenon, <1>11, <2>1, <2>3, <3>1, <3>2, SettledHolder DEF readFE, HoldsM
  <2> QED
    BY Zenon, <1>11, <2>1, <2>2, <2>3, SettledStay, SettledRelease DEF readFE, HoldsM
<1>12. ASSUME NEW t \in Task, readFF(t) PROVE SettledInv'
  <2>1. Others(t) /\ pc[t] = "body" /\ mp[t] \in Obj /\ Settled(mp[t])
    BY Zenon, <1>0, <1>12, HeldIsSettled DEF Step, readFF, At, HoldsM
  <2>2. \/ lock' = [lock EXCEPT ![mp[t]] = NULL] /\ FFQ' = FFQ /\ pc'[t] = "idle"
        \/ /\ lock' = lock /\ FFQ' = [FFQ EXCEPT ![mp[t]] = @ \cup {t}]
           /\ pc'[t] = "switch" /\ ~full[mp[t]]
    BY Zenon, <1>12, GotoFacts DEF readFF, Block, NoAddrres, UnlockReturn, Return
  <2>3. CASE /\ lock' = lock /\ FFQ' = [FFQ EXCEPT ![mp[t]] = @ \cup {t}]
             /\ pc'[t] = "switch" /\ ~full[mp[t]]
    <3>1. \A o \in Obj : o # mp[t] => FFQ'[o] = FFQ[o]
      BY Zenon, <2>3 DEF Types
    <3>2. Settled(mp[t])'
      BY Zenon, <1>12, <2>1, <2>3 DEF readFF, Settled
    <3> QED
      BY Zenon, <1>12, <2>1, <2>3, <3>1, <3>2, SettledHolder DEF readFF, HoldsM
  <2> QED
    BY Zenon, <1>12, <2>1, <2>2, <2>3, SettledRelease DEF readFF, HoldsM
<1>13. ASSUME NEW t \in Task, writeEF(t) PROVE SettledInv'
  <2>1. Others(t) /\ pc[t] = "body" /\ mp[t] \in Obj /\ Settled(mp[t])
    BY Zenon, <1>0, <1>13, HeldIsSettled DEF Step, writeEF, At, HoldsM
  <2>2. \/ lock' = [lock EXCEPT ![mp[t]] = NULL] /\ EFQ' = EFQ /\ pc'[t] = "idle"
        \/ lock' = lock /\ EFQ' = EFQ /\ pc'[t] = "fill"
        \/ lock' = lock /\ EFQ' = Push(EFQ, mp[t], t) /\ pc'[t] = "switch" /\ full[mp[t]]
    BY Zenon, <1>13, GotoFacts DEF writeEF, Block, NoAddrres, UnlockReturn, Return
  <2>3. CASE lock' = lock /\ EFQ' = Push(EFQ, mp[t], t) /\ pc'[t] = "switch" /\ full[mp[t]]
    <3>1. \A o \in Obj : o # mp[t] => EFQ'[o] = EFQ[o]
      BY Zenon, <2>3 DEF Types, Push
    <3>2. Settled(mp[t])'
      BY Zenon, <1>13, <2>1, <2>3 DEF writeEF, Settled
    <3> QED
      BY Zenon, <1>13, <2>1, <2>3, <3>1, <3>2, SettledHolder DEF writeEF, HoldsM
  <2> QED
    BY Zenon, <1>13, <2>1, <2>2, <2>3, SettledStay, SettledRelease DEF writeEF, HoldsM
<1>14. ASSUME NEW t \in Task, writeF_fill_empty(t) PROVE SettledInv'
  <2>1. pc'[t] \in {"fill", "empty"}
    BY Zenon, <1>14, GotoFacts DEF writeF_fill_empty
  <2> QED
    BY Zenon, <1>0, <1>14, <2>1, SettledStay DEF Step, writeF_fill_empty, At
<1>15. ASSUME NEW t \in Task, CopyUnlocked(t) PROVE SettledInv'
  <2>1. pc'[t] = "idle"
    BY Zenon, <1>15, GotoFacts DEF CopyUnlocked, Return
  <2> QED
    BY Zenon, <1>0, <1>15, <2>1, SettledStay DEF Step, CopyUnlocked, At
<1>16. ASSUME NEW t \in Task, gotlock_fill(t) PROVE SettledInv'
  <2>0. Others(t) /\ pc[t] = "fill" /\ pc[t] \in HoldsM /\ mp[t] \in Obj /\ lock[mp[t]] = t
    BY Zenon, <1>0, <1>16 DEF Step, gotlock_fill, At, LockInv, HolderInv, HoldsM, Types
  <2>1. PICK m \in Obj : m = mp[t] /\ lock[m] = t
    BY Zenon, <2>0
  <2>2. /\ full' = [full EXCEPT ![m] = TRUE] /\ FFQ' = [FFQ EXCEPT ![m] = {}]
        /\ FEQ' = [FEQ EXCEPT ![m] = IF @ = <<>> THEN @ ELSE Tail(@)]
        /\ UNCHANGED <<live, lock, EFQ, mp>>
    BY Zenon, <1>16, <2>1 DEF gotlock_fill
  <2>3. IF FEQ[m] = <<>> THEN pc'[t] = "unlock" ELSE pc'[t] = "empty"
    BY Zenon, <1>16, <2>1, GotoFacts DEF gotlock_fill
  <2>4. \A o \in Obj : o # m => full'[o] = full[o] /\ FFQ'[o] = FFQ[o] /\ FEQ'[o] = FEQ[o]
    BY Zenon, <2>2 DEF Types
  <2>5. full'[m] = TRUE /\ FFQ'[m] = {} /\ (FEQ[m] = <<>> => FEQ'[m] = <<>>)
    BY Zenon, <2>1, <2>2 DEF Types
  <2>6. Settled(m)' \/ (lock'[m] = t /\ pc'[t] \in {"fill", "empty"})
    BY Zenon, <2>1, <2>2, <2>3, <2>5 DEF Settled
  <2> QED
    BY Zenon, <2>0, <2>1, <2>2, <2>3, <2>4, <2>6, SettledHolder
<1>17. ASSUME NEW t \in Task, gotlock_empty(t) PROVE SettledInv'
  <2>0. Others(t) /\ pc[t] = "empty" /\ pc[t] \in HoldsM /\ mp[t] \in Obj /\ lock[mp[t]] = t
    BY Zenon, <1>0, <1>17 DEF Step, gotlock_empty, At, LockInv, HolderInv, HoldsM, Types
  <2>1. PICK m \in Obj : m = mp[t] /\ lock[m] = t
    BY Zenon, <2>0
  <2>2. /\ full' = [full EXCEPT ![m] = FALSE]
        /\ EFQ' = [EFQ EXCEPT ![m] = IF @ = <<>> THEN @ ELSE Tail(@)]
        /\ UNCHANGED <<live, lock, FEQ, FFQ, mp>>
    BY Zenon, <1>17, <2>1 DEF gotlock_empty
  <2>3. IF EFQ[m] = <<>> THEN pc'[t] = "unlock" ELSE pc'[t] = "fill"
    BY Zenon, <1>17, <2>1, GotoFacts DEF gotlock_empty
  <2>4. \A o \in Obj : o # m => full'[o] = full[o] /\ EFQ'[o] = EFQ[o]
    BY Zenon, <2>2 DEF Types
  <2>5. full'[m] = FALSE /\ (EFQ[m] = <<>> => EFQ'[m] = <<>>)
    BY Zenon, <2>1, <2>2 DEF Types
  <2>6. Settled(m)' \/ (lock'[m] = t /\ pc'[t] \in {"fill", "empty"})
    BY Zenon, <2>1, <2>2, <2>3, <2>5 DEF Settled
  <2> QED
    BY Zenon, <2>0, <2>1, <2>2, <2>3, <2>4, <2>6, SettledHolder
<1>18. ASSUME NEW t \in Task, gotlock_unlock(t) PROVE SettledInv'
  <2>1. pc'[t] \in {"launch", "rhash", "idle"}
    BY Zenon, <1>18, GotoFacts DEF gotlock_unlock, AfterUnlock
  <2> QED
    BY Zenon, <1>0, <1>18, <2>1, SettledRelease DEF Step, gotlock_unlock, At, HoldsM
<1>19. ASSUME NEW t \in Task, PickNascent(t) PROVE SettledInv'
  <2>1. pc'[t] = "check"
    BY Zenon, <1>19, GotoFacts DEF PickNascent
  <2> QED
    BY Zenon, <1>0, <1>19, <2>1, SettledStay DEF Step, PickNascent, At
<1>20. ASSUME NEW t \in Task, Launch(t) PROVE SettledInv'
  <2>1. pc'[t] \in {"launch", "rhash", "idle"}
    BY Zenon, <1>20, GotoFacts DEF Launch, AfterUnlock
  <2> QED
    BY Zenon, <1>0, <1>20, <2>1, SettledStay DEF Step, Launch, At
<1>21. ASSUME NEW t \in Task, CheckHash(t) PROVE SettledInv'
  <2>1. pc'[t] \in {"check", "cmlock"}
    BY Zenon, <1>21, GotoFacts DEF CheckHash, At
  <2> QED
    BY Zenon, <1>0, <1>21, <2>1, SettledStay DEF Step, CheckHash, At
<1>22. ASSUME NEW t \in Task, CheckLockM(t) PROVE SettledInv'
  <2>1. pc'[t] = "cbody"
    BY Zenon, <1>22, GotoFacts DEF CheckLockM
  <2> QED
    BY Zenon, <1>0, <1>22, <2>1, SettledTake DEF Step, CheckLockM, At, HoldsHash
<1>23. ASSUME NEW t \in Task, CheckPrecond(t) PROVE SettledInv'
  <2>1. Others(t) /\ pc[t] \in HoldsM /\ pc[t] = "cbody" /\ mp[t] \in Obj /\ Settled(mp[t])
    BY Zenon, <1>0, <1>23, HeldIsSettled DEF Step, CheckPrecond, At, HoldsM
  <2>2. pc'[t] \in {"check", "launch", "rhash", "idle"}
    BY Zenon, <1>23, GotoFacts DEF CheckPrecond, AfterUnlock
  <2>3. UNCHANGED <<full, EFQ, FEQ, live, mp>> /\ lock' = [lock EXCEPT ![mp[t]] = NULL]
    BY Zenon, <1>23 DEF CheckPrecond
  <2>4. CASE full[mp[t]]
    BY Zenon, <1>23, <2>1, <2>2, <2>3, <2>4, SettledRelease DEF CheckPrecond
  <2>5. CASE ~full[mp[t]]
    <3>1. FFQ' = [FFQ EXCEPT ![mp[t]] = @ \cup {checked[t]}]
      BY Zenon, <1>23, <2>5 DEF CheckPrecond
    <3>2. \A o \in Obj : o # mp[t] => FFQ'[o] = FFQ[o] /\ lock'[o] = lock[o]
      BY Zenon, <2>3, <3>1 DEF Types
    <3>3. Settled(mp[t])'
      BY Zenon, <2>1, <2>3, <2>5 DEF Settled
    <3> QED
      BY Zenon, <2>1, <2>2, <2>3, <3>2, <3>3, SettledHolder
  <2> QED
    BY Zenon, <2>4, <2>5
<1>24. ASSUME NEW t \in Task, RemoveLockHash(t) PROVE SettledInv'
  <2>1. pc'[t] \in {"rmlock", "idle"}
    BY Zenon, <1>24, GotoFacts DEF RemoveLockHash
  <2> QED
    BY Zenon, <1>0, <1>24, <2>1, SettledStay DEF Step, RemoveLockHash, At
<1>25. ASSUME NEW t \in Task, RemoveLockM(t) PROVE SettledInv'
  <2>1. CASE ~Removable(mp[t])
    <3>1. pc'[t] = "idle" /\ lock' = lock
      BY Zenon, <1>25, <2>1, GotoFacts DEF RemoveLockM
    <3> QED
      BY Zenon, <1>0, <1>25, <3>1, SettledStay DEF Step, RemoveLockM, At
  <2>2. CASE Removable(mp[t])
    <3>1. lock' = [lock EXCEPT ![mp[t]] = t]
      BY Zenon, <1>25, <2>2 DEF RemoveLockM
    <3> QED
      BY Zenon, <1>0, <1>25, <2>2, <3>1, SettledTake DEF Step, RemoveLockM, At, HoldsHash
  <2> QED
    BY Zenon, <2>1, <2>2
<1>26. ASSUME NEW t \in Task, RemoveDelete(t) PROVE SettledInv'
  <2>0. PICK m : m = mp[t]
    BY Zenon
  <2>1. Others(t) /\ pc[t] \in HoldsM /\ pc[t] = "rdelete" /\ pc'[t] = "idle"
    BY Zenon, <1>0, <1>26, GotoFacts DEF Step, RemoveDelete, At, HoldsM
  <2>2. /\ UNCHANGED <<full, EFQ, FEQ, FFQ, mp>> /\ lock' = [lock EXCEPT ![m] = NULL]
        /\ live' = live \ {m}
    BY Zenon, <1>26, <2>0 DEF RemoveDelete
  <2>3. Removable(m) /\ m \in Obj /\ lock[m] = t
    BY Zenon, <2>0, <2>1 DEF SettledInv, LockInv, HolderInv, Types
  <2>4. Settled(m)' /\ NoList(m)'
    BY Zenon, <2>2, <2>3 DEF Settled, Removable, NoList
  <2>5. \A o \in Obj : o # m =>
          /\ full'[o] = full[o] /\ EFQ'[o] = EFQ[o] /\ FEQ'[o] = FEQ[o] /\ FFQ'[o] = FFQ[o]
          /\ lock'[o] = lock[o]
          /\ lock[o] # NULL /\ pc[lock[o]] \in {"fill", "empty"} => pc'[lock[o]] = pc[lock[o]]
          /\ o \in live => o \in live'
    <3> SUFFICES ASSUME NEW o \in Obj, o # m
                 PROVE  /\ lock'[o] = lock[o]
                        /\ lock[o] # NULL /\ pc[lock[o]] \in {"fill", "empty"} => pc'[lock[o]] = pc[lock[o]]
      BY Zenon, <2>2
    <3>1. lock'[o] = lock[o] /\ (lock[o] # NULL => lock[o] \in Task)
      BY Zenon, <2>2 DEF Types
    <3> QED
      BY Zenon, <2>1, <3>1 DEF Others, Quiet
  <2>6. \A x \in Task : pc'[x] = "rdelete" =>
          pc[x] = "rdelete" /\ mp'[x] = mp[x] /\ mp[x] \in Obj /\ mp[x] # m
    <3> SUFFICES ASSUME NEW x \in Task, pc'[x] = "rdelete"
                 PROVE  pc[x] = "rdelete" /\ mp'[x] = mp[x] /\ mp[x] \in Obj /\ mp[x] # m
      BY Zenon
    <3>1. x # t /\ pc[x] = "rdelete" /\ mp'[x] = mp[x]
      BY Zenon, <2>1 DEF Others, Quiet
    <3>2. pc[x] \in HoldsM
      BY Zenon, <3>1 DEF HoldsM
    <3> QED
      BY Zenon, <2>0, <2>1, <3>1, <3>2, HolderUnique DEF LockInv, HolderInv, Types
  <2> QED
    BY Zenon, <2>3, <2>4, <2>5, <2>6, SettledFrame
<1>27. CASE UNCHANGED vars
  BY Zenon, <1>27 DEF SettledInv, Settled, Removable
<1> QED
  BY Zenon, <1>1, <1>2, <1>3, <1>4, <1>5, <1>6, <1>7, <1>8, <1>9, <1>10, <1>11, <1>12, <1>13, <1>14,
     <1>15, <1>16, <1>17, <1>18, <1>19, <1>20, <1>21, <1>22, <1>23, <1>24, <1>25, <1>26, <1>27
     DEF Next, Step, Master, Quiescent

-----------------------------------------------------------------------------
IInv == Types /\ LocalInv /\ LockInv /\ SettledInv

\* The invariant holds when the runtime has started.
LEMMA InitIInv == Init => IInv
<1> SUFFICES ASSUME Init PROVE IInv
  BY Zenon
<1>0. <<>> \in Seq(Addr) /\ <<>> \in Seq(Task)
  OBVIOUS
<1>1. Types
  <2>1. need \in [Task -> Seq(Addr)] /\ todo \in [Task -> Seq(Call)]
    BY Zenon, <1>0, ConstantsAssumption, ScriptAssumption DEF Init
  <2>2. pc \in [Task -> PCs] /\ tstate \in [Task -> TStates] /\ res \in [Task -> Results]
    BY Zenon DEF Init, PCs, TStates, Results
  <2>3. EFQ \in [Obj -> Seq(Task)] /\ FEQ \in [Obj -> Seq(Task)] /\ FFQ \in [Obj -> SUBSET Task]
    BY Zenon, <1>0 DEF Init
  <2>4. mem \in [Addr -> Val] /\ call \in [Task -> Call \cup {NoCall}]
    BY Zenon, NoCallType DEF Init
  <2> QED
    BY Zenon, <2>1, <2>2, <2>3, <2>4 DEF Init, Types
<1>2. pc \in [Task -> {"unborn", "idle"}]
  BY Zenon DEF Init
<1>3. LocalInv
  BY Zenon, <1>2 DEF LocalInv, Checking
<1>4. LockInv
  BY Zenon, <1>2 DEF Init, LockInv, TableInv, StripeInv, HolderInv, DeleteInv, HoldsM, HoldsHash
<1>5. SettledInv
  BY Zenon, <1>2 DEF Init, SettledInv, Settled, Removable
<1> QED
  BY Zenon, <1>1, <1>3, <1>4, <1>5 DEF IInv

\* The inductive invariant holds throughout.
THEOREM Inductive == Spec => []IInv
<1>1. IInv /\ [Next]_vars => IInv'
  BY Zenon, TypeStep, LocalStep, LockStep, SettledStep DEF IInv
<1> QED
  BY InitIInv, <1>1, PTL DEF Spec

\* A task that has a stripe's lock looks at the addrstat that the table holds.
LEMMA HashPointer ==
    ASSUME IInv, NEW t \in Task, pc[t] \in HoldsHash
    PROVE  mp[t] \in live
<1>1. Looked(t) \in Addr
  BY Zenon, LookedType DEF IInv
<1> QED
  BY Zenon, <1>1 DEF IInv, LockInv, StripeInv, TableInv

\* Every variable keeps its C type, and a pointer that the code follows points
\* to something, whatever the programs do.
THEOREM TypeCorrect == Spec => []TypeOK
<1>1. IInv => TypeOK
  <2> SUFFICES ASSUME IInv PROVE TypeOK
    BY Zenon
  <2>1. \A t \in Task : pc[t] \in HoldsM \cup HoldsHash => mp[t] \in Obj
    BY Zenon, HashPointer DEF IInv, Types, LockInv, HolderInv
  <2> QED
    BY Zenon, <2>1 DEF IInv, TypeOK, LocalInv
<1> QED
  BY Inductive, <1>1, PTL

\* Whenever nobody holds an addrstat's lock, nobody waits in its lists for a
\* state that it has: qthread_gotlock_fill_inner and _empty_inner strand no waiter.
THEOREM NoWaiterIsStranded == Spec => []NoStrandedWaiter
<1>1. IInv => NoStrandedWaiter
  BY Zenon DEF IInv, Types, SettledInv, NoStrandedWaiter
<1> QED
  BY Inductive, <1>1, PTL

\* No operation follows its pointer m after qthread_FEB_remove freed the addrstat.
THEOREM NoPointerDangles == Spec => []NoDanglingPointer
<1>1. IInv => NoDanglingPointer
  <2> SUFFICES ASSUME IInv PROVE NoDanglingPointer
    BY Zenon
  <2> QED
    BY Zenon, HashPointer DEF IInv, LockInv, HolderInv, TableInv, NoDanglingPointer
<1> QED
  BY Inductive, <1>1, PTL
=============================================================================
