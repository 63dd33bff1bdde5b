------------------------------ MODULE Syncvar ------------------------------
(***************************************************************************)
(* One syncvar_t (src/syncvar.c): a 64-bit word of a lock bit, a state of  *)
(* two bits (full/empty, waiters) and 60 bits of data.  Waiters are queued *)
(* in an addrstat found through a hash table; m->lock guards its queues.   *)
(* A task keeps m->lock when it blocks; the worker that it returns to      *)
(* (qthread_master) releases it.                                           *)
(***************************************************************************)
EXTENDS Naturals, Sequences, FiniteSets

CONSTANTS Task, Obj,        \* tasks, addrstats (from the memory pool)
          Scripts,          \* the programs: [Task -> Seq([op, a, v])]
          NULL

VARIABLES
    lk, full, wt, data,     \* lock holder, state and data of the word
    tab,                    \* the hash table's addrstat, or NULL
    mlock, EFQ, FEQ, FFQ,   \* of each addrstat; queues of [w: waiter, v: value]
    free,                   \* addrstats in the pool
    pc, call, script, res,  \* of each task
    mm,                     \* the local variable m
    seen                    \* history, as in FullEmpty; it changes nothing

word  == <<lk, full, wt, data>>
table == <<tab, mlock, EFQ, FEQ, FFQ, free>>
vars  == <<word, table, pc, call, script, res, mm>>
hvars == <<vars, seen>>

Init ==
    /\ lk = NULL /\ full = TRUE /\ wt = FALSE /\ data = "v0"
    /\ tab = NULL /\ mlock = [m \in Obj |-> NULL]
    /\ EFQ = [m \in Obj |-> <<>>] /\ FEQ = [m \in Obj |-> <<>>] /\ FFQ = [m \in Obj |-> <<>>]
    /\ free = Obj
    /\ pc = [t \in Task |-> "idle"] /\ call = [t \in Task |-> NULL]
    /\ script \in Scripts
    /\ res = [t \in Task |-> NULL] /\ mm = [t \in Task |-> NULL]

Op(t)      == call[t].op
Goto(t, l) == pc' = [pc EXCEPT ![t] = l] /\ UNCHANGED <<call, script, res>>
Return(S, r) ==
    /\ pc'  = [x \in Task |-> IF x \in S THEN "idle" ELSE pc[x]]
    /\ call' = [x \in Task |-> IF x \in S THEN NULL ELSE call[x]]
    /\ res' = [x \in Task |-> IF x \in S THEN r ELSE res[x]]
    /\ UNCHANGED script
Unlock(f, w, d) == lk' = NULL /\ full' = f /\ wt' = w /\ data' = d
Lists(m)   == Len(EFQ[m]) + Len(FEQ[m]) + Len(FFQ[m])

Fills(t)   == Op(t) \in {"fill", "writeF", "writeEF", "writeEF_nb"}
NewData(t) == IF Op(t) = "fill" THEN data ELSE call[t].v
Result(t)  == IF Op(t) \in {"readFF", "readFF_nb", "readFE", "readFE_nb"} THEN data
              ELSE IF Op(t) = "status" THEN (IF full THEN "FULL" ELSE "EMPTY") ELSE "SUCCESS"

-----------------------------------------------------------------------------

Invoke(t) ==
    /\ pc[t] = "idle" /\ script[t] # <<>>
    /\ call' = [call EXCEPT ![t] = Head(script[t])]
    /\ script' = [script EXCEPT ![t] = Tail(@)]
    /\ pc' = [pc EXCEPT ![t] = "call"]
    /\ UNCHANGED <<word, table, res, mm>>

\* The unlocked load of the whole word: full and unlocked is good enough.
optimistic(t) ==
    /\ pc[t] = "call" /\ lk = NULL
    /\ \/ Op(t) \in {"readFF", "readFF_nb"} /\ full
       \/ Op(t) = "status"
    /\ Return({t}, Result(t))
    /\ UNCHANGED <<word, table, mm>>

\* A state that the operation can act on at once.
Wanted(t) == IF Op(t) \in {"readFF_nb", "readFE_nb"} THEN full
             ELSE IF Op(t) = "writeEF_nb" THEN ~full ELSE TRUE

\* qthread_mwaitc: compare-and-swap of the lock bit.  The blocking calls first
\* spin for the state they want and then take any; the non-blocking ones give
\* up on another state or a lock that stays taken.
mwaitc(t) ==
    /\ pc[t] = "call"
    /\ \/ lk = NULL /\ Wanted(t) /\ lk' = t /\ Goto(t, "have")
       \/ /\ Op(t) \in {"readFF_nb", "readFE_nb", "writeEF_nb"}
          /\ \/ lk # NULL \/ ~Wanted(t)
             \/ \E x \in Task \ {t} : pc[x] = "call"   \* whose lock it may run into
          /\ Return({t}, "OPFAIL") /\ UNCHANGED lk
    /\ UNCHANGED <<full, wt, data, table, mm>>

\* The addrstat of the table, or a new one put into it.  (A new one's queues are empty: an
\* addrstat is given back only without waiters, see NoDeadAddrstat.)
Find(m) == \/ tab = m /\ tab # NULL /\ UNCHANGED <<tab, free>>
           \/ tab = NULL /\ m \in free /\ tab' = m /\ free' = free \ {m}

Push(q, m, t, v) == [q EXCEPT ![m] = <<[w |-> t, v |-> v]>> \o @]

\* The word is locked: what each operation does with it.
Has(t, op) == pc[t] = "have" /\ Op(t) = op
\* Nobody to wake: store the word unlocked and return.
Store(t, f, w, d) == Unlock(f, w, d) /\ Return({t}, Result(t)) /\ UNCHANGED <<table, mm>>
\* Waiters to serve: get their addrstat (assert(m)).
Release(t) == tab # NULL /\ mm' = [mm EXCEPT ![t] = tab] /\ Goto(t, "rel") /\ UNCHANGED <<word, table>>
\* Lock the addrstat m under the table's lock, unlock the word with the waiters bit set
\* and leave for the master; the caller queues itself.
Wait(t, m) ==
    /\ Find(m) /\ mlock[m] = NULL
    /\ mlock' = [mlock EXCEPT ![m] = t] /\ mm' = [mm EXCEPT ![t] = m]
    /\ Unlock(full, TRUE, data) /\ Goto(t, "park")

\* Mutant of readFE: the word is left full.
readFE_peeks(t) ==
    /\ Has(t, "readFE")
    /\ \/ ~full /\ \E m \in Obj : Wait(t, m) /\ FEQ' = Push(FEQ, m, t, NULL) /\ UNCHANGED <<EFQ, FFQ>>
       \/ full /\ wt /\ Release(t)
       \/ full /\ ~wt /\ Store(t, TRUE, FALSE, data)

readFE(t) ==
    /\ Has(t, "readFE")
    /\ \/ ~full /\ \E m \in Obj : Wait(t, m) /\ FEQ' = Push(FEQ, m, t, NULL) /\ UNCHANGED <<EFQ, FFQ>>
       \/ full /\ wt /\ Release(t)
       \/ full /\ ~wt /\ Store(t, FALSE, FALSE, data)

readFE_nb(t) ==
    /\ Has(t, "readFE_nb")
    /\ IF wt THEN Release(t) ELSE Store(t, FALSE, FALSE, data)

\* Mutant of writeEF: the waiters of an empty word are not released.
writeEF_alone(t) ==
    /\ Has(t, "writeEF")
    /\ \/ full /\ \E m \in Obj : Wait(t, m) /\ EFQ' = Push(EFQ, m, t, call[t].v) /\ UNCHANGED <<FEQ, FFQ>>
       \/ ~full /\ Store(t, TRUE, FALSE, call[t].v)

writeEF(t) ==
    /\ Has(t, "writeEF")
    /\ \/ full /\ \E m \in Obj : Wait(t, m) /\ EFQ' = Push(EFQ, m, t, call[t].v) /\ UNCHANGED <<FEQ, FFQ>>
       \/ ~full /\ wt /\ Release(t)
       \/ ~full /\ ~wt /\ Store(t, TRUE, FALSE, call[t].v)

writeEF_nb(t) ==
    /\ Has(t, "writeEF_nb")
    /\ IF wt THEN Release(t) ELSE Store(t, TRUE, FALSE, call[t].v)

\* readFF finds the addrstat without the table's lock and locks it in another step.
readFF(t) ==
    \/ Has(t, "readFF") /\ full /\ Store(t, full, wt, data)
    \/ /\ Has(t, "readFF") /\ ~full
       /\ \E m \in Obj : Find(m) /\ mm' = [mm EXCEPT ![t] = m]
       /\ Goto(t, "lockm")
       /\ UNCHANGED <<word, mlock, EFQ, FEQ, FFQ>>
    \/ /\ pc[t] = "lockm" /\ mlock[mm[t]] = NULL
       /\ mlock' = [mlock EXCEPT ![mm[t]] = t]
       /\ FFQ' = Push(FFQ, mm[t], t, NULL)
       /\ Unlock(full, TRUE, data) /\ Goto(t, "park")
       /\ UNCHANGED <<tab, free, mm, EFQ, FEQ>>

readFF_nb(t) == Has(t, "readFF_nb") /\ Store(t, full, wt, data)
status(t)    == Has(t, "status") /\ Store(t, full, wt, data)

fill(t) ==
    /\ Has(t, "fill")
    /\ IF ~full /\ wt THEN Release(t) ELSE Store(t, TRUE, wt, data)

empty(t) ==
    /\ Has(t, "empty")
    /\ IF full /\ wt THEN Release(t) ELSE Store(t, FALSE, wt, data)

\* writeF stores state 0 whatever the state was.
writeF(t) ==
    /\ Has(t, "writeF")
    /\ IF ~full /\ wt THEN Release(t) ELSE Store(t, TRUE, FALSE, call[t].v)

\* qthread_master, QTHREAD_STATE_FEB_BLOCKED
park(t) ==
    /\ pc[t] = "park"
    /\ mlock' = [mlock EXCEPT ![mm[t]] = NULL]
    /\ Goto(t, "blocked")
    /\ UNCHANGED <<word, tab, EFQ, FEQ, FFQ, free, mm>>

\* A releasing operation locks m; from here the outcome is decided.
lock_waiters(t) ==
    /\ pc[t] = "rel" /\ mlock[mm[t]] = NULL
    /\ mlock' = [mlock EXCEPT ![mm[t]] = t]
    /\ Goto(t, "give")
    /\ UNCHANGED <<word, tab, EFQ, FEQ, FFQ, free, mm>>

\* After the queues: unlock m; an addrstat without waiters is to be removed.
Finish(t, woken, left, r) ==
    /\ pc' = [x \in Task |-> IF x \in woken THEN "idle"
                             ELSE IF x = t THEN (IF left = 0 THEN "remove" ELSE "idle") ELSE pc[x]]
    /\ call' = [x \in Task |-> IF x \in woken \/ (x = t /\ left # 0) THEN NULL ELSE call[x]]
    /\ res' = [x \in Task |-> IF x \in woken THEN r ELSE IF x = t THEN Result(t) ELSE res[x]]
    /\ mlock' = [mlock EXCEPT ![mm[t]] = NULL]
    /\ UNCHANGED <<script, mm, tab, free>>

\* Everybody who waits to read, and one who waits to take.
gotlock_fill(t) ==
    /\ pc[t] = "give" /\ Fills(t)
    /\ LET m == mm[t]  taker == IF FEQ[m] = <<>> THEN {} ELSE {FEQ[m][1].w}
           readers == {FFQ[m][i].w : i \in DOMAIN FFQ[m]}
       IN  /\ FFQ' = [FFQ EXCEPT ![m] = <<>>]
           /\ FEQ' = [FEQ EXCEPT ![m] = IF @ = <<>> THEN @ ELSE Tail(@)]
           /\ Unlock(taker = {}, Len(FEQ[m]) > 1, NewData(t))
           /\ Finish(t, readers \cup taker, Lists(m) - Cardinality(readers \cup taker), NewData(t))
    /\ UNCHANGED EFQ

\* Mutant of gotlock_empty: the waiters bit stays set.
gotlock_empty_keeps_bit(t) ==
    /\ pc[t] = "give" /\ ~Fills(t) /\ EFQ[mm[t]] # <<>>
    /\ EFQ' = [EFQ EXCEPT ![mm[t]] = Tail(@)]
    /\ Unlock(TRUE, TRUE, EFQ[mm[t]][1].v)
    /\ Finish(t, {EFQ[mm[t]][1].w}, Lists(mm[t]) - 1, "SUCCESS")
    /\ UNCHANGED <<FEQ, FFQ>>

\* One who waits to write; the word stays full with that value.
gotlock_empty(t) ==
    /\ pc[t] = "give" /\ ~Fills(t) /\ EFQ[mm[t]] # <<>>
    /\ LET m == mm[t]
       IN  /\ EFQ' = [EFQ EXCEPT ![m] = Tail(@)]
           /\ Unlock(TRUE, Len(EFQ[m]) > 1, EFQ[m][1].v)
           /\ Finish(t, {EFQ[m][1].w}, Lists(m) - 1, "SUCCESS")
    /\ UNCHANGED <<FEQ, FFQ>>

\* Mutant of remove: the addrstat stays in the table.
remove_kept(t) ==
    \/ /\ pc[t] = "remove" /\ tab # NULL /\ mlock[tab] = NULL /\ Lists(tab) = 0
       /\ mlock' = [mlock EXCEPT ![tab] = t] /\ mm' = [mm EXCEPT ![t] = tab]
       /\ Goto(t, "delete")
       /\ UNCHANGED <<word, tab, EFQ, FEQ, FFQ, free>>
    \/ /\ pc[t] = "remove"
       /\ tab # NULL => mlock[tab] = NULL /\ Lists(tab) # 0
       /\ Return({t}, res[t])
       /\ UNCHANGED <<word, table, mm>>

\* qthread_syncvar_remove, under the table's lock: gone unless somebody has
\* queued in the meantime.
remove(t) ==
    \/ /\ pc[t] = "remove" /\ tab # NULL /\ mlock[tab] = NULL /\ Lists(tab) = 0
       /\ tab' = NULL /\ mlock' = [mlock EXCEPT ![tab] = t] /\ mm' = [mm EXCEPT ![t] = tab]
       /\ Goto(t, "delete")
       /\ UNCHANGED <<word, EFQ, FEQ, FFQ, free>>
    \/ /\ pc[t] = "remove"
       /\ tab # NULL => mlock[tab] = NULL /\ Lists(tab) # 0
       /\ Return({t}, res[t])
       /\ UNCHANGED <<word, table, mm>>

delete(t) ==
    /\ pc[t] = "delete"
    /\ mlock' = [mlock EXCEPT ![mm[t]] = NULL] /\ free' = free \cup {mm[t]}
    /\ Return({t}, res[t])
    /\ UNCHANGED <<word, tab, EFQ, FEQ, FFQ, mm>>

Step(t) ==
    \/ Invoke(t) \/ optimistic(t) \/ mwaitc(t) \/ readFE(t) \/ readFE_nb(t) \/ writeEF(t) \/ writeEF_nb(t)
    \/ readFF(t) \/ readFF_nb(t) \/ status(t) \/ fill(t) \/ empty(t) \/ writeF(t)
    \/ park(t) \/ lock_waiters(t) \/ gotlock_fill(t) \/ gotlock_empty(t) \/ remove(t) \/ delete(t)
Next == \E t \in Task : Step(t)
Spec == Init /\ [][Next]_vars

-----------------------------------------------------------------------------

(* Syncvars implement the contract of full/empty words, FullEmpty: an       *)
(* operation takes effect when it changes the word, or when it holds the   *)
(* addrstat's lock with waiters to serve.                                  *)

Pending(t) == IF pc[t] \in {"call", "have", "rel", "lockm", "park", "blocked"} THEN call[t] ELSE NULL
Giver == {t \in Task : pc[t] = "give"}
Bit  == IF Giver = {} THEN full ELSE \E t \in Giver : Fills(t)
Word == IF \E t \in Giver : Fills(t) THEN NewData(CHOOSE t \in Giver : TRUE) ELSE data

Addr == {"a"}
Val == {"v0", "v1", "v2"}
Cells == INSTANCE FullEmpty WITH
    word <- [a \in Addr |-> Word],
    bit <- [a \in Addr |-> Bit],
    pending <- [t \in Task |-> Pending(t)],
    out <- [t \in Task |-> IF pc[t] = "give" THEN Result(t) ELSE res[t]]

HInit == Init /\ seen = [t \in Task |-> {}]
HStep(t) == Step(t) /\ Cells!Observe
HNext == \E t \in Task : HStep(t)

-----------------------------------------------------------------------------

\* A non-blocking operation may also give up because the word is locked.
GiveUp == \E t \in Task :
    /\ Cells!Is(t, {"readFF_nb", "readFE_nb", "writeEF_nb"})
    /\ Cells!Done({t}) /\ Cells!Out({t}, "OPFAIL") /\ Cells!Observe
    /\ UNCHANGED <<Word, Bit>>
Atomically == Cells!Next \/ GiveUp

Queued(m) == {EFQ[m][i].w : i \in DOMAIN EFQ[m]} \cup {FEQ[m][i].w : i \in DOMAIN FEQ[m]}
             \cup {FFQ[m][i].w : i \in DOMAIN FFQ[m]}

\* Nobody waits where no releaser will look: a blocked task is queued in the addrstat
\* that the table holds, and the waiters bit says so whenever the word is unlocked
\* (qthread_syncvar_remove races with new waiters).
NoLostWaiter ==
    \A t \in Task : pc[t] \in {"blocked", "park"} =>
        /\ tab # NULL /\ t \in Queued(tab)
        /\ lk = NULL => wt

\* No task holds or waits for the lock of an addrstat that has been given back to the
\* pool: "locking the hash table is unnecessary because we have locked the syncvar itself"
\* (lines 407, 523, 574, ...), although qthread_syncvar_remove runs without the syncvar.
NoDeadAddrstat == \A t \in Task : pc[t] \in {"lockm", "rel", "give", "park"} => mm[t] \notin free

\* The assertions of the releasing operations (lines 528, 537-538, 576-579, 671-674,
\* 926-935, 1015-1018): there is an addrstat, and the waiters in it are the ones that the
\* state announced, "someone snuck in!" otherwise.
AssertsHold ==
    \A t \in Task :
        /\ lk = NULL /\ wt => tab # NULL
        /\ pc[t] = "give" =>
             IF Fills(t) THEN (FFQ[mm[t]] # <<>> \/ FEQ[mm[t]] # <<>>) /\ EFQ[mm[t]] = <<>>
                         ELSE EFQ[mm[t]] # <<>> /\ FFQ[mm[t]] = <<>> /\ FEQ[mm[t]] = <<>>

\* Every call of a balanced program returns: no wakeup is lost between the word, the
\* addrstat and the table.
Returned == \A t \in Task : pc[t] = "idle" /\ script[t] = <<>>
=============================================================================
