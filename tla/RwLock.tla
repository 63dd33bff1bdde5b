------------------------------- MODULE RwLock -------------------------------
(***************************************************************************)
(* The reader-writer lock of include/56reader-rwlock.h: a flag for each    *)
(* reader, and the owner, a writer.  A writer that owns the lock waits for *)
(* the flags of the readers, eight at a time.                              *)
(***************************************************************************)
EXTENDS Naturals, FiniteSets, TLAPS

CONSTANTS Proc,        \* workers; each of them may read and write
          Group,       \* sets of workers whose flags share a word
          NULL

\* No thread is NULL, and every thread has its flag in one of the words.
ProcAssumption == NULL \notin Proc /\ UNION Group = Proc

VARIABLES owner, readers,
          pc,
          seen         \* the groups whose flags the owner has found down
vars == <<owner, readers, pc, seen>>

Init ==
    /\ owner = NULL /\ readers = [x \in Proc |-> FALSE]
    /\ pc = [x \in Proc |-> "idle"] /\ seen = {}

\* rwlock_rdlock: raise the flag, ...
rdlock(x) ==
    /\ pc[x] = "idle" /\ readers' = [readers EXCEPT ![x] = TRUE] /\ pc' = [pc EXCEPT ![x] = "flag"]
    /\ UNCHANGED <<owner, seen>>

\* Mutant of rdcheck: the owner is not looked at.
rdcheck_not(x) ==
    /\ pc[x] = "flag" /\ pc' = [pc EXCEPT ![x] = "read"] /\ UNCHANGED <<owner, readers, seen>>

\* ... then look for an owner; if there is one, lower the flag and wait until it is gone.
rdcheck(x) ==
    /\ pc[x] = "flag" /\ pc' = [pc EXCEPT ![x] = IF owner = NULL THEN "read" ELSE "back"]
    /\ UNCHANGED <<owner, readers, seen>>

rdback(x) ==
    /\ pc[x] = "back" /\ readers' = [readers EXCEPT ![x] = FALSE] /\ pc' = [pc EXCEPT ![x] = "wait"]
    /\ UNCHANGED <<owner, seen>>
rdwait(x) ==
    /\ pc[x] = "wait" /\ owner = NULL /\ readers' = [readers EXCEPT ![x] = TRUE]
    /\ pc' = [pc EXCEPT ![x] = "flag"] /\ UNCHANGED <<owner, seen>>

\* rwlock_rdunlock
rdunlock(x) ==
    /\ pc[x] = "read" /\ readers' = [readers EXCEPT ![x] = FALSE] /\ pc' = [pc EXCEPT ![x] = "idle"]
    /\ UNCHANGED <<owner, seen>>

\* rwlock_wrlock: become the owner (compare-and-swap), ...
wrlock(x) ==
    /\ pc[x] = "idle" /\ pc' = [pc EXCEPT ![x] = "claim"] /\ UNCHANGED <<owner, readers, seen>>
wrclaim(x) ==
    /\ pc[x] = "claim" /\ owner = NULL /\ owner' = x /\ seen' = {}
    /\ pc' = [pc EXCEPT ![x] = "scan"] /\ UNCHANGED readers

\* ... then wait for one word of flags after the other.
wrscan(x, g) ==
    /\ pc[x] = "scan" /\ g \in Group \ seen /\ \A y \in g : ~readers[y]
    /\ seen' = seen \cup {g} /\ UNCHANGED <<owner, readers, pc>>

\* Mutant of wrenter: the flags are looked at once more, and again.
wrenter(x) ==
    /\ pc[x] = "scan" /\ seen = Group /\ pc' = [pc EXCEPT ![x] = "write"]
    /\ UNCHANGED <<owner, readers, seen>>

\* rwlock_wrunlock
wrunlock(x) ==
    /\ pc[x] = "write" /\ owner' = NULL /\ pc' = [pc EXCEPT ![x] = "idle"]
    /\ UNCHANGED <<readers, seen>>

Reader(x) == rdcheck(x) \/ rdback(x) \/ rdwait(x) \/ rdunlock(x)
Writer(x) == wrclaim(x) \/ (\E g \in Group : wrscan(x, g)) \/ wrenter(x) \/ wrunlock(x)
Next == \E x \in Proc : rdlock(x) \/ wrlock(x) \/ Reader(x) \/ Writer(x)
Spec == Init /\ [][Next]_vars

-----------------------------------------------------------------------------
TypeOK ==
    /\ owner \in Proc \cup {NULL} /\ readers \in [Proc -> BOOLEAN] /\ seen \subseteq Group
    /\ pc \in [Proc -> {"idle", "flag", "back", "wait", "read", "claim", "scan", "write"}]

\* While one thread writes nobody else reads or writes, although readers raise their
\* flags at any time, also behind a writer that has already looked at them.
Exclusion == \A x, y \in Proc : x # y /\ pc[x] = "write" => pc[y] \notin {"read", "write"}

\* The owner is the thread that scans or writes; a reader's flag is up; and a group that
\* the owner has found down has no reader that got in.
Inv ==
    /\ \A x \in Proc : pc[x] \in {"scan", "write"} <=> owner = x
    /\ \A x \in Proc : pc[x] \in {"flag", "read", "back"} => readers[x]
    /\ owner # NULL => \A g \in seen : \A y \in g : pc[y] # "read"
    /\ \A x \in Proc : pc[x] = "write" => seen = Group

-----------------------------------------------------------------------------
(* Mutual exclusion for any number of threads and any grouping of flags.   *)

\* What is shown to be inductive.
IInv == TypeOK /\ Inv

\* The initial state satisfies the invariant (rwlock_init).
LEMMA InitInv == ASSUME ProcAssumption PROVE Init => IInv
  BY DEF ProcAssumption, Init, IInv, TypeOK, Inv

\* The steps of a reader keep it: a reader gets in only when there is no owner.
LEMMA ReaderInv == ASSUME ProcAssumption, IInv, NEW x \in Proc, rdlock(x) \/ Reader(x) PROVE IInv'
  <1>1. CASE rdlock(x)
    BY <1>1 DEF ProcAssumption, IInv, TypeOK, Inv, rdlock
  <1>2. CASE rdcheck(x)
    BY <1>2 DEF ProcAssumption, IInv, TypeOK, Inv, rdcheck
  <1>3. CASE rdback(x)
    BY <1>3 DEF ProcAssumption, IInv, TypeOK, Inv, rdback
  <1>4. CASE rdwait(x)
    BY <1>4 DEF ProcAssumption, IInv, TypeOK, Inv, rdwait
  <1>5. CASE rdunlock(x)
    BY <1>5 DEF ProcAssumption, IInv, TypeOK, Inv, rdunlock
  <1>. QED BY <1>1, <1>2, <1>3, <1>4, <1>5 DEF Reader

\* The steps of a writer keep it: a group is noted when no flag in it is up.
LEMMA WriterInv == ASSUME ProcAssumption, IInv, NEW x \in Proc, wrlock(x) \/ Writer(x) PROVE IInv'
  <1>1. CASE wrlock(x)
    BY <1>1 DEF ProcAssumption, IInv, TypeOK, Inv, wrlock
  <1>2. CASE wrclaim(x)
    BY <1>2 DEF ProcAssumption, IInv, TypeOK, Inv, wrclaim
  <1>3. ASSUME NEW g \in Group, wrscan(x, g) PROVE IInv'
    BY <1>3 DEF ProcAssumption, IInv, TypeOK, Inv, wrscan
  <1>4. CASE wrenter(x)
    BY <1>4 DEF ProcAssumption, IInv, TypeOK, Inv, wrenter
  <1>5. CASE wrunlock(x)
    BY <1>5 DEF ProcAssumption, IInv, TypeOK, Inv, wrunlock
  <1>. QED BY <1>1, <1>2, <1>3, <1>4, <1>5 DEF Writer

\* Every step keeps it.
LEMMA NextInv == ASSUME ProcAssumption, IInv, [Next]_vars PROVE IInv'
  <1>1. CASE UNCHANGED vars
    BY <1>1 DEF vars, IInv, TypeOK, Inv
  <1>2. CASE Next
    BY <1>2, ReaderInv, WriterInv DEF Next
  <1>. QED BY <1>1, <1>2

\* While a thread writes nobody else reads or writes (rwlock_wrlock, rwlock_rdlock), for any
\* set of threads.
THEOREM RwLockExclusion == ASSUME ProcAssumption PROVE Spec => []Exclusion
  <1>1. Init => IInv
    BY InitInv
  <1>2. IInv /\ [Next]_vars => IInv'
    BY NextInv
  <1>3. IInv => Exclusion
    BY DEF ProcAssumption, IInv, TypeOK, Inv, Exclusion
  <1>. QED BY <1>1, <1>2, <1>3, PTL DEF Spec
==============================================================================
