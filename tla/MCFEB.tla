------------------------------- MODULE MCFEB -------------------------------
(***************************************************************************)
(* Small instances of FEB, and the statement that FEB implements FullEmpty.*)
(* An operation takes effect in the step in which the task holding the     *)
(* addrstat's lock decides its outcome: from then on that task only has    *)
(* the bit left to store ("fill" or "empty").                              *)
(***************************************************************************)
EXTENDS FEB, TLC

CONSTANTS Main,      \* a task that makes two calls or more; the others make one or two
          Nascent1   \* the task that is spawned with preconditions in some programs

VARIABLES seen,      \* history, as in FullEmpty; it changes nothing
          refused    \* history: some call was refused for lack of memory

-----------------------------------------------------------------------------
(* The refinement.                                                         *)

\* The bit of an address, as the holder of its addrstat's lock has decided it.
Bit(a) ==
    LET m == table[a] IN
    IF m = NULL THEN TRUE
    ELSE IF lock[m] = NULL THEN full[m]
    ELSE IF pc[lock[m]] = "fill" THEN TRUE
    ELSE IF pc[lock[m]] = "empty" THEN FALSE
    ELSE full[m]

\* A call is pending until its outcome is decided.
Pending(t) ==
    IF \/ pc[t] \in {"hash", "mlock", "body", "nom"}
       \/ pc[t] \in {"switch", "blocked"} /\ tstate[t] = "FEB_BLOCKED"
    THEN call[t] ELSE NULL

Cells == INSTANCE FullEmpty WITH
    word <- mem,
    bit <- [a \in Addr |-> Bit(a)],
    pending <- [t \in Task |-> Pending(t)],
    out <- res

HInit == Init /\ seen = [t \in Task |-> {}] /\ refused = FALSE
HNext == /\ Next
         /\ Cells!Observe
         /\ refused' = (refused \/ \E t \in Task : res'[t] = MALLOC_ERROR)
HSpec == HInit /\ [][HNext]_<<vars, seen, refused>>
HFairSpec == HSpec /\ Fairness

-----------------------------------------------------------------------------
(* Programs.  Main stores a value of its own.                              *)

a0 == "a0"
a1 == "a1"
OneStripe == [a \in Addr |-> CHOOSE s \in Stripe : TRUE]
PrecondsOfNascent == [t \in Task |-> IF t = Nascent1 THEN <<a0, a1>> ELSE <<>>]

On(op, a)   == [op |-> op, a |-> a, v |-> "v2", n |-> NULL]
C(op)       == On(op, a0)
Mains(q)    == [i \in DOMAIN q |-> [q[i] EXCEPT !.v = "v1"]]
Spawn1      == [op |-> "spawn", a |-> a0, v |-> "v2", n |-> Nascent1]
Filler      == CHOOSE t \in Task : t \notin {Main, Nascent1}
Run(x, y, z) == [t \in Task |-> IF t = Main THEN Mains(x) ELSE IF t = Filler THEN y ELSE z]

Blocking    == {C("readFE"), C("writeEF"), C("empty"), C("readFF")}
NonBlocking == {C("readFE_nb"), C("writeEF_nb"), C("readFF_nb"), C("status"), C("fill")}

\* The blocking operations, which make the lists of waiters matter, and all but
\* writeF for two tasks.
BlockingPrograms == {Run(<<a, b>>, <<c>>, <<d>>) :
                        a \in Blocking, b \in Blocking, c \in Blocking, d \in Blocking}
AllPrograms == {Run(<<a, b>>, <<c>>, <<>>) :
                   a \in Blocking, b \in NonBlocking, c \in Blocking \cup NonBlocking}

\* Main empties both addresses and spawns a task that waits for them; another
\* task fills them, one of them possibly emptied once more.
PrecondPrograms ==
    {Run(<<On("empty", a0), On("empty", a1), Spawn1>>,
         <<On("fill", x), On(op, x), On("fill", y)>>,
         <<On("readFE", a)>>) :
       a \in Addr, x \in Addr, y \in Addr, op \in {"empty", "readFF", "writeEF"}}

\* Two addresses that share a stripe.
TwoAddresses == {Run(<<On(x, a0), On(y, a1)>>, <<On(z, a1)>>, <<>>) :
                    x \in {"readFE", "writeEF", "empty"}, y \in {"readFE", "empty"},
                    z \in {"readFE", "writeEF", "readFF"}}

SafePrograms == BlockingPrograms \cup AllPrograms \cup PrecondPrograms \cup TwoAddresses

Perms == Permutations(Worker) \cup Permutations(Obj)

\* Programs whose puts and takes match: a word used as a lock, one producer and
\* two consumers, readers of a word that is filled again, all at once; and a task
\* with two preconditions, one of them also used as a lock by another.
Locked == <<C("readFE"), C("fill")>>
Other(a) == IF a = a0 THEN a1 ELSE a0
MatchedPrograms ==
    {Run(Locked, Locked, Locked),
     Run(<<C("empty"), C("writeEF"), C("writeEF")>>, <<C("readFE")>>, <<C("readFE")>>),
     Run(<<C("empty"), C("fill")>>, <<C("readFF")>>, <<C("readFF")>>),
     Run(<<C("empty"), C("fill")>>, <<C("readFF")>>, Locked)}
    \cup {Run(<<On("empty", a0), On("empty", a1), Spawn1, On("fill", x), On("fill", Other(x))>>,
              <<On("readFE", a1), On("fill", a1)>>, <<On("readFF", a0)>>) : x \in Addr}

\* writeF and the taking read.
WriteFPrograms == {Run(<<x, y>>, <<z>>, <<>>) :
                      x \in {C("readFE"), C("writeF")}, y \in {C("readFE"), C("writeF")},
                      z \in {C("readFE"), C("writeF")}}

-----------------------------------------------------------------------------

\* Every FEB operation is atomic: the blocking and non-blocking puts and takes,
\* fill, empty and status take effect at one moment of their call, and readFF
\* returns a value the word had while full during its call, although it may
\* copy the word holding no lock (qthread_readFF with m == NULL).
OperationsAreAtomic == Cells!Spec

\* Unless a call was refused for lack of memory, the table holds no addrstat that is
\* full and has no waiters once nothing runs: whichever of the racing operations was
\* the last removed it (qthread_FEB_remove).
NoLeftovers ==
    (~refused /\ ready = {} /\ \A w \in Worker : on[w] = NULL) =>
        \A a \in Addr : table[a] # NULL => ~Removable(table[a])

\* Every call of a program whose puts and takes match returns: all tasks end.
Terminates == <>(\A t \in Task : pc[t] = "done")
=============================================================================
