----------------------------- MODULE FullEmpty -----------------------------
(***************************************************************************)
(* What full/empty-bit operations promise (include/qthread/qthread.h and   *)
(* the manual pages of the FEB functions): every word has one bit, and     *)
(* every operation takes effect atomically at a moment between its call    *)
(* and its return.  The blocking read readFF and its non-blocking form     *)
(* promise a value that the word had while full during the call.           *)
(***************************************************************************)
EXTENDS Naturals

CONSTANTS Task, Addr, Val, NULL

VARIABLES
    word, bit,     \* the memory words and their full/empty bits
    pending,       \* the operation a task has called and that has not happened yet
    out,           \* the result of a task's last operation
    seen           \* the values a task's word has had while full during its call

vars == <<word, bit, pending, out, seen>>

Is(t, ops) == pending[t] # NULL /\ pending[t].op \in ops
A(t) == pending[t].a

\* Bookkeeping at the end of every step.
Observe ==
    seen' = [t \in Task |->
                IF pending'[t] = NULL THEN {}
                ELSE (IF pending[t] = NULL THEN {} ELSE seen[t])
                     \cup (IF bit'[pending'[t].a] THEN {word'[pending'[t].a]} ELSE {})]

Done(S) == pending' = [x \in Task |-> IF x \in S THEN NULL ELSE pending[x]]
Out(S, r) == out' = [x \in Task |-> IF x \in S THEN r ELSE out[x]]

Invoke(t, c) ==
    /\ pending[t] = NULL
    /\ pending' = [pending EXCEPT ![t] = c]
    /\ UNCHANGED <<word, bit, out>>

Take(t) ==
    /\ Is(t, {"readFE", "readFE_nb"}) /\ bit[A(t)]
    /\ bit' = [bit EXCEPT ![A(t)] = FALSE]
    /\ Done({t}) /\ Out({t}, word[A(t)])
    /\ UNCHANGED word

Put(t) ==
    /\ Is(t, {"writeEF", "writeEF_nb"}) /\ ~bit[A(t)]
    /\ bit' = [bit EXCEPT ![A(t)] = TRUE]
    /\ word' = [word EXCEPT ![A(t)] = pending[t].v]
    /\ Done({t}) /\ Out({t}, "SUCCESS")

Overwrite(t) ==
    /\ Is(t, {"writeF"})
    /\ bit' = [bit EXCEPT ![A(t)] = TRUE]
    /\ word' = [word EXCEPT ![A(t)] = pending[t].v]
    /\ Done({t}) /\ Out({t}, "SUCCESS")

SetBit(t) ==
    /\ Is(t, {"fill", "empty"})
    /\ bit' = [bit EXCEPT ![A(t)] = (pending[t].op = "fill")]
    /\ Done({t}) /\ Out({t}, "SUCCESS")
    /\ UNCHANGED word

Read(t) ==
    /\ Is(t, {"readFF", "readFF_nb"})
    /\ \E v \in seen[t] : Out({t}, v)
    /\ Done({t})
    /\ UNCHANGED <<word, bit>>

\* A full word served to a group of waiting readers, and then taken by one more.
Serve(a, S, taker) ==
    /\ bit[a]
    /\ \A x \in S : Is(x, {"readFF"}) /\ A(x) = a
    /\ \A x \in taker : Is(x, {"readFE"}) /\ A(x) = a
    /\ bit' = [bit EXCEPT ![a] = (taker = {})]
    /\ Done(S \cup taker) /\ Out(S \cup taker, word[a])
    /\ UNCHANGED word

\* A non-blocking operation that found the bit in the wrong state.
Fail(t) ==
    /\ \/ Is(t, {"readFE_nb", "readFF_nb"}) /\ ~bit[A(t)]
       \/ Is(t, {"writeEF_nb"}) /\ bit[A(t)]
    /\ Done({t}) /\ Out({t}, "OPFAIL")
    /\ UNCHANGED <<word, bit>>

\* An operation for which the library has no memory is refused, and has no effect.
Refuse(t) ==
    /\ Is(t, {"readFE", "readFE_nb", "readFF", "writeEF", "empty"})
    /\ Done({t}) /\ Out({t}, "MALLOC_ERROR")
    /\ UNCHANGED <<word, bit>>

Status(t) ==
    /\ Is(t, {"status"})
    /\ Done({t}) /\ Out({t}, IF bit[A(t)] THEN "FULL" ELSE "EMPTY")
    /\ UNCHANGED <<word, bit>>

Init ==
    /\ word \in [Addr -> Val]
    /\ bit = [a \in Addr |-> TRUE]
    /\ pending = [t \in Task |-> NULL]
    /\ out = [t \in Task |-> NULL]
    /\ seen = [t \in Task |-> {}]

Next ==
    /\ \/ \E t \in Task :
            \/ Take(t) \/ Put(t) \/ Overwrite(t) \/ SetBit(t) \/ Read(t)
            \/ Fail(t) \/ Refuse(t) \/ Status(t)
            \/ pending'[t] # NULL /\ Invoke(t, pending'[t])
       \/ \E a \in Addr, S \in SUBSET Task : \E T \in {{}} \cup {{x} : x \in Task \ S} :
            Serve(a, S, T)
    /\ Observe

Spec == Init /\ [][Next]_vars
=============================================================================
