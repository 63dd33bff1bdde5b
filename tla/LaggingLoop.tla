---------------------------- MODULE LaggingLoop ----------------------------
(***************************************************************************)
(* The reductions of src/qutil.c (qutil_uint_sum, qutil_double_max, ...):  *)
(* a task per chunk of the array reduces its elements, then waits for the  *)
(* sentinel of the chunk before it, adds that chunk's result and frees its *)
(* argument; the caller does the same for the last, shorter chunk.  With   *)
(* checkfeb every element is read when it is full.                         *)
(*                                                                         *)
(* A value is the bag of elements it combines.  The syncvars are the       *)
(* sentinels; memory is `args', one record per chunk, from calloc to FREE. *)
(***************************************************************************)
EXTENDS Integers

CONSTANTS Length, Chunk   \* MT_LOOP_CHUNK
Elems == 0..(Length - 1)
Chunks == 1..((Length - 1) \div Chunk)   \* while (start + Chunk < length)

VARIABLES checkfeb,
          state,     \* "unborn", "live", "freed": the argument of a chunk
          sentinel,  \* full?
          ret,       \* the value in the argument
          pc, i,     \* tasks and caller; the next element to read
          start, myret,
          fullelem   \* elements that are full
vars == <<checkfeb, state, sentinel, ret, pc, i, start, myret, fullelem>>

None == [x \in Elems |-> 0]
Add(v, x) == [v EXCEPT ![x] = @ + 1]
Plus(a, b) == [x \in Elems |-> a[x] + b[x]]
Readable(x) == ~checkfeb \/ x \in fullelem

Init == /\ checkfeb \in BOOLEAN
        /\ state = [c \in Chunks |-> "unborn"]
        /\ sentinel = [c \in Chunks |-> TRUE]
        /\ ret = [c \in Chunks |-> None]
        /\ pc = [c \in Chunks |-> "none"]
        /\ i = [c \in Chunks |-> (c - 1) * Chunk]
        /\ start = 0 /\ myret = None
        /\ fullelem = IF checkfeb THEN {} ELSE Elems

\* A producer fills an element.
produce(x) == /\ x \notin fullelem
              /\ fullelem' = fullelem \cup {x}
              /\ UNCHANGED <<checkfeb, state, sentinel, ret, pc, i, start, myret>>

\* The next chunk's task: its sentinel is emptied before it is forked.
fork(c) == /\ state[c] = "unborn" /\ c = start \div Chunk + 1 /\ start + Chunk < Length
           /\ state' = [state EXCEPT ![c] = "live"]
           /\ sentinel' = [sentinel EXCEPT ![c] = FALSE]
           /\ pc' = [pc EXCEPT ![c] = "loop"]
           /\ start' = start + Chunk
           /\ UNCHANGED <<checkfeb, ret, i, myret, fullelem>>

\* INNER_LOOP and INNER_LOOP_FF: one element.
inner(c) == /\ pc[c] = "loop" /\ i[c] < c * Chunk /\ ~checkfeb
            /\ ret' = [ret EXCEPT ![c] = Add(@, i[c])]
            /\ i' = [i EXCEPT ![c] = @ + 1]
            /\ UNCHANGED <<checkfeb, state, sentinel, pc, start, myret, fullelem>>
inner_FF(c) == /\ pc[c] = "loop" /\ i[c] < c * Chunk /\ checkfeb
               /\ i[c] \in fullelem
               /\ ret' = [ret EXCEPT ![c] = Add(@, i[c])]
               /\ i' = [i EXCEPT ![c] = @ + 1]
               /\ UNCHANGED <<checkfeb, state, sentinel, pc, start, myret, fullelem>>
addlast(c) == /\ pc[c] = "loop" /\ i[c] = c * Chunk
              /\ IF c > 1
                 THEN /\ sentinel[c - 1]
                      /\ ret' = [ret EXCEPT ![c] = Plus(@, ret[c - 1])]
                      /\ state' = [state EXCEPT ![c - 1] = "freed"]
                 ELSE UNCHANGED <<ret, state>>
              /\ pc' = [pc EXCEPT ![c] = "fill"]
              /\ UNCHANGED <<checkfeb, sentinel, i, start, myret, fullelem>>
fill(c) == /\ pc[c] = "fill"
           /\ sentinel' = [sentinel EXCEPT ![c] = TRUE]
           /\ pc' = [pc EXCEPT ![c] = "done"]
           /\ UNCHANGED <<checkfeb, state, ret, i, start, myret, fullelem>>

\* The rest of OUTER_LOOP: the caller's own elements, then the last chunk.
Mine == {x \in Elems : x >= start}
Read == {x \in Elems : myret[x] > 0 /\ x >= start}
outer(x) == /\ start + Chunk >= Length
            /\ x \in Mine \ Read /\ \A y \in Mine \ Read : x <= y
            /\ Readable(x)
            /\ myret' = Add(myret, x)
            /\ UNCHANGED <<checkfeb, state, sentinel, ret, pc, i, start, fullelem>>
Final == start \div Chunk
Returned == Mine = Read /\ start + Chunk >= Length /\ (Chunks # {} => state[Final] = "freed")
outer_last == /\ start + Chunk >= Length /\ Mine = Read /\ Chunks # {} /\ state[Final] = "live"
              /\ sentinel[Final]
              /\ myret' = Plus(myret, ret[Final])
              /\ state' = [state EXCEPT ![Final] = "freed"]
              /\ UNCHANGED <<checkfeb, sentinel, ret, pc, i, start, fullelem>>

Task(c) == inner(c) \/ inner_FF(c) \/ addlast(c) \/ fill(c)
Call == outer_last \/ (\E c \in Chunks : fork(c)) \/ \E x \in Elems : outer(x)
Next == Call \/ (\E c \in Chunks : Task(c)) \/ \E x \in Elems : produce(x)
Spec == Init /\ [][Next]_vars

---------------------------------------------------------------------------
(* Properties.                                                             *)

(* "The sum of the first length entries": when the call returns its value  *)
(* combines every element once.                                            *)
EveryElementOnce == Returned => myret = [x \in Elems |-> 1]

(* The argument of a chunk, with the sentinel in it, is freed by the next  *)
(* chunk only after its own task has done everything.                      *)
FreedAfterUse == \A c \in Chunks : state[c] = "freed" => pc[c] = "done"

\* The reduction has returned and every argument has been freed.
Rested == Returned /\ \A c \in Chunks : state[c] = "freed"
=============================================================================
