----------------------------- MODULE Mergesort -----------------------------
(***************************************************************************)
(* qutil_mergesort of src/qutil.c: chunks are sorted by tasks that run the *)
(* non-recursive drf_qsort, then neighbours are merged in place, by a task *)
(* per pair, in rounds of doubling size.                                   *)
(***************************************************************************)
EXTENDS Integers, Sequences, FiniteSets

CONSTANTS Inputs, Chunksize   \* 10 in the code
VARIABLES input, array, pc, chunksize, tasks, deepest
vars == <<input, array, pc, chunksize, tasks, deepest>>
Length == Len(input)

---------------------------------------------------------------------------
(* drf_qsort_dbl and drf_qsort_algt on a[lo .. lo+n-1].  A state has the   *)
(* array a, the stacks beg and end with their top i, and the deepest top   *)
(* so far.  Stack slots are numbers relative to lo.                        *)

RECURSIVE QT_INT_LOG(_)
QT_INT_LOG(v) == IF v <= 1 THEN v - 1 ELSE 1 + QT_INT_LOG(v \div 2)

\* The hole moves between the walls until they meet.
RECURSIVE Walls(_, _, _, _, _)
Walls(a, lo, L, R, piv) ==
    IF L >= R THEN [a |-> [a EXCEPT ![lo + L] = piv], L |-> L]
    ELSE LET r == CHOOSE x \in L..R : (x = L \/ a[lo + x] < piv) /\ \A y \in (x + 1)..R : a[lo + y] >= piv
             b == IF L < r THEN [a EXCEPT ![lo + L] = a[lo + r]] ELSE a
             l0 == IF L < r THEN L + 1 ELSE L
             l == CHOOSE x \in l0..r : (x = r \/ b[lo + x] > piv) /\ \A y \in l0..(x - 1) : b[lo + y] <= piv
             c == IF l < r THEN [b EXCEPT ![lo + r] = b[lo + l]] ELSE b
         IN  Walls(c, lo, l, IF l < r THEN r - 1 ELSE r, piv)

\* The larger part stays below the smaller one.
Push_any(beg, end, i, L) == [beg |-> [beg EXCEPT ![i + 1] = L + 1], end |-> [end EXCEPT ![i + 1] = end[i], ![i] = L]]
Push(beg, end, i, L) ==
    IF end[i] - (L + 1) > L - beg[i]
    THEN [beg |-> [beg EXCEPT ![i] = L + 1, ![i + 1] = beg[i]], end |-> [end EXCEPT ![i + 1] = L]]
    ELSE [beg |-> [beg EXCEPT ![i + 1] = L + 1], end |-> [end EXCEPT ![i + 1] = end[i], ![i] = L]]
RECURSIVE DrfLoop(_, _, _, _, _, _)
DrfLoop(a, lo, beg, end, i, deep) ==
    IF i < 0 THEN [a |-> a, deep |-> deep]
    ELSE IF beg[i] >= end[i] - 1 THEN DrfLoop(a, lo, beg, end, i - 1, deep)
    ELSE LET w == Walls(a, lo, beg[i], end[i] - 1, a[lo + beg[i]])
             p == Push(beg, end, i, w.L)
         IN  DrfLoop(w.a, lo, p.beg, p.end, i + 1, IF i + 1 > deep THEN i + 1 ELSE deep)
drf_qsort_dbl(a, lo, n) == DrfLoop(a, lo, [k \in 0..n |-> 0], [k \in 0..n |-> n], 0, 0)

---------------------------------------------------------------------------
Presorts == {[a |-> i * Chunksize, b |-> (IF (i + 1) * Chunksize - 1 >= Length THEN Length - 1 ELSE (i + 1) * Chunksize - 1)]
               : i \in 0..((Length + Chunksize - 1) \div Chunksize - 1)}
Init == /\ input \in Inputs
        /\ array = [x \in 0..(Length - 1) |-> input[x + 1]]
        /\ pc = "presort" /\ chunksize = Chunksize
        /\ tasks = {[fa |-> t.a, fb |-> t.b, sa |-> 0, sb |-> 0] : t \in Presorts}
        /\ deepest = 0

presort(t) == LET x == drf_qsort_dbl(array, t.fa, t.fb - t.fa + 1) IN
              /\ pc = "presort" /\ t \in tasks
              /\ array' = x.a
              /\ deepest' = IF x.deep > deepest THEN x.deep ELSE deepest
              /\ tasks' = tasks \ {t}
              /\ UNCHANGED <<input, pc, chunksize>>

\* The pairs of the next round; the second list of the last may be short.
Pairs == {[fa |-> i, fb |-> i + chunksize - 1, sa |-> i + chunksize,
           sb |-> IF i + 2 * chunksize - 1 < Length - 1 THEN i + 2 * chunksize - 1 ELSE Length - 1]
            : i \in {k \in 0..(Length - chunksize - 1) : k % (2 * chunksize) = 0}}
round == /\ pc = "presort" /\ tasks = {}
         /\ pc' = IF chunksize <= Length THEN "merge" ELSE "done"
         /\ tasks' = IF chunksize <= Length THEN Pairs ELSE {}
         /\ UNCHANGED <<input, array, chunksize, deepest>>
again == /\ pc = "merge" /\ tasks = {}
         /\ chunksize' = chunksize * 2
         /\ pc' = "presort"
         /\ UNCHANGED <<input, array, tasks, deepest>>

\* qutil_mergesort_inner: one comparison; an element of the second list is
\* moved in front of what is left of the first.
merge(t) == /\ pc = "merge" /\ t \in tasks
            /\ t.fa <= t.fb /\ t.sa <= t.sb
            /\ \/ /\ array[t.fa] < array[t.sa]
                  /\ tasks' = (tasks \ {t}) \cup {[t EXCEPT !.fa = @ + 1]}
                  /\ UNCHANGED array
               \/ /\ array[t.fa] >= array[t.sa]
                  /\ array' = [x \in DOMAIN array |-> IF x = t.fa THEN array[t.sa]
                                                      ELSE IF x \in (t.fa + 1)..t.sa THEN array[x - 1] ELSE array[x]]
                  /\ tasks' = (tasks \ {t}) \cup {[t EXCEPT !.fa = @ + 1, !.fb = @ + 1, !.sa = @ + 1]}
            /\ UNCHANGED <<input, pc, chunksize, deepest>>
merged(t) == /\ pc = "merge" /\ t \in tasks
             /\ t.fa > t.fb \/ t.sa > t.sb
             /\ tasks' = tasks \ {t}
             /\ UNCHANGED <<input, array, pc, chunksize, deepest>>

Next == round \/ again \/ \E t \in tasks : presort(t) \/ merge(t) \/ merged(t)
Spec == Init /\ [][Next]_vars

---------------------------------------------------------------------------
(* Properties.                                                             *)

(* "The result of the sort is an array in increasing order", with the      *)
(* elements it had, although the tasks of a round share the array.         *)
MergedSorted == pc = "done" =>
    /\ \A x \in DOMAIN array : x + 1 \in DOMAIN array => array[x] <= array[x + 1]
    /\ \A v \in {input[x] : x \in DOMAIN input} :
         Cardinality({x \in DOMAIN array : array[x] = v}) = Cardinality({x \in DOMAIN input : input[x] = v})

(* assert(i < MAX): the stack of drf_qsort never holds more than the       *)
(* logarithm of the length, as the smaller part is always done first; two  *)
(* slots less than the code allows would be enough.                        *)
StackIsSmall == deepest <= QT_INT_LOG(Chunksize) + 2
=============================================================================
