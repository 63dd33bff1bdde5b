------------------------------ MODULE ParSort ------------------------------
(***************************************************************************)
(* The parallel quicksorts: qt_qsort of src/qloop.c, qutil_qsort and       *)
(* qutil_aligned_qsort of src/qutil.c.  Threads partition interleaved      *)
(* chunks of the array and merge their walls; what lies between the        *)
(* furthest walls is partitioned again, in parallel while it is long, and  *)
(* at last sequentially; then both parts are sorted by tasks of their own. *)
(*                                                                         *)
(* A job is a task that sorts array[lo .. lo+len-1]; it is replaced by     *)
(* those it spawns.  The constants 10000, 10 and the line size of the code *)
(* are LoopChunk and Chunk.                                                *)
(***************************************************************************)
EXTENDS Integers, Sequences, FiniteSets, TLC

CONSTANTS Inputs,     \* sequences to sort
          Variants,   \* subset of {"qt", "qutil", "aligned"}
          LoopChunk, Chunk,
          Sheps,      \* qthread_num_shepherds()
          Word        \* size_t wraps at this value
VARIABLES variant, input, array, jobs
vars == <<variant, input, array, jobs>>

Init == /\ variant \in Variants
        /\ input \in Inputs
        /\ array = [x \in 0..(Len(input) - 1) |-> input[x + 1]]
        /\ jobs = {[lo |-> 0, len |-> Len(input), pc |-> "start", left |-> 0, right |-> 0,
                    pivot |-> 0, offset |-> 0, threads |-> <<>>]}

Swap(a, m, n) == [a EXCEPT ![m] = a[n], ![n] = a[m]]
Max(S) == CHOOSE x \in S : \A y \in S : y <= x

---------------------------------------------------------------------------
(* One thread's partition of its chunks.  Its array starts at o; l and r   *)
(* are its walls.                                                          *)

NextLeft(l, jump) == IF (l + 1) % Chunk # 0 THEN l + 1 ELSE l + jump
RECURSIVE ScanLeft(_, _, _, _, _, _)
ScanLeft(a, o, l, r, p, jump) == IF r < l \/ a[o + l] > p THEN l ELSE ScanLeft(a, o, NextLeft(l, jump), r, p, jump)
\* To the right wall's next value at most p; q if the first chunk is passed
\* or (with a bound l) the left wall.
RECURSIVE ScanRight(_, _, _, _, _, _)
ScanRight(a, o, l, r, p, jump) ==
    IF r < l THEN [r |-> r, q |-> TRUE]
    ELSE IF a[o + r] <= p THEN [r |-> r, q |-> FALSE]
    ELSE IF r % Chunk # 0 THEN ScanRight(a, o, l, r - 1, p, jump)
    ELSE IF r < jump THEN [r |-> r, q |-> TRUE]
    ELSE ScanRight(a, o, l, r - jump, p, jump)
\* One step to the left, then on to a value at most p.
StepRight(a, o, r, p, jump) ==
    IF r % Chunk # 0 THEN ScanRight(a, o, -1, r - 1, p, jump)
    ELSE IF r < jump THEN [r |-> r, q |-> TRUE]
    ELSE ScanRight(a, o, -1, r - jump, p, jump)

RECURSIVE Exchange(_, _, _, _, _, _)
Exchange(a, o, l, r, p, jump) ==
    LET b == Swap(a, o + l, o + r)
        l2 == ScanLeft(b, o, NextLeft(l, jump), r, p, jump)
        r2 == StepRight(b, o, r, p, jump)
    IN  IF r <= l2 THEN [a |-> b, l |-> l2, r |-> r]
        ELSE IF r2.q \/ r2.r <= l2 THEN [a |-> b, l |-> l2, r |-> r2.r]
        ELSE Exchange(b, o, l2, r2.r, p, jump)

PartitionWalk(a, o, length, p, jump) ==
    LET l == ScanLeft(a, o, 0, length - 1, p, jump)
        r == ScanRight(a, o, l, length - 1, p, jump)
    IN  IF length - 1 < l THEN [a |-> a, l |-> l, r |-> length - 1]
        ELSE IF r.q THEN [a |-> a, l |-> l, r |-> r.r]
        ELSE Exchange(a, o, l, r.r, p, jump)

\* The three copies of the function.
qt_qsort_partition(a, o, t, p) == PartitionWalk(a, o, t.length, p, t.jump)
qutil_qsort_partition(a, o, t, p) == PartitionWalk(a, o, t.length, p, t.jump)
qutil_aligned_qsort_partition(a, o, t, p) == PartitionWalk(a, o, t.length, p, t.jump)
Partition(a, o, t, p) == CASE variant = "qt" -> qt_qsort_partition(a, o, t, p)
                           [] variant = "qutil" -> qutil_qsort_partition(a, o, t, p)
                           [] OTHER -> qutil_aligned_qsort_partition(a, o, t, p)

---------------------------------------------------------------------------
(* The threads of one parallel round.                                      *)

\* Their lengths: the last megachunk may be incomplete, and the threads
\* behind the one in which the array ends have one chunk less.
Lengths_same(length, n) ==
    LET mega == Chunk * n
    IN  [i \in 0..(n - 1) |-> IF (length \div mega) * mega + Chunk + i * Chunk >= length
                              THEN length - i * Chunk ELSE (length \div mega) * mega + Chunk]
Lengths(length, n) ==
    LET mega == Chunk * n
        full(m) == (m * mega + Chunk) % Word
        ends(m, i) == (full(m) + i * Chunk) % Word >= length
        chunks[i \in 0..n] == IF i = 0 THEN length \div mega
                              ELSE IF ends(chunks[i - 1], i - 1) THEN (chunks[i - 1] - 1) % Word ELSE chunks[i - 1]
    IN  [i \in 0..(n - 1) |->
           IF length % mega = 0 THEN length - mega + Chunk
           ELSE IF ends(chunks[i], i) THEN length - i * Chunk ELSE full(chunks[i])]

Threads(length, n) ==
    [i \in 0..(n - 1) |-> [length |-> Lengths(length, n)[i], jump |-> (n - 1) * Chunk + 1,
                           pc |-> "part", l |-> 0, r |-> 0, cur |-> 0]]
UtilThreads(length) == length \div LoopChunk + (IF length % LoopChunk # 0 THEN 1 ELSE 0)

qt_inner_partitioner(length) == Threads(length, Sheps)
qutil_inner_partitioner(length) == Threads(length, UtilThreads(length))
qutil_aligned_inner_partitioner(length) == Threads(length, UtilThreads(length))
Partitioner(length) == CASE variant = "qt" -> qt_inner_partitioner(length)
                         [] variant = "qutil" -> qutil_inner_partitioner(length)
                         [] OTHER -> qutil_aligned_inner_partitioner(length)
NoWall == Word - 1

\* The walls of a round are kept in left and right, relative to the offset.
Update(j, k) == jobs' = (jobs \ {j}) \cup {k}
Thread(j, i, t) == [j EXCEPT !.threads = [j.threads EXCEPT ![i] = t]]

partition(j, i) ==
    LET t == j.threads[i]
        x == Partition(array, j.lo + j.offset + i * Chunk, t, j.pivot)
    IN  /\ j.pc = "round" /\ t.pc = "part"
        /\ array' = x.a
        /\ Update(j, Thread(j, i, [t EXCEPT !.pc = "left", !.l = x.l + i * Chunk, !.r = x.r + i * Chunk]))
        /\ UNCHANGED <<variant, input>>

\* qt_qsort merges both walls under a lock.
merge_locked(j, i) ==
    LET t == j.threads[i]
        k == Thread(j, i, [t EXCEPT !.pc = "done"])
    IN  /\ j.pc = "round" /\ t.pc = "left" /\ variant = "qt"
        /\ Update(j, [k EXCEPT !.left = IF t.l < @ THEN t.l ELSE @, !.right = IF t.r > @ THEN t.r ELSE @])
        /\ UNCHANGED <<variant, input, array>>

\* The others read each wall, and swap while theirs is further.
merge_read(j, i) ==
    LET t == j.threads[i] IN
    /\ j.pc = "round" /\ variant # "qt"
    /\ \/ /\ t.pc = "left"
          /\ Update(j, Thread(j, i, [t EXCEPT !.pc = IF t.l < j.left THEN "leftcas" ELSE "right", !.cur = j.left]))
       \/ /\ t.pc = "right"
          /\ Update(j, Thread(j, i, [t EXCEPT !.pc = IF t.r > j.right THEN "rightcas" ELSE "done", !.cur = j.right]))
    /\ UNCHANGED <<variant, input, array>>
merge_cas_once(j, i) ==
    LET t == j.threads[i]
        l == Thread(j, i, [t EXCEPT !.pc = "right"])
        r == Thread(j, i, [t EXCEPT !.pc = "done"])
    IN  /\ j.pc = "round"
        /\ \/ t.pc = "leftcas" /\ Update(j, IF j.left = t.cur THEN [l EXCEPT !.left = t.l] ELSE l)
           \/ t.pc = "rightcas" /\ Update(j, IF j.right = t.cur THEN [r EXCEPT !.right = t.r] ELSE r)
        /\ UNCHANGED <<variant, input, array>>
merge_cas(j, i) ==
    LET t == j.threads[i]
        l == Thread(j, i, [t EXCEPT !.pc = "right"])
        r == Thread(j, i, [t EXCEPT !.pc = "done"])
    IN  /\ j.pc = "round"
        /\ \/ /\ t.pc = "leftcas"
              /\ Update(j, IF j.left = t.cur THEN [l EXCEPT !.left = t.l]
                           ELSE IF t.l < j.left THEN Thread(j, i, [t EXCEPT !.cur = j.left]) ELSE l)
           \/ /\ t.pc = "rightcas"
              /\ Update(j, IF j.right = t.cur THEN [r EXCEPT !.right = t.r]
                           ELSE IF t.r > j.right THEN Thread(j, i, [t EXCEPT !.cur = j.right]) ELSE r)
        /\ UNCHANGED <<variant, input, array>>

\* All threads have returned.
join(j) == /\ j.pc = "round" /\ \A i \in DOMAIN j.threads : j.threads[i].pc = "done"
           /\ Update(j, [j EXCEPT !.pc = "walls", !.left = @ + j.offset, !.right = @ + j.offset, !.threads = <<>>])
           /\ UNCHANGED <<variant, input, array>>

---------------------------------------------------------------------------
(* The sort of one subarray.                                               *)

\* Short subarrays are sorted sequentially (qsort, drf_qsort).
Part(a, lo, len) == [x \in 1..len |-> a[lo + x - 1]]
SortSmall(j) == LET s == SortSeq(Part(array, j.lo, j.len), LAMBDA x, y : x < y)
                IN  [x \in DOMAIN array |-> IF x \in j.lo..(j.lo + j.len - 1) THEN s[x - j.lo + 1] ELSE array[x]]
small(j) == /\ j.pc = "start" /\ (j.len <= LoopChunk \/ (variant = "qt" /\ Sheps = 1))
            /\ array' = SortSmall(j)
            /\ jobs' = jobs \ {j}
            /\ UNCHANGED <<variant, input>>

\* The pivot is the median of the first, the middle and the last element,
\* which are put in order.
TriMedian(a, lo, len) ==
    LET i == lo + len \div 2
        z == lo + len - 1
        b == IF a[lo] > a[i] THEN Swap(a, lo, i) ELSE a
        c == IF b[lo] > b[z] THEN Swap(b, lo, z) ELSE b
        d == IF c[i] > c[z] THEN Swap(c, i, z) ELSE c
    IN  [a |-> d, pivot |-> d[i]]
pivot(j) == LET x == TriMedian(array, j.lo, j.len) IN
            /\ j.pc = "start" /\ j.len > LoopChunk /\ ~(variant = "qt" /\ Sheps = 1)
            /\ array' = x.a
            /\ Update(j, [j EXCEPT !.pc = "walls", !.left = 0, !.right = j.len - 1, !.pivot = x.pivot])
            /\ UNCHANGED <<variant, input>>

Long(j) == j.right > j.left /\ j.right - j.left > 2 * (IF variant = "qt" THEN j.len \div Sheps ELSE LoopChunk)

\* Another parallel round between the walls.
round(j) == /\ j.pc = "walls" /\ Long(j)
            /\ Update(j, [j EXCEPT !.pc = "round", !.offset = j.left, !.left = NoWall, !.right = 0,
                                   !.threads = Partitioner(j.right - j.left + 1)])
            /\ UNCHANGED <<variant, input, array>>

\* The sequential partition between the walls.
RECURSIVE Between(_, _, _, _, _)
Up(a, lo, l, r, p) == CHOOSE x \in l..r : /\ x = r \/ a[lo + x] > p
                                          /\ \A y \in l..(x - 1) : a[lo + y] <= p
Down(a, lo, l, r, p) == CHOOSE x \in l..r : /\ x = l \/ a[lo + x] <= p
                                            /\ \A y \in (x + 1)..r : a[lo + y] > p
Between(a, lo, l, r, p) ==
    LET b == Swap(a, lo + l, lo + r)
        l2 == IF l + 1 >= r THEN l + 1 ELSE Up(b, lo, l + 1, r, p)
        r2 == IF r - 1 <= l2 THEN r - 1 ELSE Down(b, lo, l2, r - 1, p)
    IN  IF r < l2 THEN [a |-> b, r |-> r]
        ELSE IF r2 < l2 THEN [a |-> b, r |-> r2]
        ELSE Between(b, lo, l2, r2, p)
Last(j) == LET a == array
               l == IF j.left < j.right THEN Up(a, j.lo, j.left, j.right, j.pivot) ELSE j.left
               r == IF l < j.right THEN Down(a, j.lo, l, j.right, j.pivot) ELSE j.right
               x == IF l < r THEN Between(a, j.lo, l, r, j.pivot) ELSE [a |-> a, r |-> r]
           IN  [a |-> x.a, r |-> IF x.a[j.lo + x.r] <= j.pivot THEN x.r + 1 ELSE x.r]
Job(j, lo, len) == [j EXCEPT !.lo = lo, !.len = len, !.pc = "start", !.left = 0, !.right = 0, !.pivot = 0, !.offset = 0]
split_short(j) == LET x == Last(j) IN
            /\ j.pc = "walls" /\ ~Long(j)
            /\ array' = x.a
            /\ jobs' = (jobs \ {j}) \cup {k \in {Job(j, j.lo, x.r - 1), Job(j, j.lo + x.r, j.len - x.r)} : k.len > 0}
            /\ UNCHANGED <<variant, input>>
split(j) == LET x == Last(j) IN
            /\ j.pc = "walls" /\ ~Long(j)
            /\ array' = x.a
            /\ jobs' = (jobs \ {j}) \cup {k \in {Job(j, j.lo, x.r), Job(j, j.lo + x.r, j.len - x.r)} : k.len > 0}
            /\ UNCHANGED <<variant, input>>

Step(j) == \/ small(j) \/ pivot(j) \/ round(j) \/ join(j) \/ split(j)
           \/ \E i \in DOMAIN j.threads : partition(j, i) \/ merge_locked(j, i) \/ merge_read(j, i) \/ merge_cas(j, i)
Next == \E j \in jobs : Step(j)
Spec == Init /\ [][Next]_vars

---------------------------------------------------------------------------
(* Properties.                                                             *)

Own(j, i) == {j.offset + i * Chunk + x : x \in {y \in 0..(j.threads[i].length - 1) :
                                                  (y \div Chunk) % Cardinality(DOMAIN j.threads) = 0}}
\* The elements that the round may move: those from the offset to the old
\* right wall, which is the end of the longest thread.
RoundEnd(j) == Max({i * Chunk + j.threads[i].length : i \in DOMAIN j.threads}) + j.offset

(* The chunks of the threads of a round are disjoint, lie inside of the    *)
(* subarray and leave out no element, and a thread's last element, where   *)
(* its scan from the right begins, is in a chunk of its own: the           *)
(* arithmetic of the megachunks in the inner partitioners.                 *)
ThreadsCover == \A j \in jobs : j.pc = "round" =>
    /\ RoundEnd(j) <= j.len
    /\ \A i \in DOMAIN j.threads : j.offset + i * Chunk + j.threads[i].length - 1 \in Own(j, i)
    /\ \A i, k \in DOMAIN j.threads : i # k => Own(j, i) \cap Own(j, k) = {}
    /\ UNION {Own(j, i) : i \in DOMAIN j.threads} = j.offset..(RoundEnd(j) - 1)

(* Whenever the walls are merged, everything left of the left wall is at   *)
(* most the pivot and everything right of the right wall above it: what    *)
(* the threads moved, and the order in which they merged, do not matter.   *)
WallsSound == \A j \in jobs : j.pc = "walls" =>
    /\ \A x \in 0..(j.len - 1) : x < j.left => array[j.lo + x] <= j.pivot
    /\ \A x \in 0..(j.len - 1) : x > j.right => array[j.lo + x] > j.pivot

(* "The result of the sort is an array in increasing order", with the      *)
(* elements it had.                                                        *)
SortedAtEnd == jobs = {} =>
    /\ \A x \in DOMAIN array : x + 1 \in DOMAIN array => array[x] <= array[x + 1]
    /\ \A v \in {array[x] : x \in DOMAIN array} :
         Cardinality({x \in DOMAIN array : array[x] = v}) = Cardinality({x \in DOMAIN input : input[x] = v})
=============================================================================
