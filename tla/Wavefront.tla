----------------------------- MODULE Wavefront -----------------------------
(***************************************************************************)
(* qt_wavefront (src/patterns/wavefront.c): the cells between the left     *)
(* column and the bottom row are computed in blocks.  The lattice holds    *)
(* the edges of the blocks, slats (horizontal) and struts (vertical); a    *)
(* worker takes a block from the queue, claims it by swapping its upper    *)
(* slat, computes it, stores the new edges and queues the neighbours whose *)
(* other edge is there.                                                    *)
(*                                                                         *)
(* The value of a cell is its position when it was computed from the right *)
(* cells, and Wrong otherwise.  The qdqueue is a bag of blocks.            *)
(***************************************************************************)
EXTENDS Integers, Sequences, FiniteSets, FiniteSetsExt, Bags

CONSTANTS HCount, HSeg,   \* horizontal->count, its segment_size
          VCount, VSeg,   \* the same of vertical
          Workers
CeilDiv(x, y) == 1 + (x - 1) \div y
Wrong == <<-1, -1>>
NULL == <<>>
Claimed == <<"claimed">>     \* (void *)1
NoUnit == <<-1, -1>>

\* The number of blocks; horizontal blocks share a cell with the next one.
SlatSegs == IF HCount > HSeg THEN 1 + CeilDiv(HCount - HSeg, HSeg - 1) ELSE 1
StrutSegs == IF VCount > VSeg THEN CeilDiv(VCount, VSeg) ELSE 1
Cols == 0..(SlatSegs - 1)
Rows == 0..(StrutSegs - 1)

\* The input: cell <<x, y>> with x = 0 on the left edge and y = 0 at the bottom.
\* Copying the bottom row goes by HSeg when it counts and by HSeg - 1 when it copies.
Below(i) == LET len == IF HCount - i * HSeg > HSeg THEN HSeg ELSE HCount - i * HSeg + 1
            IN  [k \in 1..len |-> LET x == i * (HSeg - 1) + k - 1 IN IF x < HCount THEN <<x, 0>> ELSE Wrong]
Left(i) == LET len == IF VCount - i * VSeg > VSeg THEN VSeg ELSE VCount - i * VSeg
           IN  [k \in 1..len |-> <<0, i * VSeg + k>>]

VARIABLES slats, struts,   \* [row][col] and [col][row], as in the lattice
          queue, donecount,
          pc, wu, R,       \* of a worker; R: NULL (its own memory) or the strut R points into
          rt, ab,          \* the edges it has computed
          cpc
vars == <<slats, struts, queue, donecount, pc, wu, R, rt, ab, cpc>>
lattice == <<slats, struts>>

Init == /\ slats = [r \in 0..StrutSegs |-> [c \in Cols |-> IF r = 0 THEN Below(c) ELSE NULL]]
        /\ struts = [c \in 0..SlatSegs |-> [r \in Rows |-> IF c = 0 THEN Left(r) ELSE NULL]]
        /\ queue = EmptyBag /\ donecount = 0
        /\ pc = [w \in Workers |-> "none"]
        /\ wu = [w \in Workers |-> NoUnit]
        /\ R = [w \in Workers |-> [k \in 1..HSeg |-> NULL]]
        /\ rt = [w \in Workers |-> NULL] /\ ab = [w \in Workers |-> NULL]
        /\ cpc = "fork"

Goto(w, l) == pc' = [pc EXCEPT ![w] = l]
Enqueue(c, r) == queue' = queue (+) SetToBag({<<c, r>>})

\* The caller: workers first, then the lower left block; it waits for all.
fork == /\ cpc = "fork" /\ cpc' = "queue"
        /\ pc' = [w \in Workers |-> "take"]
        /\ UNCHANGED <<lattice, queue, donecount, wu, R, rt, ab>>
enqueue_first == /\ cpc = "queue" /\ cpc' = "wait"
                 /\ Enqueue(0, 0)
                 /\ UNCHANGED <<lattice, donecount, pc, wu, R, rt, ab>>
returns == /\ cpc = "wait" /\ donecount >= Cardinality(Workers)
           /\ cpc' = "returned"
           /\ UNCHANGED <<lattice, queue, donecount, pc, wu, R, rt, ab>>
\* qt_wavefront_destroy_lattice: every edge has to be there.
destroy_lattice == /\ cpc = "returned"
                   /\ \A r \in 0..StrutSegs, c \in Cols : slats[r][c] # NULL
                   /\ \A c \in 0..SlatSegs, r \in Rows : struts[c][r] # NULL
                   /\ cpc' = "destroyed"
                   /\ UNCHANGED <<lattice, queue, donecount, pc, wu, R, rt, ab>>

---------------------------------------------------------------------------
(* A worker.                                                               *)

take(w) == /\ pc[w] = "take"
           /\ \E u \in BagToSet(queue) :
                /\ queue' = queue (-) SetToBag({u})
                /\ wu' = [wu EXCEPT ![w] = u]
           /\ Goto(w, "claim")
           /\ UNCHANGED <<lattice, donecount, R, rt, ab, cpc>>
\* `if (arg->no_more_work)' tests the pointer: an empty queue ends the worker.
leave(w) == /\ pc[w] = "take" /\ queue = EmptyBag
            /\ donecount' = donecount + 1
            /\ Goto(w, "done")
            /\ UNCHANGED <<lattice, queue, wu, R, rt, ab, cpc>>

C(w) == wu[w][1]
Rw(w) == wu[w][2]
\* The swap of the upper slat; the one who loses drops the block.
claim_read(w) == /\ pc[w] = "claim"
                 /\ Goto(w, "compute")
                 /\ slats' = [slats EXCEPT ![Rw(w) + 1][C(w)] = Claimed]
                 /\ UNCHANGED <<struts, queue, donecount, wu, R, rt, ab, cpc>>
claim(w) == /\ pc[w] = "claim"
            /\ IF slats[Rw(w) + 1][C(w)] = NULL
               THEN /\ Goto(w, "compute")
                    /\ slats' = [slats EXCEPT ![Rw(w) + 1][C(w)] = Claimed]
               ELSE Goto(w, "take") /\ UNCHANGED slats
            /\ UNCHANGED <<struts, queue, donecount, wu, R, rt, ab, cpc>>

\* func(left, belowleft, below)
func(l, bl, b) == IF l # Wrong /\ bl = <<l[1], l[2] - 1>> /\ b = <<l[1] + 1, l[2] - 1>>
                  THEN <<l[1] + 1, l[2]>> ELSE Wrong
\* qt_wavefront_regionworker: the columns of the block.
Region(left, below) ==
    LET n == Len(below) - 1
        m == Len(left)
        cell[k \in 0..n, j \in 0..m] == IF k = 0 THEN IF j = 0 THEN below[1] ELSE left[j]
                                        ELSE IF j = 0 THEN below[k + 1]
                                        ELSE func(cell[k - 1, j], cell[k - 1, j - 1], cell[k, j - 1])
    IN  [k \in 1..n |-> [j \in 1..m |-> cell[k, j]]]
\* The edge above it: the last cell of the left edge, then the top of every column.
Above_own(left, x) == [k \in 1..(Len(x) + 1) |-> IF k = 1 THEN x[1][Len(left)] ELSE x[k - 1][Len(left)]]
Above(left, x) == <<left[Len(left)]>> \o [k \in 1..Len(x) |-> x[k][Len(left)]]
\* The block is computed into R: the last column is the new strut, another may
\* still be the strut of a narrower block that this worker did before.
compute(w) == LET left == struts[C(w)][Rw(w)]
                  below == slats[Rw(w)][C(w)]
                  x == Region(left, below)
                  n == Len(below) - 1
                  hit(c, r) == {k \in 1..(n - 1) : R[w][k] = <<c, r>>}
              IN  /\ pc[w] = "compute"
                  /\ rt' = [rt EXCEPT ![w] = x[n]]
                  /\ ab' = [ab EXCEPT ![w] = Above(left, x)]
                  /\ struts' = [c \in DOMAIN struts |-> [r \in Rows |->
                       IF hit(c, r) # {}
                       THEN [j \in DOMAIN struts[c][r] |-> IF j <= Len(left) THEN x[Max(hit(c, r))][j] ELSE struts[c][r][j]]
                       ELSE struts[c][r]]]
                  /\ R' = [R EXCEPT ![w][n] = <<C(w) + 1, Rw(w)>>]
                  /\ Goto(w, "above")
                  /\ UNCHANGED <<slats, queue, donecount, wu, cpc>>
store_above(w) == /\ pc[w] = "above"
                  /\ slats' = [slats EXCEPT ![Rw(w) + 1][C(w)] = ab[w]]
                  /\ ab' = [ab EXCEPT ![w] = NULL]
                  /\ Goto(w, "right")
                  /\ UNCHANGED <<struts, queue, donecount, wu, R, rt, cpc>>
store_right(w) == /\ pc[w] = "right"
                  /\ struts' = [struts EXCEPT ![C(w) + 1][Rw(w)] = rt[w]]
                  /\ rt' = [rt EXCEPT ![w] = NULL]
                  /\ Goto(w, "next")
                  /\ UNCHANGED <<slats, queue, donecount, wu, R, ab, cpc>>
next_right(w) == /\ pc[w] = "next"
                 /\ IF C(w) < SlatSegs - 1 /\ slats[Rw(w)][C(w) + 1] \notin {NULL, Claimed}
                    THEN Enqueue(C(w) + 1, Rw(w)) ELSE UNCHANGED queue
                 /\ Goto(w, "up")
                 /\ UNCHANGED <<lattice, donecount, wu, R, rt, ab, cpc>>
next_up_not(w) == /\ pc[w] = "up" /\ Goto(w, "take")
                  /\ UNCHANGED <<lattice, queue, donecount, wu, R, rt, ab, cpc>>
next_up(w) == /\ pc[w] = "up"
              /\ IF Rw(w) < StrutSegs - 1 /\ struts[C(w)][Rw(w) + 1] # NULL
                 THEN Enqueue(C(w), Rw(w) + 1) ELSE UNCHANGED queue
              /\ Goto(w, "take")
              /\ UNCHANGED <<lattice, donecount, wu, R, rt, ab, cpc>>

Worker(w) == take(w) \/ leave(w) \/ claim(w) \/ compute(w) \/ store_above(w) \/ store_right(w)
               \/ next_right(w) \/ next_up(w)
Caller == fork \/ enqueue_first \/ returns \/ destroy_lattice
Next == Caller \/ \E w \in Workers : Worker(w)
Spec == Init /\ [][Next]_vars

---------------------------------------------------------------------------
(* Properties.                                                             *)

(* The edges in the lattice have the values of qt_basic_wavefront: a block *)
(* is computed when both of its edges are there and nobody writes into an  *)
(* edge that has been stored.                                              *)
LatticeRight == /\ \A r \in 0..StrutSegs, c \in Cols : slats[r][c] \notin {NULL, Claimed} =>
                     \A k \in DOMAIN slats[r][c] : slats[r][c][k] # Wrong
                /\ \A c \in 0..SlatSegs, r \in Rows : \A k \in DOMAIN struts[c][r] : struts[c][r][k] # Wrong /\ struts[c][r][k][2] = r * VSeg + k
                     /\ struts[c][r][k][1] = (IF c = SlatSegs THEN HCount - 1 ELSE c * (HSeg - 1))

(* A block whose two edges are stored is queued, claimed or in a worker's  *)
(* hands, or a worker that stored one of them has yet to look: the two     *)
(* neighbours, which look for each other's edge, do not both miss it.      *)
Busy(c, r) == \E w \in Workers : \/ wu[w] = <<c, r>> /\ pc[w] \in {"claim", "compute", "above"}
                                 \/ wu[w] = <<c - 1, r>> /\ pc[w] \in {"right", "next"}
                                 \/ wu[w] = <<c, r - 1>> /\ pc[w] \in {"right", "next", "up"}
ReadyIsQueued == cpc \notin {"fork", "queue"} => \A c \in Cols, r \in Rows :
    /\ slats[r][c] \notin {NULL, Claimed} /\ struts[c][r] # NULL /\ slats[r + 1][c] = NULL
    => <<c, r>> \in BagToSet(queue) \/ Busy(c, r)

(* A worker that takes a block finds its left and lower edges stored, and  *)
(* one that has claimed it finds neither of the others (the assertions of  *)
(* qt_wavefront_worker).                                                   *)
EdgesThere == \A w \in Workers :
    /\ pc[w] \in {"claim", "compute"} => slats[Rw(w)][C(w)] \notin {NULL, Claimed} /\ struts[C(w)][Rw(w)] # NULL
    /\ pc[w] \in {"compute", "above"} => slats[Rw(w) + 1][C(w)] = Claimed /\ struts[C(w) + 1][Rw(w)] = NULL

Rested == cpc \in {"returned", "destroyed"}
=============================================================================
