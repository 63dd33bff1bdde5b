------------------------------ MODULE QArray ------------------------------
(***************************************************************************)
(* Creating, destroying and redistributing qarrays (src/ds/qarray.c), with *)
(* chunk_distribution_tracker, which counts the segments of each shepherd  *)
(* and tells ALL_LEAST and DIST_LEAST where to put more.                   *)
(***************************************************************************)
EXTENDS QArrayDist, FiniteSetsExt

CONSTANTS Names, Configs,  \* Configs: what qarray_create_configured is given
          MaxTracked       \* bound on the tracker, which drifts up with ALL_ arrays
NoArray == [type |-> "none"]
NoLike == <<>>

VARIABLES arrays, tracker,
          like       \* ghost: the arrays of the last call, if it was dist_like
vars == <<arrays, tracker, like>>

Live == {x \in Names : arrays[x] # NoArray}
Init == /\ arrays = [x \in Names |-> NoArray]
        /\ tracker = [s \in Sheps |-> 0]
        /\ like = NoLike

Add(t, s, n) == [t EXCEPT ![s] = @ + n]
Least(t) == CHOOSE s \in Sheps : \A o \in Sheps : t[s] < t[o] \/ (t[s] = t[o] /\ s <= o)
Segments(a, s) == Cardinality({g \in 0..(SegmentCount(a) - 1) : shepof_segidx(a, g) = s})

\* The shepherds that DIST_LEAST picks one after the other.
LeastOwners(segs) ==
    LET after[g \in 0..segs] == IF g = 0 THEN tracker ELSE Add(after[g - 1], Least(after[g - 1]), 1)
    IN  [g \in 0..(segs - 1) |-> Least(after[g])]
\* Where the segments may go; the random ones anywhere.
dist_sheps(d) == CASE d = "ALL_LEAST" -> {Least(tracker)}
                   [] d \in AllTypes \ {"ALL_LEAST"} -> Sheps
                   [] OTHER -> {0}
owners(d, segs) ==
    CASE d \in {"DIST", "DIST_RAND"} -> [0..(segs - 1) -> Sheps]
      [] d = "DIST_STRIPES" -> {[g \in 0..(segs - 1) |-> g % NSheps]}
      [] d = "DIST_FIELDS" -> {[g \in 0..(segs - 1) |->
                                  IF g \div (segs \div NSheps + 1) < extras(segs) THEN g \div (segs \div NSheps + 1)
                                  ELSE (g - extras(segs)) \div (segs \div NSheps)]}
      [] d = "DIST_LEAST" -> {LeastOwners(segs)}
      [] OTHER -> {<<>>}

\* qarray_create_internal, of an array whose elements fit (the others fail an assertion).
\* An ALL_ array is counted when its shepherd is
\* chosen, and once more when its segments are assigned.
create(x, c) ==
    LET unit   == UnitSize(c.obj, c.tight)
        layout == IF dist_type(c.d) = "DIST" THEN DistLayout(unit, c.pages) ELSE FixedLayout(unit, c.pages)
        segs   == CeilDiv(c.count, layout.size)
    IN  /\ arrays[x] = NoArray /\ layout.size > 0
        /\ \A s \in Sheps : tracker[s] <= MaxTracked
        /\ \E s \in dist_sheps(c.d), o \in owners(c.d, segs) :
             LET a == [unit |-> unit, count |-> c.count, size |-> layout.size, bytes |-> layout.bytes,
                       type |-> dist_type(c.d), shep |-> s, per |-> segs_per_shep(segs),
                       extras |-> extras(segs), owner |-> o]
             IN  /\ arrays' = [arrays EXCEPT ![x] = a]
                 /\ tracker' = [t \in Sheps |-> tracker[t] + Segments(a, t) * (IF a.type = "ALL_SAME" THEN 2 ELSE 1)]
        /\ like' = NoLike
qarray_destroy_keep(x) == /\ arrays[x] # NoArray
                          /\ tracker' = [s \in Sheps |-> tracker[s] - (IF arrays[x].type = "FIXED_HASH" THEN 0 ELSE Segments(arrays[x], s))]
                          /\ arrays' = [arrays EXCEPT ![x] = NoArray]
                          /\ like' = NoLike
qarray_destroy(x) == /\ arrays[x] # NoArray
                     /\ tracker' = [s \in Sheps |-> tracker[s] - Segments(arrays[x], s)]
                     /\ arrays' = [arrays EXCEPT ![x] = NoArray]
                     /\ like' = NoLike

\* A whole ALL_SAME array moves, or the segment of a DIST array.
Moved(a, i, s) == CASE a.type = "ALL_SAME" -> [a EXCEPT !.shep = s]
                    [] a.type = "DIST" -> [a EXCEPT !.owner[i \div a.size] = s]
                    [] OTHER -> a
Recount(t, a, b) == [s \in Sheps |-> t[s] + Segments(b, s) - Segments(a, s)]
qarray_set_shepof(x, i, s) == /\ arrays[x] # NoArray /\ i < arrays[x].count
                              /\ arrays' = [arrays EXCEPT ![x] = Moved(@, i, s)]
                              /\ tracker' = Recount(tracker, arrays[x], Moved(arrays[x], i, s))
                              /\ like' = NoLike

\* qarray_dist_like (other pairs fail an assertion): mod gets ref's shepherds, segment by segment of mod.
Likeable(ref, mod) == /\ ref.count = mod.count /\ ref.unit = mod.unit
                      /\ ref.type \in {"ALL_SAME", "DIST"} /\ mod.type \in {"ALL_SAME", "DIST"}
                      /\ ref.type = "DIST" => /\ mod.type = "DIST"
                                              /\ ref.size = mod.size /\ ref.bytes = mod.bytes
Matched_first(ref, mod) == IF mod.type = "ALL_SAME" THEN [mod EXCEPT !.shep = ref.shep]
                           ELSE [mod EXCEPT !.owner[0] = qarray_shepof(ref, 0)]
Matched(ref, mod) == IF mod.type = "ALL_SAME" THEN [mod EXCEPT !.shep = ref.shep]
                     ELSE [mod EXCEPT !.owner = [g \in DOMAIN @ |-> qarray_shepof(ref, g * mod.size)]]
qarray_dist_like(r, m) == /\ r # m /\ r \in Live /\ m \in Live /\ Likeable(arrays[r], arrays[m])
                          /\ arrays' = [arrays EXCEPT ![m] = Matched(arrays[r], @)]
                          /\ tracker' = Recount(tracker, arrays[m], Matched(arrays[r], arrays[m]))
                          /\ like' = <<r, m>>
Indices == 0..(Max({c.count : c \in Configs}) - 1)
Next == \E x \in Names :
          \/ \E c \in Configs : create(x, c)
          \/ qarray_destroy(x)
          \/ \E i \in Indices, s \in Sheps : qarray_set_shepof(x, i, s)
          \/ \E m \in Names : qarray_dist_like(x, m)
Spec == Init /\ [][Next]_vars

---------------------------------------------------------------------------
(* Properties.                                                             *)

(* The tracker counts, for every shepherd, the segments that live arrays   *)
(* have assigned to it, through creation, moves and destruction: what      *)
(* DIST_LEAST and ALL_LEAST rely on.                                       *)
TrackerCounts == \A s \in Sheps : tracker[s] = MapThenSumSet(LAMBDA x : Segments(arrays[x], s), Live)

(* Every element lies inside of the memory of the array and overlaps no    *)
(* other element and no segment's record of its shepherd, which itself     *)
(* lies inside of its segment: the choice of segment_size and              *)
(* segment_bytes, and the assertion of qarray_internal_segment_shep.       *)
ElementsFit == \A x \in Live :
    LET a == arrays[x]
        bytes(p, n) == p..(p + n - 1)
        elems == {bytes(elem_nomigrate(a, i), a.unit) : i \in 0..(a.count - 1)}
        slots == IF a.type = "DIST" THEN {bytes(segment_shep(a, g), 2) : g \in 0..(SegmentCount(a) - 1)} ELSE {}
    IN  /\ \A e, f \in elems \cup slots : e # f => e \cap f = {}
        /\ Cardinality(elems) = a.count
        /\ UNION (elems \cup slots) \subseteq bytes(0, SegmentCount(a) * a.bytes)
        /\ a.type = "DIST" => \A g \in 0..(SegmentCount(a) - 1) :
             bytes(segment_shep(a, g), 2) \subseteq bytes(g * a.bytes, a.bytes)

(* "This function modifies the qarray mod to match the distribution of     *)
(* qarray ref": afterwards every element has the same shepherd in both.    *)
LikeMatches == like # NoLike =>
    LET r == arrays[like[1]]
        m == arrays[like[2]]
    IN  \A i \in 0..(r.count - 1) : qarray_shepof(r, i) = qarray_shepof(m, i)

(* FIXED_FIELDS "distributes the memory evenly across all shepherds": with *)
(* as many segments as shepherds at least, every segment has a shepherd    *)
(* and no shepherd has two segments more than another.                     *)
FieldsEven == \A x \in Live :
    (arrays[x].type = "FIXED_FIELDS" /\ SegmentCount(arrays[x]) >= NSheps) =>
        /\ \A g \in 0..(SegmentCount(arrays[x]) - 1) : shepof_segidx(arrays[x], g) \in Sheps
        /\ \A s, t \in Sheps : Segments(arrays[x], s) <= Segments(arrays[x], t) + 1
=============================================================================
