---------------------------- MODULE QArrayDist ----------------------------
(***************************************************************************)
(* What a qarray is (src/ds/qarray.c): the layout of its segments and the  *)
(* shepherd that owns each of them.  An array is a record                  *)
(*   [unit, count, size (segment_size), bytes (segment_bytes), type, shep  *)
(*    (dist_shep), per, extras (stripes), owner]                           *)
(* where `owner' stands for the shepherds that DIST stores in the segments.*)
(***************************************************************************)
EXTENDS Integers, FiniteSets

CONSTANTS NSheps, PageSize
Sheps == 0..(NSheps - 1)
CeilDiv(x, y) == x \div y + (IF x % y # 0 THEN 1 ELSE 0)

DistTypes == {"DIST", "DIST_RAND", "DIST_STRIPES", "DIST_FIELDS", "DIST_LEAST"}
AllTypes == {"ALL_SAME", "ALL_LOCAL", "ALL_RAND", "ALL_LEAST"}
dist_type(d) == IF d \in AllTypes THEN "ALL_SAME" ELSE IF d \in DistTypes THEN "DIST" ELSE d

qt_gcd(a, b) == CHOOSE g \in 1..b : /\ a % g = 0 /\ b % g = 0
                                    /\ \A h \in (g + 1)..b : a % h # 0 \/ b % h # 0
qt_lcm(a, b) == (a * b) \div qt_gcd(a, b)

\* Unit size, bytes and elements of a segment.  A DIST segment gives up an
\* element when there is no room for the shepherd behind the last one.
UnitSize(obj, tight) == IF tight THEN obj ELSE 8 * CeilDiv(obj, 8)
FixedLayout(unit, pages) ==
    LET bytes == IF pages # 0 THEN pages * PageSize
                 ELSE IF unit > 16 * PageSize THEN qt_lcm(unit, PageSize) ELSE 16 * PageSize
    IN  [unit |-> unit, bytes |-> bytes, size |-> bytes \div unit]
DistLayout_full(unit, pages) ==
    LET bytes == (IF pages # 0 THEN pages ELSE 16) * PageSize
    IN  [unit |-> unit, bytes |-> bytes, size |-> bytes \div unit]
DistLayout(unit, pages) ==
    LET bytes == (IF pages # 0 THEN pages ELSE 16) * PageSize
        size  == bytes \div unit
        saved == IF unit > PageSize
                 THEN (unit \div PageSize) * PageSize - (IF unit % PageSize = 0 THEN PageSize ELSE 0)
                 ELSE 0
    IN  IF bytes - size * unit < 4
        THEN [unit |-> unit, bytes |-> bytes - saved, size |-> size - 1]
        ELSE [unit |-> unit, bytes |-> bytes, size |-> size]

SegmentCount(a) == CeilDiv(a.count, a.size)

\* The address of an element, relative to base_ptr, and of the shepherd of
\* a segment: behind the elements, at a multiple of four.
elem_nomigrate(a, index) == (index \div a.size) * a.bytes + (index % a.size) * a.unit
segment_shep(a, seg) == elem_nomigrate(a, seg * a.size) + 4 * CeilDiv(a.size * a.unit, 4)

shepof_segidx_plain(a, seg) ==
    CASE a.type = "ALL_SAME" -> a.shep
      [] a.type = "FIXED_FIELDS" -> seg \div a.per
      [] a.type = "FIXED_HASH" -> seg % NSheps
      [] a.type = "DIST" -> a.owner[seg]
shepof_segidx(a, seg) ==
    CASE a.type = "ALL_SAME" -> a.shep
      [] a.type = "FIXED_FIELDS" -> IF seg \div (a.per + 1) < a.extras THEN seg \div (a.per + 1)
                                    ELSE (seg - a.extras) \div a.per
      [] a.type = "FIXED_HASH" -> seg % NSheps
      [] a.type = "DIST" -> a.owner[seg]
qarray_shepof(a, index) == IF a.type = "ALL_SAME" THEN a.shep ELSE shepof_segidx(a, index \div a.size)

\* FIXED_FIELDS: segments per shepherd, and the shepherds with one more.
segs_per_shep(segs) == IF segs < NSheps THEN 1 ELSE segs \div NSheps
extras(segs) == segs % NSheps
=============================================================================
