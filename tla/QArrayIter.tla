---------------------------- MODULE QArrayIter ----------------------------
(***************************************************************************)
(* Iterating over a qarray (src/ds/qarray.c): the caller forks a strider   *)
(* to every shepherd that may own a part of the range; a strider finds its *)
(* own segments and hands their elements to the user's function.           *)
(*                                                                         *)
(* `visits' counts, for an element and a shepherd, how often the function  *)
(* was applied; an accumulated value is the bag of elements it combines,   *)
(* with cells for what was in `ret' before, for the zeros of calloc and    *)
(* for memory that nobody has written.                                     *)
(***************************************************************************)
EXTENDS QArrayDist, FiniteSetsExt

CONSTANT Calls   \* records [fn, a, start, stop]
Old == -1
Zero == -2
Junk == -3
MaxCount == Max({c.a.count : c \in Calls})
Cells == -3..(MaxCount - 1)

VARIABLES call, pc, spc, count, max_count, donecount, visits, rets, ret, joined
vars == <<call, pc, spc, count, max_count, donecount, visits, rets, ret, joined>>
a == call.a

Only(c) == [x \in Cells |-> IF x = c THEN 1 ELSE 0]
ElemBag(f, t) == [x \in Cells |-> IF x \in f..(t - 1) THEN 1 ELSE 0]
Plus(u, v) == [x \in Cells |-> u[x] + v[x]]

Init == /\ call \in Calls
        /\ pc = "call"
        /\ spc = [s \in Sheps |-> "none"]
        /\ count = [s \in Sheps |-> 0] /\ max_count = [s \in Sheps |-> 0]
        /\ donecount = 0 /\ joined = {}
        /\ visits = [x \in 0..(MaxCount - 1), s \in Sheps |-> 0]
        /\ rets = [s \in Sheps |-> Only(IF a.type = "FIXED_FIELDS" THEN Junk ELSE Zero)]
        /\ ret = Only(Old)

---------------------------------------------------------------------------
(* The caller.                                                             *)

\* Shepherds to fork to.  A range shorter than a segment goes to the owner of
\* its first element.
Fields == qarray_shepof(a, call.start)..qarray_shepof(a, call.stop - 1)
Spawns == CASE a.type = "ALL_SAME" -> {a.shep}
            [] a.type = "FIXED_FIELDS" -> Fields
            [] OTHER -> IF call.stop - call.start < a.size THEN {qarray_shepof(a, call.start)} ELSE Sheps
\* The accumulating loop looks for the owners when the range is small.
SmallRange == CeilDiv(a.count, a.size) \div NSheps > (call.stop - call.start) \div a.size
Owners == {qarray_shepof(a, g * a.size) : g \in (call.start \div a.size)..((call.stop - 1) \div a.size)}
AccumSpawns == CASE a.type = "ALL_SAME" -> {a.shep}
                 [] a.type = "FIXED_FIELDS" -> Fields
                 [] OTHER -> IF SmallRange THEN Owners ELSE Sheps

Fork(sheps) == /\ pc' = "wait"
               /\ spc' = [s \in Sheps |-> IF s \in sheps THEN "start" ELSE "none"]
               /\ UNCHANGED <<call, count, max_count, donecount, visits, rets, ret, joined>>
qarray_iter == pc = "call" /\ call.fn = "iter" /\ Fork(Spawns)
qarray_iter_loop == \/ pc = "call" /\ call.fn = "loop" /\ Fork(Spawns)
                    \/ pc = "wrapper" /\ Fork(Spawns)
qarray_iter_constloop == pc = "call" /\ call.fn = "const" /\ Fork(Spawns)
qarray_iter_loopaccum == pc = "call" /\ call.fn = "accum" /\ Fork(AccumSpawns)
\* The caller goes on; a task of its own shepherd does the loop.
qarray_iter_loop_nb == /\ pc = "call" /\ call.fn = "nb"
                       /\ pc' = "wrapper"
                       /\ UNCHANGED <<call, spc, count, max_count, donecount, visits, rets, ret, joined>>

Forked == {s \in Sheps : spc[s] # "none"}
returns_one == /\ pc = "wait" /\ call.fn # "accum" /\ donecount > 0
               /\ pc' = "returned"
               /\ UNCHANGED <<call, spc, count, max_count, donecount, visits, rets, ret, joined>>
returns == /\ pc = "wait" /\ call.fn # "accum"
           /\ donecount >= Cardinality(Forked)
           /\ pc' = "returned"
           /\ UNCHANGED <<call, spc, count, max_count, donecount, visits, rets, ret, joined>>

\* The accumulating loop waits for the striders in order.  The first one
\* writes to `ret' itself when it has the place for it; FIXED_FIELDS adds from
\* the wrong place behind the second.
First == IF a.type \in {"ALL_SAME", "FIXED_FIELDS"} THEN Min(Forked) ELSE 0
join(s) == LET later == {o \in Forked : o \notin joined}
               part == IF a.type = "FIXED_FIELDS" /\ s > Min(Forked) + 1 THEN Only(Junk) ELSE rets[s]
           IN  /\ pc = "wait" /\ call.fn = "accum" /\ later # {} /\ s = Min(later)
               /\ spc[s] = "done"
               /\ ret' = CASE s = First -> ret
                           [] a.type \notin {"ALL_SAME", "FIXED_FIELDS"} /\ SmallRange /\ joined = {} -> part
                           [] OTHER -> Plus(ret, part)
               /\ joined' = joined \cup {s}
               /\ UNCHANGED <<call, pc, spc, count, max_count, donecount, visits, rets>>
returns_accum == /\ pc = "wait" /\ call.fn = "accum" /\ joined = Forked
                 /\ pc' = "returned"
                 /\ UNCHANGED <<call, spc, count, max_count, donecount, visits, rets, ret, joined>>

---------------------------------------------------------------------------
(* The striders.                                                           *)

Exit(s) == /\ spc' = [spc EXCEPT ![s] = "done"]
           /\ donecount' = donecount + 1
           /\ UNCHANGED <<count, max_count>>
Enter(s, from, to) == /\ spc' = [spc EXCEPT ![s] = "loop"]
                      /\ count' = [count EXCEPT ![s] = from]
                      /\ max_count' = [max_count EXCEPT ![s] = to]
                      /\ UNCHANGED donecount

\* The first own element: startat, or the start of an own segment behind it.
MyStarts(s, from) == {x \in {from} \cup {g * a.size : g \in 0..(MaxCount - 1)} :
                        x >= from /\ (x < call.stop \/ x = from) /\ qarray_shepof(a, x) = s}
scatter_start_quiet(s) == IF MyStarts(s, call.start) = {}
                          THEN spc' = [spc EXCEPT ![s] = "done"] /\ UNCHANGED <<count, max_count, donecount>>
                          ELSE Enter(s, Min(MyStarts(s, call.start)), call.stop)
scatter_start(s) == IF MyStarts(s, call.start) = {} THEN Exit(s)
                    ELSE Enter(s, Min(MyStarts(s, call.start)), call.stop)
\* FIXED_FIELDS in qarray_strider, and in the two striders of the loops.
MyFields(s) == s * a.size * (IF s < a.extras THEN a.per + 1 ELSE a.per) + (IF s < a.extras THEN 0 ELSE a.extras * a.size)
fields_start(s) ==
    LET from == IF s = qarray_shepof(a, call.start) THEN call.start ELSE MyFields(s)
        last == from + a.size * (a.per + (IF s < a.extras THEN 1 ELSE 0)) - 1
    IN  Enter(s, from, IF call.stop > last THEN last + 1 ELSE call.stop)
loop_fields_start(s) ==
    LET from == IF s = qarray_shepof(a, call.start) THEN call.start ELSE s * a.size * a.per
        last == (s + 1) * a.size * a.per - 1
    IN  Enter(s, from, IF call.stop > last THEN last ELSE call.stop)
strider_start(s) == /\ spc[s] = "start"
                    /\ CASE a.type = "ALL_SAME" -> Enter(s, call.start, call.stop)
                         [] a.type = "FIXED_FIELDS" -> IF call.fn = "iter" THEN fields_start(s) ELSE loop_fields_start(s)
                         [] OTHER -> scatter_start(s)
                    /\ UNCHANGED <<call, pc, visits, rets, ret, joined>>

\* The function is applied to a segment, or to all when they are contiguous.
Chunk(s) == IF call.fn # "iter" /\ a.type \in {"ALL_SAME", "FIXED_FIELDS"} THEN max_count[s] - count[s]
            ELSE Min({a.size, max_count[s] - count[s]})
\* Where the strider goes on: at the next own segment.
NextCount_next(s) == count[s] + a.size
NextCount(s) == LET c == count[s] IN
    CASE a.type = "FIXED_HASH" -> c + a.size * NSheps
      [] a.type = "DIST" -> LET own == {x \in {c + k * a.size : k \in 1..MaxCount} :
                                          x < max_count[s] /\ qarray_shepof(a, x) = s}
                            IN  IF own = {} THEN max_count[s] ELSE Min(own)
      [] OTHER -> c + a.size
Apply(s) == /\ visits' = [k \in DOMAIN visits |-> IF k[2] = s /\ k[1] \in count[s]..(count[s] + Chunk(s) - 1)
                                                  THEN visits[k] + 1 ELSE visits[k]]
            /\ IF NextCount(s) >= max_count[s] \/ count[s] + Chunk(s) >= max_count[s]
               THEN Exit(s)
               ELSE /\ count' = [count EXCEPT ![s] = NextCount(s)]
                    /\ UNCHANGED <<spc, max_count, donecount>>
            /\ UNCHANGED <<call, pc, joined>>
qarray_strider(s) == /\ spc[s] = "loop" /\ call.fn = "iter"
                     /\ Apply(s) /\ UNCHANGED <<rets, ret>>
qarray_loop_strider(s) == /\ spc[s] = "loop" /\ call.fn \in {"loop", "const", "nb"}
                          /\ count[s] < max_count[s]
                          /\ Apply(s) /\ UNCHANGED <<rets, ret>>
qarray_loopaccum_strider(s) ==
    LET value == ElemBag(count[s], count[s] + Chunk(s))
        Into(v) == IF \E x \in 0..(MaxCount - 1) : visits[x, s] > 0 THEN Plus(v, value) ELSE value
    IN  /\ spc[s] = "loop" /\ call.fn = "accum" /\ count[s] < max_count[s]
        /\ Apply(s)
        /\ IF s = First THEN ret' = Into(ret) /\ UNCHANGED rets
           ELSE rets' = [rets EXCEPT ![s] = Into(@)] /\ UNCHANGED ret

Strider(s) == strider_start(s) \/ qarray_strider(s) \/ qarray_loop_strider(s) \/ qarray_loopaccum_strider(s)
Caller == qarray_iter \/ qarray_iter_loop \/ qarray_iter_constloop \/ qarray_iter_loopaccum \/ qarray_iter_loop_nb
            \/ returns \/ returns_accum \/ \E s \in Sheps : join(s)
Next == Caller \/ \E s \in Sheps : Strider(s)
Spec == Init /\ [][Next]_vars

---------------------------------------------------------------------------
(* Properties.                                                             *)

Visited(x) == MapThenSumSet(LAMBDA s : visits[x, s], Sheps)

(* Iterating over a range applies the function once to each element of it  *)
(* and to no other: the striders' ranges cover it without an overlap.      *)
EachOnce == /\ \A x \in 0..(MaxCount - 1) : Visited(x) <= (IF x \in call.start..(call.stop - 1) THEN 1 ELSE 0)
            /\ pc = "returned" => \A x \in call.start..(call.stop - 1) : Visited(x) = 1

(* "Guaranteeing that the function will be executed near the specified     *)
(* data": the function runs on the shepherd that owns the element.         *)
NearData == \A x \in 0..(MaxCount - 1), s \in Sheps : visits[x, s] > 0 => qarray_shepof(a, x) = s

(* The accumulated value combines every element of the range once, and     *)
(* nothing else: no older value of `ret' and no memory that was not        *)
(* computed by the function.                                               *)
AccumOnce == pc = "returned" /\ call.fn = "accum" => ret = ElemBag(call.start, call.stop)

Rested == pc = "returned"
=============================================================================
