---------------------------- MODULE SherwoodList ----------------------------
(***************************************************************************)
(* The doubly linked lists of the sherwood thread queues, at the level of  *)
(* their pointers (src/threadqueues/sherwood_threadqueues.c): one shared   *)
(* queue per shepherd, whose operations hold qlock and are one step each,  *)
(* and the spawn cache of a worker, which only that worker touches.  A     *)
(* node is named by the task it carries.  Module Sherwood uses the lists   *)
(* as sequences; this one shows that they are.                             *)
(***************************************************************************)
EXTENDS Integers, Sequences, FiniteSets

CONSTANTS Task, Unstealable, Shep, NULL

VARIABLES
    next, prev,   \* of each node; what they held stays when a node is freed
    q,            \* [head, tail, len, stl] of each shepherd's queue
    c,            \* [head, tail, len, stl, deck] of the worker's cache
    out,          \* the tasks that are in no list: running, or not yet spawned
    loot,         \* a steal in progress: the victim, the nodes unlinked so far and how many to take
    walk,         \* a filter in progress: list, node and the pointers to it
    crashed       \* a NULL pointer was dereferenced
vars == <<next, prev, q, c, out, loot, walk, crashed>>

NoLoot == [v |-> NULL]
NoWalk == [s |-> NULL]
Empty  == [head |-> NULL, tail |-> NULL, len |-> 0, stl |-> 0]
S(t)   == IF t \in Unstealable THEN 0 ELSE 1    \* node->stealable

Init ==
    /\ next = [t \in Task |-> NULL] /\ prev = [t \in Task |-> NULL]
    /\ q = [s \in Shep |-> Empty]
    /\ c = [head |-> NULL, tail |-> NULL, len |-> 0, stl |-> 0, deck |-> NULL]
    /\ out = Task /\ loot = NoLoot /\ walk = NoWalk /\ crashed = FALSE

Idle(s) == walk.s # s /\ loot.v # s    \* qlock is free
Rest == UNCHANGED <<loot, walk, crashed>>

\* Append the list first..last to list l.
AppendTo(l, first, last, len, stl) ==
    [l EXCEPT !.tail = last, !.head = IF @ = NULL THEN first ELSE @, !.len = @ + len, !.stl = @ + stl]
LinkBehind(l, first) == IF l.head = NULL THEN next ELSE [next EXCEPT ![l.tail] = first]

enqueue(s, t) ==
    /\ t \in out /\ Idle(s)
    /\ prev' = [prev EXCEPT ![t] = q[s].tail]
    /\ next' = [LinkBehind(q[s], t) EXCEPT ![t] = NULL]
    /\ q' = [q EXCEPT ![s] = AppendTo(@, t, t, 1, S(t))]
    /\ out' = out \ {t} /\ UNCHANGED c /\ Rest

\* Mutant of enqueue_yielded: the old head's prev is not set.
enqueue_yielded_one_way(s, t) ==
    /\ t \in out /\ Idle(s)
    /\ next' = [next EXCEPT ![t] = q[s].head]
    /\ prev' = [prev EXCEPT ![t] = NULL]
    /\ q' = [q EXCEPT ![s].head = t, ![s].tail = IF @ = NULL THEN t ELSE @, ![s].len = @ + 1, ![s].stl = @ + S(t)]
    /\ out' = out \ {t} /\ UNCHANGED c /\ Rest

enqueue_yielded(s, t) ==
    /\ t \in out /\ Idle(s)
    /\ next' = [next EXCEPT ![t] = q[s].head]
    /\ prev' = [x \in Task |-> IF x = t THEN NULL ELSE IF x = q[s].head THEN t ELSE prev[x]]
    /\ q' = [q EXCEPT ![s].head = t, ![s].tail = IF @ = NULL THEN t ELSE @, ![s].len = @ + 1, ![s].stl = @ + S(t)]
    /\ out' = out \ {t} /\ UNCHANGED c /\ Rest

\* The task on deck goes to the tail of the cache, the new one on deck.
private_enqueue(t) ==
    /\ t \in out /\ walk.s # "cache"
    /\ LET d == c.deck IN
       IF d = NULL
       THEN /\ next' = [next EXCEPT ![t] = NULL] /\ prev' = [prev EXCEPT ![t] = NULL]
            /\ c' = [c EXCEPT !.deck = t]
       ELSE /\ next' = [LinkBehind(c, d) EXCEPT ![t] = NULL]
            /\ prev' = [prev EXCEPT ![t] = NULL, ![d] = c.tail]
            /\ c' = [AppendTo(c, d, d, 1, S(d)) EXCEPT !.deck = t]
    /\ out' = out \ {t} /\ UNCHANGED q /\ Rest

private_enqueue_yielded(t) ==
    /\ t \in out /\ walk.s # "cache"
    /\ next' = [next EXCEPT ![t] = c.head]
    /\ prev' = [x \in Task |-> IF x = t THEN NULL ELSE IF x = c.head THEN t ELSE prev[x]]
    /\ c' = [c EXCEPT !.head = t, !.tail = IF @ = NULL THEN t ELSE @, !.len = @ + 1, !.stl = @ + S(t)]
    /\ out' = out \ {t} /\ UNCHANGED q /\ Rest

\* Mutant of get_cached: the deck is not cleared.
get_cached_twice(s) ==
    /\ c.deck # NULL /\ c.deck \notin out /\ Idle(s) /\ walk.s # "cache" /\ c.len = 0
    /\ out' = out \cup {c.deck} /\ UNCHANGED <<next, prev, q, c>> /\ Rest

\* qt_scheduler_get_thread: take the task on deck, flush the rest of the cache ...
get_cached(s) ==
    /\ c.deck # NULL /\ Idle(s) /\ walk.s # "cache"
    /\ IF c.len > 0
       THEN /\ prev' = [prev EXCEPT ![c.head] = q[s].tail] /\ next' = LinkBehind(q[s], c.head)
            /\ q' = [q EXCEPT ![s] = AppendTo(@, c.head, c.tail, c.len, c.stl)]
            /\ c' = [c EXCEPT !.deck = NULL, !.head = NULL, !.tail = NULL, !.len = 0, !.stl = 0]
       ELSE c' = [c EXCEPT !.deck = NULL] /\ UNCHANGED <<next, prev, q>>
    /\ out' = out \cup {c.deck} /\ Rest

\* ... or take the tail of the queue.
get_shared(s) ==
    /\ c.deck = NULL /\ q[s].tail # NULL /\ Idle(s)
    /\ LET n == q[s].tail  p == prev[n] IN
       /\ q' = [q EXCEPT ![s].tail = p, ![s].head = IF p = NULL THEN NULL ELSE @,
                         ![s].len = @ - 1, ![s].stl = @ - S(n)]
       /\ next' = IF p = NULL THEN next ELSE [next EXCEPT ![p] = NULL]
       /\ out' = out \cup {n}
    /\ UNCHANGED <<prev, c>> /\ Rest

\* qt_spawncache_flush: the task on deck in front of the cache, behind the queue.
enqueue_cache(s) ==
    /\ c.deck # NULL /\ Idle(s) /\ walk.s # "cache"
    /\ LET d == c.deck  last == IF c.len > 0 THEN c.tail ELSE d IN
       /\ next' = [LinkBehind(q[s], d) EXCEPT ![d] = c.head]
       /\ prev' = [x \in Task |-> IF x = d THEN q[s].tail ELSE IF x = c.head THEN d ELSE prev[x]]
       /\ q' = [q EXCEPT ![s] = AppendTo(@, d, last, c.len + 1, c.stl + S(d))]
    /\ c' = [head |-> NULL, tail |-> NULL, len |-> 0, stl |-> 0, deck |-> NULL]
    /\ UNCHANGED out /\ Rest

\* The tail of the cache comes on deck.
PullTail(cc) ==
    LET n == cc.tail IN
    [cc EXCEPT !.deck = n, !.tail = prev[n], !.head = IF @ = n THEN NULL ELSE @, !.len = @ - 1, !.stl = @ - S(n)]

\* qthread_yield_(2), direct yield.
private_dequeue ==
    /\ c.deck # NULL /\ walk.s # "cache"
    /\ out' = out \cup {c.deck}
    /\ IF c.tail = NULL THEN c' = [c EXCEPT !.deck = NULL] /\ UNCHANGED prev
       ELSE c' = PullTail(c) /\ prev' = [prev EXCEPT ![c.tail] = NULL]
    /\ UNCHANGED <<next, q>> /\ Rest

-----------------------------------------------------------------------------
\* Stealing: qt_threadqueue_dequeue_steal holds the victim's lock.

steal_begin(v, want) ==
    /\ Idle(v) /\ loot = NoLoot /\ q[v].stl > 0 /\ want \in 1..q[v].stl
    /\ loot' = [v |-> v, node |-> q[v].head, amt |-> 0, want |-> want, first |-> NULL, last |-> NULL]
    /\ UNCHANGED <<next, prev, q, c, out, walk, crashed>>

\* The nodes that follow n, itself included.
After[n \in Task] == IF next[n] = NULL THEN <<n>> ELSE <<n>> \o After[next[n]]


\* One turn of the do loop: the next run of stealable nodes f..l, up to the number wanted,
\* is cut out of the victim's list and hung behind the nodes stolen before.
steal_segment(v) ==
    /\ loot.v = v /\ loot.node # NULL /\ q[v].stl > 0 /\ loot.amt < loot.want
    /\ LET rest == After[loot.node]
           from == CHOOSE i \in DOMAIN rest : S(rest[i]) = 1 /\ \A j \in 1..(i - 1) : S(rest[j]) = 0
           to == CHOOSE i \in from..Len(rest) :
                    /\ \A j \in from..i : S(rest[j]) = 1 /\ i - from < loot.want - loot.amt
                    /\ i = Len(rest) \/ S(rest[i + 1]) = 0 \/ i - from + 1 = loot.want - loot.amt
           f == rest[from]  l == rest[to]  n == to - from + 1
       IN  /\ q' = [q EXCEPT ![v].head = IF f = @ THEN next[l] ELSE @,
                             ![v].tail = IF l = @ THEN prev[f] ELSE @,
                             ![v].len = @ - n, ![v].stl = @ - n]
           /\ next' = [x \in Task |-> IF x = l THEN NULL ELSE IF x = prev[f] THEN next[l]
                                       ELSE IF x = loot.last THEN f ELSE next[x]]
           /\ prev' = [x \in Task |-> IF x = f THEN loot.last ELSE IF x = next[l] THEN prev[f] ELSE prev[x]]
           /\ loot' = [loot EXCEPT !.node = next[l], !.amt = @ + n, !.last = l, !.first = IF @ = NULL THEN f ELSE @]
    /\ UNCHANGED <<c, out, walk, crashed>>

\* qthread_steal: the first stolen task runs, the others go behind the thief's queue
\* (qt_threadqueue_enqueue_multiple).
steal_end(v, s) ==
    /\ loot.v = v /\ (loot.node = NULL \/ loot.amt = loot.want \/ q[v].stl = 0)
    /\ s # v /\ walk.s # s
    /\ LET surplus == next[loot.first] IN
       IF surplus = NULL THEN UNCHANGED <<q, next, prev>>
       ELSE /\ q' = [q EXCEPT ![s] = AppendTo(@, surplus, loot.last, loot.amt - 1, loot.amt - 1)]
            /\ next' = [LinkBehind(q[s], surplus) EXCEPT ![loot.first] = NULL]
            /\ prev' = [prev EXCEPT ![surplus] = q[s].tail]
    /\ out' = out \cup {loot.first} /\ loot' = NoLoot
    /\ UNCHANGED <<c, walk, crashed>>

-----------------------------------------------------------------------------
\* Filters walk from the tail; lp and rp are the addresses of the pointers to the node.

List(s) == IF s = "cache" THEN c ELSE q[s]
Lp(l, n) == IF l.head = n THEN "head" ELSE prev[n]
filter_begin(s) ==
    /\ s # "cache" => Idle(s)
    /\ walk = NoWalk /\ List(s).len > 0
    /\ walk' = [s |-> s, node |-> List(s).tail, lp |-> Lp(List(s), List(s).tail), rp |-> "tail"]
    /\ UNCHANGED <<next, prev, q, c, out, loot, crashed>>

\* A cache whose task on deck was removed gets another (fixup_on_deck).
filter_end(s) ==
    /\ walk.s = s /\ walk.node = NULL
    /\ IF s = "cache" /\ c.deck = NULL /\ c.tail # NULL
       THEN c' = PullTail(c) /\ prev' = [prev EXCEPT ![c.tail] = NULL]
       ELSE UNCHANGED <<c, prev>>
    /\ walk' = NoWalk /\ UNCHANGED <<next, q, out, loot, crashed>>

\* Where the next turn finds lp: NULL is dereferenced when there is no node and the
\* list is not empty.
Onward(l, n, rp) ==
    /\ walk' = [walk EXCEPT !.node = n, !.rp = rp,
                            !.lp = IF l.head = n \/ n = NULL THEN "head" ELSE prev[n]]
    /\ crashed' = (n = NULL /\ l.head # NULL)

keep_and_continue(s) ==
    /\ walk.s = s /\ walk.node # NULL
    /\ LET n == prev[walk.node] IN
       IF s # "cache" /\ n = NULL
       THEN walk' = [walk EXCEPT !.node = NULL] /\ UNCHANGED crashed     \* if (node)
       ELSE Onward(List(s), n, walk.node)
    /\ UNCHANGED <<next, prev, q, c, out, loot>>

keep_and_stop(s) ==
    /\ walk.s = s /\ walk.node # NULL
    /\ walk' = [walk EXCEPT !.node = NULL]
    /\ UNCHANGED <<next, prev, q, c, out, loot, crashed>>

\* *lp = node->next; *rp = node->prev
Unlinked(l, n) == [l EXCEPT !.head = IF walk.lp = "head" THEN next[n] ELSE @,
                            !.tail = IF walk.rp = "tail" THEN prev[n] ELSE @,
                            !.len = @ - 1, !.stl = @ - S(n)]
Unlink(s) ==
    LET n == walk.node IN
    /\ IF s = "cache" THEN c' = Unlinked(c, n) /\ UNCHANGED q ELSE q' = [q EXCEPT ![s] = Unlinked(@, n)] /\ UNCHANGED c
    /\ next' = IF walk.lp = "head" THEN next ELSE [next EXCEPT ![walk.lp] = next[n]]
    /\ prev' = IF walk.rp = "tail" THEN prev ELSE [prev EXCEPT ![walk.rp] = prev[n]]
    /\ out' = out \cup {n} /\ UNCHANGED loot

remove_and_stop(s) ==
    /\ walk.s = s /\ walk.node # NULL
    /\ Unlink(s) /\ walk' = [walk EXCEPT !.node = NULL] /\ UNCHANGED crashed

remove_and_continue(s) ==
    /\ walk.s = s /\ walk.node # NULL
    /\ Unlink(s) /\ Onward(IF s = "cache" THEN c' ELSE q'[s], prev[walk.node], walk.rp)

\* qt_threadqueue_dequeue_specific moves the node to the tail; the task stays queued.
dequeue_specific(s, t) ==
    /\ Idle(s) /\ q[s].len > 0 /\ t \notin out /\ q[s].tail # t
    /\ \E i \in DOMAIN After[q[s].head] : After[q[s].head][i] = t
    /\ q' = [q EXCEPT ![s].head = IF @ = t THEN next[t] ELSE @, ![s].tail = t]
    /\ next' = [x \in Task |-> IF x = t THEN NULL ELSE IF x = q[s].tail THEN t
                                ELSE IF x = prev[t] THEN next[t] ELSE next[x]]
    /\ prev' = [x \in Task |-> IF x = t THEN q[s].tail ELSE IF x = next[t] THEN prev[t] ELSE prev[x]]
    /\ UNCHANGED <<c, out>> /\ Rest

-----------------------------------------------------------------------------

Shared(s) ==
    \/ \E t \in Task : enqueue(s, t) \/ enqueue_yielded(s, t) \/ dequeue_specific(s, t)
    \/ get_cached(s) \/ get_shared(s) \/ enqueue_cache(s)
    \/ \E want \in 1..Cardinality(Task) : steal_begin(s, want)
    \/ steal_segment(s) \/ \E v \in Shep : steal_end(s, v)
    \/ keep_and_stop(s) \/ remove_and_stop(s)
Cached == \E t \in Task : private_enqueue(t) \/ private_enqueue_yielded(t)
\* The filters that eurekas use also walk the cache.
Filters == \E s \in Shep \cup {"cache"} :
    filter_begin(s) \/ filter_end(s) \/ keep_and_continue(s) \/ remove_and_continue(s)
Next == ~crashed /\ ((\E s \in Shep : Shared(s)) \/ Cached \/ Filters)
Spec == Init /\ [][Next]_vars

\* Both directions of a list, or <<>> when they do not end within |Task| steps.
Forward(l)  == IF l.head = NULL THEN <<>> ELSE After[l.head]
Before[n \in Task] == IF prev[n] = NULL THEN <<n>> ELSE Append(Before[prev[n]], n)
Backward(l) == IF l.tail = NULL THEN <<>> ELSE Before[l.tail]
Steals(s) == Cardinality({i \in DOMAIN s : S(s[i]) = 1})
Sound(l) == Forward(l) = Backward(l) /\ l.len = Len(Forward(l)) /\ l.stl = Steals(Forward(l))


\* No task is lost or in two places: each is outside, on deck, or once in one list.
Holds(t) == {s \in Shep : \E i \in DOMAIN Forward(q[s]) : Forward(q[s])[i] = t}
TasksConserved ==
    (loot = NoLoot /\ walk = NoWalk) => \A t \in Task :
        Cardinality(Holds(t)) + (IF t \in out THEN 1 ELSE 0) + (IF t = c.deck THEN 1 ELSE 0)
        + (IF \E i \in DOMAIN Forward(c) : Forward(c)[i] = t THEN 1 ELSE 0) = 1

\* The assertion of qt_threadqueue_private_enqueue, line 346:
\* assert(c->tail == NULL || c->tail->next == NULL).
CacheEnds == c.tail = NULL \/ next[c.tail] = NULL
=============================================================================
