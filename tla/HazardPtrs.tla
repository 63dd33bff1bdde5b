----------------------------- MODULE HazardPtrs -----------------------------
(***************************************************************************)
(* Hazard pointers (src/hazardptrs.c): workers announce the nodes they     *)
(* use; a worker that unlinks a node keeps it in its own list, and frees   *)
(* what no announcement names when the list is full.  The user protocol is *)
(* that of the lock-free queues: announce, then check that the node is     *)
(* still linked.  Nodes that were freed come back from the pool.           *)
(***************************************************************************)
EXTENDS Naturals, FiniteSets, TLAPS

CONSTANTS Worker,        \* the workers of the library
          Node, Slack,   \* freelist_max is the number of workers plus Slack (7)
          NULL

freelist_max == Cardinality(Worker) + Slack

VARIABLES hp,            \* hazard pointer 0 of each worker
          linked, freed, \* the nodes in the data structure; the nodes given back
          freelist,      \* of each worker
          pc, ptr,       \* of each worker; the node it is about to use, or uses
          plist, looked  \* of a scan: the announcements collected so far, and whose they are
vars == <<hp, linked, freed, freelist, pc, ptr, plist, looked>>

Init ==
    /\ hp = [x \in Worker |-> NULL] /\ linked = Node /\ freed = {}
    /\ freelist = [w \in Worker |-> {}]
    /\ pc = [x \in Worker |-> "idle"] /\ ptr = [x \in Worker |-> NULL]
    /\ plist = [w \in Worker |-> {}] /\ looked = [w \in Worker |-> {}]

Goto(x, l) == pc' = [pc EXCEPT ![x] = l]

\* The user reads a pointer, announces it, and uses it if it is still linked.
read(x, n) ==
    /\ pc[x] = "idle" /\ n \in linked /\ ptr' = [ptr EXCEPT ![x] = n] /\ Goto(x, "read")
    /\ UNCHANGED <<hp, linked, freed, freelist, plist, looked>>

hazardous_ptr(x) ==
    /\ pc[x] = "read" /\ hp' = [hp EXCEPT ![x] = ptr[x]] /\ Goto(x, "announced")
    /\ UNCHANGED <<linked, freed, freelist, ptr, plist, looked>>
validate(x) ==
    /\ pc[x] = "announced" /\ Goto(x, IF ptr[x] \in linked THEN "using" ELSE "idle")
    /\ UNCHANGED <<hp, linked, freed, freelist, ptr, plist, looked>>

\* Done: the announcement stays (a dequeue from an empty queue) ...
leave(x) ==
    /\ pc[x] = "using" /\ Goto(x, "idle")
    /\ UNCHANGED <<hp, linked, freed, freelist, ptr, plist, looked>>

\* ... or the node is unlinked, by one of those who use it,
unlink(w) ==
    /\ pc[w] = "using" /\ ptr[w] \in linked /\ linked' = linked \ {ptr[w]} /\ Goto(w, "release")
    /\ UNCHANGED <<hp, freed, freelist, ptr, plist, looked>>

\* and goes to hazardous_release_node, which clears the worker's announcements and scans a
\* full list.
hazardous_release_node(w) ==
    /\ pc[w] = "release"
    /\ freelist' = [freelist EXCEPT ![w] = @ \cup {ptr[w]}]
    /\ hp' = [hp EXCEPT ![w] = NULL]
    /\ Goto(w, IF Cardinality(freelist[w]) + 1 = freelist_max THEN "scan" ELSE "idle")
    /\ UNCHANGED <<linked, freed, ptr, plist, looked>>

\* Stage 1 of hazardous_scan: the announcement of one worker after the other (those of
\* other threads, from hzptr_list, are copied behind the part of plist that is searched).
collect(w, x) ==
    /\ pc[w] = "scan" /\ x \notin looked[w]
    /\ looked' = [looked EXCEPT ![w] = @ \cup {x}]
    /\ plist' = IF x = w THEN plist ELSE [plist EXCEPT ![w] = @ \cup {hp[x]}]
    /\ UNCHANGED <<hp, linked, freed, freelist, pc, ptr>>


\* Stage 2: what was not announced is freed; the scan starts over when that was nothing.
hazardous_scan(w) ==
    LET kept == freelist[w] \cap plist[w]
    IN  /\ pc[w] = "scan" /\ looked[w] = Worker
        /\ freed' = freed \cup (freelist[w] \ kept) /\ freelist' = [freelist EXCEPT ![w] = kept]
        /\ plist' = [plist EXCEPT ![w] = {}] /\ looked' = [looked EXCEPT ![w] = {}]
        /\ Goto(w, IF Cardinality(kept) = freelist_max THEN "scan" ELSE "idle")
        /\ UNCHANGED <<hp, linked, ptr>>

\* A node comes back from the pool and is linked again.
reuse(n) ==
    /\ n \in freed /\ freed' = freed \ {n} /\ linked' = linked \cup {n}
    /\ UNCHANGED <<hp, freelist, pc, ptr, plist, looked>>

Scan(w) == hazardous_scan(w) \/ \E x \in Worker : collect(w, x)
Step(x) == \/ hazardous_ptr(x) \/ validate(x) \/ leave(x) \/ unlink(x) \/ hazardous_release_node(x)
           \/ \E n \in Node : read(x, n)
Next == (\E x \in Worker : Step(x) \/ Scan(x)) \/ \E n \in Node : reuse(n)
Spec == Init /\ [][Next]_vars

-----------------------------------------------------------------------------
\* Nobody uses a node that was given back ("if found, cannot free it", line 159), however
\* announcements, checks, unlinks and scans interleave.
UsedNotFreed == \A x \in Worker : pc[x] = "using" => ptr[x] \notin freed

TypeOK ==
    /\ hp \in [Worker -> Node \cup {NULL}] /\ ptr \in [Worker -> Node \cup {NULL}]
    /\ linked \subseteq Node /\ freed \subseteq Node /\ freelist \in [Worker -> SUBSET Node]
    /\ pc \in [Worker -> {"idle", "read", "announced", "using", "release", "scan"}]
    /\ plist \in [Worker -> SUBSET (Node \cup {NULL})] /\ looked \in [Worker -> SUBSET Worker]

\* A node is linked, freed, in one worker's list, or in the hands of the one that unlinked it.
Apart ==
    /\ linked \cap freed = {}
    /\ \A w \in Worker : freelist[w] \cap (linked \cup freed) = {}
    /\ \A v, w \in Worker : v # w => freelist[v] \cap freelist[w] = {}
    /\ \A w \in Worker : pc[w] = "release" =>
         /\ ptr[w] \notin linked \cup freed
         /\ \A v \in Worker : ptr[w] \notin freelist[v]
         /\ \A v \in Worker \ {w} : pc[v] = "release" => ptr[v] # ptr[w]

\* What a worker is about to use is a node; from then on it is announced.
Announced ==
    \A x \in Worker :
      /\ pc[x] \in {"read", "announced", "using", "release"} => ptr[x] \in Node
      /\ pc[x] \in {"announced", "using", "release"} => hp[x] = ptr[x]

\* A scan has collected the announcements that matter of all workers it has looked at: a
\* node in the list is no longer linked, so nobody begins to use it behind the scan's back.
Collected ==
    \A w \in Worker :
      /\ pc[w] # "scan" => looked[w] = {}
      /\ \A x \in looked[w] :
           (pc[x] = "using" /\ x # w /\ ptr[x] \in freelist[w]) => ptr[x] \in plist[w]

IInv == TypeOK /\ Apart /\ Announced /\ Collected /\ UsedNotFreed

-----------------------------------------------------------------------------
(* No worker uses a freed node, for any workers, nodes and length of lists. *)

\* The initial state satisfies the invariant.
LEMMA InitInv == Init => IInv
  BY DEF Init, IInv, TypeOK, Apart, Announced, Collected, UsedNotFreed

\* The steps of a user keep it: a node that is found linked is in nobody's list.
LEMMA StepInv == ASSUME IInv, NEW x \in Worker, Step(x) PROVE IInv'
  <1>1. CASE hazardous_ptr(x)
    BY <1>1 DEF hazardous_ptr, Goto, IInv, TypeOK, Apart, Announced, Collected, UsedNotFreed
  <1>2. CASE validate(x)
    BY <1>2 DEF validate, Goto, IInv, TypeOK, Apart, Announced, Collected, UsedNotFreed
  <1>3. CASE leave(x)
    BY <1>3 DEF leave, Goto, IInv, TypeOK, Apart, Announced, Collected, UsedNotFreed
  <1>4. CASE unlink(x)
    BY <1>4 DEF unlink, Goto, IInv, TypeOK, Apart, Announced, Collected, UsedNotFreed
  <1>5. CASE hazardous_release_node(x)
    BY <1>5 DEF hazardous_release_node, Goto, IInv, TypeOK, Apart, Announced, Collected, UsedNotFreed
  <1>6. ASSUME NEW n \in Node, read(x, n) PROVE IInv'
    BY <1>6 DEF read, Goto, IInv, TypeOK, Apart, Announced, Collected, UsedNotFreed
  <1>. QED BY <1>1, <1>2, <1>3, <1>4, <1>5, <1>6 DEF Step

\* So do those of a scan: at its end it has looked at everybody.
LEMMA ScanInv == ASSUME IInv, NEW w \in Worker, Scan(w) PROVE IInv'
  <1>1. ASSUME NEW x \in Worker, collect(w, x) PROVE IInv'
    BY <1>1 DEF collect, IInv, TypeOK, Apart, Announced, Collected, UsedNotFreed
  <1>2. CASE hazardous_scan(w)
    <2>1. TypeOK'
      BY <1>2 DEF hazardous_scan, Goto, IInv, TypeOK
    <2>2. Apart'
      BY <1>2 DEF hazardous_scan, Goto, IInv, TypeOK, Apart
    <2>3. Announced'
      BY <1>2 DEF hazardous_scan, Goto, IInv, TypeOK, Announced
    <2>4. Collected'
      BY <1>2 DEF hazardous_scan, Goto, IInv, TypeOK, Collected
    <2>5. UsedNotFreed'
      BY <1>2 DEF hazardous_scan, Goto, IInv, TypeOK, Announced, Collected, UsedNotFreed
    <2>. QED BY <2>1, <2>2, <2>3, <2>4, <2>5 DEF IInv
  <1>. QED BY <1>1, <1>2 DEF Scan

\* Every step keeps it.
LEMMA NextInv == ASSUME IInv, [Next]_vars PROVE IInv'
  <1>1. CASE UNCHANGED vars
    BY <1>1 DEF vars, IInv, TypeOK, Apart, Announced, Collected, UsedNotFreed
  <1>2. ASSUME NEW n \in Node, reuse(n) PROVE IInv'
    BY <1>2 DEF reuse, IInv, TypeOK, Apart, Announced, Collected, UsedNotFreed
  <1>. QED BY <1>1, <1>2, StepInv, ScanInv DEF Next

\* Nobody uses a node that a scan has given back (hazardous_scan), whatever the number of
\* workers and the length of their lists.
THEOREM UsedIsNotFreed == Spec => []UsedNotFreed
  <1>1. Init => IInv
    BY InitInv
  <1>2. IInv /\ [Next]_vars => IInv'
    BY NextInv
  <1>3. IInv => UsedNotFreed
    BY DEF IInv
  <1>. QED BY <1>1, <1>2, <1>3, PTL DEF Spec
=============================================================================
