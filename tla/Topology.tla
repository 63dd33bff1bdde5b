------------------------------ MODULE Topology ------------------------------
(***************************************************************************)
(* The layout of the runtime, as qthread_initialize computes it from the    *)
(* environment and the machine: how many shepherds and workers              *)
(* (src/src/affinity/common.c and the affinity back ends), which NUMA node  *)
(* or CPU each shepherd gets, how far it is from the others and in which    *)
(* order it visits them (qt_affinity_gendists, shufflesheps.h), and which   *)
(* workers start active under which ids (src/src/qthread.c).                *)
(*                                                                          *)
(* A machine is a sequence of nodes with a number of CPUs each; the calls   *)
(* into libnuma, liblgrp, PLPA and the operating system are its reading.    *)
(***************************************************************************)
EXTENDS Integers, Sequences, FiniteSets, FiniteSetsExt, SequencesExt

CONSTANTS Backends,   \* a subset of AllBackends
          Machines,   \* sequences of CPU counts, one per node
          NodeDist(_, _),  \* numa_distance, lgrp_latency_cookie: by node
          Envs        \* records sheps, wps, par: the environment variables, 0 for unset

VARIABLES backend, machine, env, single,   \* the inputs; single: SINGLE_WORKER scheduler
          stage,
          nsheps, nworkers, hw_par,        \* what qt_topology_init returns
          node,                            \* the node of every shepherd, -1 for none
          left, at, over,                  \* CPUs not given out, next node, over_subscribing
          me,                              \* the shepherd whose list is built
          s, tmp                           \* sort_sheps: what is left of the list, and the result

vars == <<backend, machine, env, single, stage, nsheps, nworkers, hw_par, node, left, at, over, me, s, tmp>>

Nodes(m) == 0..Len(m)-1
Cpus(m) == FoldSeq(LAMBDA a, b : a + b, 0, m)
Ceil(a, b) == a \div b + IF a % b # 0 THEN 1 ELSE 0
AtLeast1(x) == IF x <= 0 THEN 1 ELSE x

Init ==
  /\ backend \in Backends /\ machine \in Machines /\ env \in Envs /\ single \in BOOLEAN
  /\ stage = "start"
  /\ nsheps = 0 /\ nworkers = 0 /\ hw_par = 0
  /\ node = <<>> /\ left = <<>> /\ at = 0 /\ over = FALSE
  /\ me = 0 /\ s = <<>> /\ tmp = <<>>

---------------------------------------------------------------------------
\* qt_internal_get_env_num: an unset variable gives dflt, a zero zerodflt.
get_env_num(v, zerodflt) == IF v = 0 THEN zerodflt ELSE v

\* guess_num_shepherds of each back end.
guess_sys(m) == Cpus(m)
guess_mach(m) == Cpus(m)
guess_plpa(m) == Cpus(m)
guess_tilera(m) == Cpus(m)
guess_libnuma(m) == AtLeast1(Len(m))
guess_libnumaV2(m) == AtLeast1(Len(m))
\* lgrp_walk counts the groups that hold CPUs themselves.
lgrp_walk(m) == SelectSeq([i \in 1..Len(m) |-> i - 1], LAMBDA i : m[i + 1] > 0)
guess_lgrp(m) == AtLeast1(Len(lgrp_walk(m)))

\* guess_num_workers_per_shep of each back end.
workers_sys(m, n) == AtLeast1(Cpus(m) \div n)
workers_libnuma(m, n) == AtLeast1(Cpus(m) \div n)
workers_libnumaV2(m, n) == AtLeast1(Cpus(m) \div n)
lgrp_maxcpus(m) == Max({m[i] : i \in DOMAIN m})
workers_lgrp(m, n) ==
  LET tot == Len(lgrp_walk(m))
  IN AtLeast1(IF n > tot THEN lgrp_maxcpus(m) \div (n \div tot) ELSE lgrp_maxcpus(m))

\* qt_affinity_init of each back end: the counts that were left to it.
init_no(m, n, w) == <<AtLeast1(n), AtLeast1(w)>>
init_sys(m, n, w) == LET k == IF n = 0 THEN guess_sys(m) ELSE n
                     IN <<k, IF w = 0 THEN workers_sys(m, k) ELSE w>>
init_mach(m, n, w) == <<IF n = 0 THEN guess_mach(m) ELSE n, IF w = 0 THEN 1 ELSE w>>
init_plpa(m, n, w) == <<IF n = 0 THEN guess_plpa(m) ELSE n, IF w = 0 THEN 1 ELSE w>>
init_tilera(m, n, w) == <<IF n = 0 THEN guess_tilera(m) ELSE n, IF w = 0 THEN 1 ELSE w>>
init_libnuma(m, n, w) == LET k == IF n = 0 THEN guess_libnuma(m) ELSE n
                         IN <<k, IF w = 0 THEN workers_libnuma(m, k) ELSE w>>
init_libnumaV2(m, n, w) == LET k == IF n = 0 THEN guess_libnumaV2(m) ELSE n
                           IN <<k, IF w = 0 THEN workers_libnumaV2(m, k) ELSE w>>
init_lgrp(m, n, w) == LET k == IF n = 0 THEN guess_lgrp(m) ELSE n
                      IN <<k, IF w = 0 THEN workers_lgrp(m, k) ELSE w>>

affinity_init(m, n, w) ==
  CASE backend = "no" -> init_no(m, n, w)
    [] backend = "sys" -> init_sys(m, n, w)
    [] backend = "mach" -> init_mach(m, n, w)
    [] backend = "plpa" -> init_plpa(m, n, w)
    [] backend = "tilera" -> init_tilera(m, n, w)
    [] backend = "libnuma" -> init_libnuma(m, n, w)
    [] backend = "libnumaV2" -> init_libnumaV2(m, n, w)
    [] backend = "lgrp" -> init_lgrp(m, n, w)

\* Mutant: the workers of a shepherd are rounded down.
adjust_floor(n, w, k) ==
  IF k = 0 THEN <<n, w, n * w>>
  ELSE IF k < n \/ k = 1 THEN <<k, 1, k>>
  ELSE <<n, k \div n, k>>

\* The last part of qt_topology_init: fit n shepherds of w workers to k workers in all.
adjust(n, w, k) ==
  IF k = 0 THEN <<n, w, n * w>>
  ELSE IF k < n \/ k = 1 THEN <<k, 1, k>>
  ELSE <<n, Ceil(k, n), k>>

\* qt_topology_init; a scheduler that allows one worker per shepherd ends the program when
\* more come out.
topology_init ==
  LET w == IF single THEN 1 ELSE env.wps
      k == get_env_num(env.par, env.sheps * env.wps)
      c == affinity_init(machine, env.sheps, w)
      r == adjust(c[1], c[2], k)
  IN /\ stage = "start"
     /\ nsheps' = r[1] /\ nworkers' = r[2] /\ hw_par' = r[3]
     /\ stage' = IF single /\ r[2] # 1 THEN "exit" ELSE "assign"
     /\ left' = machine
     /\ UNCHANGED <<backend, machine, env, single, node, at, over, me, s, tmp>>

---------------------------------------------------------------------------
\* The assignment of nodes, one shepherd per step.

\* Mutant: the nodes in turn, whatever they have left.
assign_blind ==
  /\ node' = Append(node, at)
  /\ at' = (at + 1) % Len(machine)
  /\ UNCHANGED <<left, over>>

\* libnumaV2: round robin over the nodes that have a CPU left, over all when none has.
assign_nodes ==
  LET n == Len(machine)
      free == {d \in 0..n-1 : left[((at + d) % n) + 1] > 0}
      v == IF over \/ free = {} THEN at ELSE (at + Min(free)) % n
  IN /\ node' = Append(node, v)
     /\ left' = IF over \/ free = {} THEN left ELSE [left EXCEPT ![v + 1] = @ - 1]
     /\ over' = (over \/ free = {})
     /\ at' = (v + 1) % n

\* lgrp: from group i modulo the number of groups on, the first that has a CPU left.
assign_lgrp ==
  LET g == lgrp_walk(machine)
      i == Len(node)
      free == {d \in 0..Len(g)-1 : left[g[((i + d) % Len(g)) + 1] + 1] > 0}
      v == g[((i + Min(free)) % Len(g)) + 1]
  IN /\ IF free = {} THEN node' = Append(node, -1) /\ UNCHANGED left
                     ELSE node' = Append(node, v) /\ left' = [left EXCEPT ![v + 1] = @ - 1]
     /\ UNCHANGED <<at, over>>

\* libnuma: the nodes in turn.
assign_libnuma == node' = Append(node, Len(node) % Len(machine)) /\ UNCHANGED <<left, at, over>>

\* plpa: the first CPU of the shepherd's workers.  tilera: the CPUs in turn.
assign_plpa == node' = Append(node, Len(node) * nworkers) /\ UNCHANGED <<left, at, over>>
assign_tilera == node' = Append(node, Len(node) % Cpus(machine)) /\ UNCHANGED <<left, at, over>>

\* The others know no nodes.
assign_none == node' = Append(node, -1) /\ UNCHANGED <<left, at, over>>

Assign ==
  /\ stage = "assign" /\ Len(node) < nsheps
  /\ CASE backend = "libnumaV2" -> assign_nodes
       [] backend = "lgrp" -> assign_lgrp
       [] backend = "libnuma" -> assign_libnuma
       [] backend = "plpa" -> assign_plpa
       [] backend = "tilera" -> assign_tilera
       [] OTHER -> assign_none
  /\ UNCHANGED <<backend, machine, env, single, stage, nsheps, nworkers, hw_par, me, s, tmp>>

---------------------------------------------------------------------------
\* shep_dists of shepherd i, indexed by shepherd.

dists_no(i, j) == IF i = j THEN 0 ELSE 10
dists_sys(i, j) == IF i = j THEN 0 ELSE 10
dists_mach(i, j) == IF i = j THEN 0 ELSE 10
dists_plpa(i, j) == IF i = j THEN 0 ELSE 10
dists_libnuma(i, j) ==
  IF node[i + 1] # node[j + 1] THEN NodeDist(node[i + 1], node[j + 1]) ELSE IF i = j THEN 0 ELSE 20
dists_libnumaV2(i, j) == NodeDist(node[i + 1], node[j + 1])
dists_lgrp(i, j) ==
  IF node[i + 1] # -1 /\ node[j + 1] # -1 THEN NodeDist(node[i + 1], node[j + 1]) ELSE IF i = j THEN 12 ELSE 18
\* tilera: the steps between two tiles of a grid two tiles wide.
Apart(a, b) == IF a > b THEN a - b ELSE b - a
dists_tilera(i, j) ==
  LET a == node[i + 1]
      b == node[j + 1]
  IN Apart(a % 2, b % 2) + Apart(a \div 2, b \div 2)

shep_dists(i) ==
  [j \in 0..nsheps-1 |-> CASE backend = "libnuma" -> dists_libnuma(i, j)
                           [] backend = "libnumaV2" -> dists_libnumaV2(i, j)
                           [] backend = "lgrp" -> dists_lgrp(i, j)
                           [] backend = "tilera" -> dists_tilera(i, j)
                           [] backend = "no" -> dists_no(i, j)
                           [] backend = "sys" -> dists_sys(i, j)
                           [] backend = "mach" -> dists_mach(i, j)
                           [] backend = "plpa" -> dists_plpa(i, j)]

\* The unsorted list: the other shepherds in order.
others(i) == SelectSeq([k \in 1..nsheps |-> k - 1], LAMBDA j : j # i)

\* shuffle_sheps swaps each entry with a random one: any order can come out.
shuffle_sheps(q) == {[k \in DOMAIN q |-> q[f[k]]] : f \in {g \in [DOMAIN q -> DOMAIN q] : IsInjective(g)}}

gendists ==
  /\ stage = "assign" /\ Len(node) = nsheps
  /\ \E i \in 0..nsheps-1 : me' = i /\ s' = others(i)
  /\ stage' = "sort"
  /\ UNCHANGED <<backend, machine, env, single, nsheps, nworkers, hw_par, node, left, at, over, tmp>>

\* Mutant: the rest of the list is compressed by an index that starts one too late.
sort_drops ==
  LET d == shep_dists(me)
      mindist == Min({d[s[k]] : k \in DOMAIN s})
  IN /\ stage = "sort" /\ s # <<>>
     /\ \E q \in shuffle_sheps(SelectSeq(s, LAMBDA j : d[j] = mindist)) : tmp' = tmp \o q
     /\ LET r == SelectSeq(s, LAMBDA j : d[j] > mindist) IN s' = IF r = <<>> THEN r ELSE Tail(r)
     /\ UNCHANGED <<backend, machine, env, single, stage, nsheps, nworkers, hw_par, node, left, at, over, me>>

\* One round of sort_sheps: the nearest shepherds left, shuffled, go to the result.
sort_sheps ==
  LET d == shep_dists(me)
      mindist == Min({d[s[k]] : k \in DOMAIN s})
  IN /\ stage = "sort" /\ s # <<>>
     /\ \E q \in shuffle_sheps(SelectSeq(s, LAMBDA j : d[j] = mindist)) : tmp' = tmp \o q
     /\ s' = SelectSeq(s, LAMBDA j : d[j] > mindist)
     /\ UNCHANGED <<backend, machine, env, single, stage, nsheps, nworkers, hw_par, node, left, at, over, me>>

Finish ==
  /\ stage = "sort" /\ s = <<>>
  /\ stage' = "done"
  /\ UNCHANGED <<backend, machine, env, single, nsheps, nworkers, hw_par, node, left, at, over, me, s, tmp>>

Next == topology_init \/ Assign \/ gendists \/ sort_sheps \/ Finish

Spec == Init /\ [][Next]_vars

---------------------------------------------------------------------------
\* What qthread_initialize derives from the counts.

AllWorkers == (0..nsheps-1) \X (0..nworkers-1)

\* The activity flag of worker j of shepherd i.
starts_active(i, j) == (i = 0 /\ j = 0) \/ ~((j * nsheps) + i + 1 > hw_par)

Known == stage \notin {"start", "exit"}

\* The number of workers that start active is the number the counter nworkers_active
\* starts with, and every shepherd has its first worker among them, so that none starts
\* with a queue nobody serves (qt_topology_init's adjustment against the activation test of
\* qthread_initialize; man: extra workers "will begin in a disabled state").
ActiveWorkers ==
  Known => /\ Cardinality({w \in AllWorkers : starts_active(w[1], w[2])}) = hw_par
           /\ \A i \in 0..nsheps-1 : starts_active(i, 0)

\* As long as the shepherds do not outnumber the CPUs, no node is given to more shepherds
\* than it has CPUs (assign_nodes of libnumaV2: "handle heterogeneous core counts"; the
\* search for an unused CPU in lgrp's qt_affinity_gendists).
NoOversubscription ==
  backend \in {"libnumaV2", "lgrp"} /\ Len(node) <= Cpus(machine) =>
    \A v \in Nodes(machine) : Cardinality({i \in DOMAIN node : node[i] = v}) <= machine[v + 1]

\* The finished list names every other shepherd once, nearest first (sorted_sheplist, on
\* which stealing and the rerouting around disabled shepherds rely).
SortedList ==
  stage = "done" =>
    /\ Len(tmp) = nsheps - 1 /\ ToSet(tmp) = (0..nsheps-1) \ {me}
    /\ \A a, b \in DOMAIN tmp : a < b => shep_dists(me)[tmp[a]] <= shep_dists(me)[tmp[b]]
=============================================================================
