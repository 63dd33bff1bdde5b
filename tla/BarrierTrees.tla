---------------------------- MODULE BarrierTrees ----------------------------
(***************************************************************************)
(* The two tree barriers, on full/empty words up[i] and down[i] per        *)
(* participant: src/barrier/array.c (a binary heap of ids) and             *)
(* src/barrier/log.c (pairing by the bits of the id).  A participant runs  *)
(* a list of steps: W waits for a word and empties it (readFE), S fills it *)
(* and waits while it is full (writeEF).                                   *)
(***************************************************************************)
EXTENDS Barrier

CONSTANTS Kind,           \* "array" or "log"
          OwnIds          \* array.c: qt_barrier_enter_id, not qt_barrier_enter
VARIABLES up, down,       \* is up[i], down[i] full?
          steps,          \* what a task inside has still to do
          participant     \* array.c: b->participant
vars == <<client, up, down, steps, participant>>

Id == 0..(Cardinality(Task) - 1)
W(a, i) == [op |-> "wait", a |-> a, i |-> i]
S(a, i) == [op |-> "signal", a |-> a, i |-> i]
If(c, s) == IF c THEN s ELSE <<>>

Init == /\ InitClient
        /\ up = [i \in Id |-> FALSE] /\ down = [i \in Id |-> FALSE]
        /\ steps = [t \in Task |-> <<>>]
        /\ participant = 0

\* array.c: the children, then the parent, then the children again.
array_enter_id(id, n) ==
    LET l == 2 * (id + 1) - 1  r == l + 1
    IN  If(l < n, <<W("up", l)>> \o If(r < n, <<W("up", r)>>))
        \o If(id > 0, <<S("up", id), W("down", id)>>)
        \o If(l < n, <<S("down", l)>> \o If(r < n, <<S("down", r)>>))

\* log.c: my pair at this level, if it exists.
Bit(id, level)  == (id \div 2^level) % 2
Pair(id, level) == IF Bit(id, level) = 0 THEN id + 2^level ELSE id - 2^level
doneLevel(n)    == CHOOSE d \in 1..n : 2^d >= n /\ (d = 1 \/ 2^(d - 1) < n)

\* qtb_internal_down: release the pairs above me at this level and below.
internal_down[id \in Id, level \in Int, n \in Nat] ==
    IF level < 0 THEN <<>>
    ELSE If(Pair(id, level) < n /\ Pair(id, level) > id, <<S("down", Pair(id, level))>>)
         \o internal_down[id, level - 1, n]

\* qtb_internal_up: wait for the higher pair and climb; without a pair, or below a
\* lower one, report and wait for the release.
internal_up[id \in Id, level \in Nat, n \in Nat] ==
    IF Pair(id, level) >= n \/ Pair(id, level) < id
      THEN <<S("up", id), W("down", id)>> \o If(level # 0, internal_down[id, level, n])
    ELSE <<W("up", Pair(id, level))>> \o
         IF level + 1 < doneLevel(n) \/ id # 0 THEN internal_up[id, level + 1, n]
                                                ELSE internal_down[id, level, n]

log_enter_id(id, n) == IF n <= 1 THEN <<>> ELSE internal_up[id, 0, n]

\* array.c's qt_barrier_enter numbers the callers in order of arrival.
enter(t) ==
    /\ Arrive(t, "in")
    /\ participant' = participant + IF OwnIds THEN 0 ELSE 1
    /\ LET id == IF OwnIds THEN t ELSE participant % Size
       IN  steps' = [steps EXCEPT ![t] = IF Kind = "array" THEN array_enter_id(id, Size)
                                                           ELSE log_enter_id(id, Size)]
    /\ UNCHANGED <<up, down>>

Full(s) == IF s.a = "up" THEN up[s.i] ELSE down[s.i]

\* WAIT: qthread_readFE; SIGNAL: qthread_writeEF.
step(t) ==
    /\ pc[t] = "in" /\ steps[t] # <<>>
    /\ LET s == Head(steps[t])
       IN  /\ Full(s) = (s.op = "wait")
           /\ up'   = IF s.a = "up" THEN [up EXCEPT ![s.i] = ~@] ELSE up
           /\ down' = IF s.a = "down" THEN [down EXCEPT ![s.i] = ~@] ELSE down
    /\ steps' = [steps EXCEPT ![t] = Tail(@)]
    /\ UNCHANGED <<client, participant>>

leave(t) == pc[t] = "in" /\ steps[t] = <<>> /\ Depart(t) /\ UNCHANGED <<up, down, steps, participant>>

\* array.c: qt_barrier_resize; log.c: qt_global_barrier_resize makes a new barrier.
\* Both leave every word empty.
resize == /\ Regroup
          /\ participant' = 0
          /\ up' = IF Kind = "log" THEN [i \in Id |-> FALSE] ELSE up
          /\ down' = IF Kind = "log" THEN [i \in Id |-> FALSE] ELSE down
          /\ UNCHANGED steps

Enter(t) == enter(t) \/ step(t) \/ leave(t)
Next == resize \/ \E t \in Task : Enter(t)
Spec == Init /\ [][Next]_vars /\ WF_vars(resize) /\ \A t \in Task : WF_vars(Enter(t))
=============================================================================
