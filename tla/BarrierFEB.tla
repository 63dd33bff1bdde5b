----------------------------- MODULE BarrierFEB -----------------------------
(***************************************************************************)
(* The default barrier (src/barrier/feb.c): a counter of the tasks inside, *)
(* and two full/empty words used as gates.                                 *)
(***************************************************************************)
EXTENDS Barrier, TLAPS, FiniteSetTheorems

VARIABLES in_gate, out_gate,   \* full?
          blockers, max_blockers
vars == <<client, in_gate, out_gate, blockers, max_blockers>>

\* qt_barrier_create
Init == /\ InitClient
        /\ in_gate = TRUE /\ out_gate = FALSE
        /\ blockers = 0 /\ max_blockers = Size

\* qthread_readFF of the in_gate
pass_in_gate(t) ==
    /\ pc[t] = "in_gate" /\ in_gate /\ Move(t, "count")
    /\ UNCHANGED <<in_gate, out_gate, blockers, max_blockers>>

\* qthread_incr: the last one in will open the out_gate.
count_in(t) ==
    /\ pc[t] = "count"
    /\ blockers' = blockers + 1
    /\ IF blockers + 1 = max_blockers THEN Move(t, "close_in") ELSE Move(t, "out_gate")
    /\ UNCHANGED <<in_gate, out_gate, max_blockers>>

\* qthread_readFF of the out_gate
pass_out_gate(t) ==
    /\ pc[t] = "out_gate" /\ out_gate /\ Move(t, "out")
    /\ UNCHANGED <<in_gate, out_gate, blockers, max_blockers>>

\* The last one in closes the in_gate, then opens the out_gate.
swap_in(t) ==
    \/ /\ pc[t] = "close_in" /\ Move(t, "open_out")
       /\ in_gate' = FALSE
       /\ UNCHANGED <<out_gate, blockers, max_blockers>>
    \/ /\ pc[t] = "open_out" /\ Move(t, "out")
       /\ out_gate' = TRUE
       /\ UNCHANGED <<in_gate, blockers, max_blockers>>

count_out(t) ==
    /\ pc[t] = "out"
    /\ blockers' = blockers - 1
    /\ IF blockers = 1 THEN Move(t, "close_out") ELSE Depart(t)
    /\ UNCHANGED <<in_gate, out_gate, max_blockers>>

\* Mutant of swap_out: the in_gate is opened before the out_gate is closed.
swap_out_swapped(t) ==
    \/ /\ pc[t] = "close_out" /\ Move(t, "open_in")
       /\ in_gate' = TRUE
       /\ UNCHANGED <<out_gate, blockers, max_blockers>>
    \/ /\ pc[t] = "open_in" /\ Depart(t)
       /\ out_gate' = FALSE
       /\ UNCHANGED <<in_gate, blockers, max_blockers>>

\* The last one out closes the out_gate, then opens the in_gate.
swap_out(t) ==
    \/ /\ pc[t] = "close_out" /\ Move(t, "open_in")
       /\ out_gate' = FALSE
       /\ UNCHANGED <<in_gate, blockers, max_blockers>>
    \/ /\ pc[t] = "open_in" /\ Depart(t)
       /\ in_gate' = TRUE
       /\ UNCHANGED <<out_gate, blockers, max_blockers>>

\* qt_barrier_resize: assert(b->blockers == 0)
resize == /\ Regroup
          /\ max_blockers' = Cardinality(Groups[phase + 1])
          /\ UNCHANGED <<in_gate, out_gate, blockers>>

Enter(t) ==
    \/ Arrive(t, "in_gate") /\ UNCHANGED <<in_gate, out_gate, blockers, max_blockers>>
    \/ pass_in_gate(t) \/ count_in(t) \/ swap_in(t) \/ pass_out_gate(t) \/ count_out(t) \/ swap_out(t)
Next == resize \/ \E t \in Task : Enter(t)

\* Runnable tasks run; the group's owner does resize.
Spec == Init /\ [][Next]_vars /\ WF_vars(resize) /\ \A t \in Task : WF_vars(Enter(t))

-----------------------------------------------------------------------------
\* The barrier keeps its promise: "will cause the thread to block until the specified
\* number of threads has entered the same barrier" (qthread_feb_barrier_create(3)).
ImplementsBarrier == Promise

\* There is a first group, and every group is a finite set of tasks.
GroupsAssumption ==
    /\ Groups \in Seq(SUBSET Task) /\ Groups # <<>>
    /\ \A g \in DOMAIN Groups : IsFiniteSet(Groups[g])
    /\ Rounds \in Nat

\* The labels of qt_barrier_enter.
Places == {"idle", "in_gate", "count", "close_in", "open_out", "out_gate", "out", "close_out", "open_in"}

TypeOK ==
    /\ entered \in [Task -> Nat] /\ left \in [Task -> Nat]
    /\ member \subseteq Task /\ IsFiniteSet(member)
    /\ phase \in 1..Len(Groups) /\ pc \in [Task -> Places]
    /\ in_gate \in BOOLEAN /\ out_gate \in BOOLEAN /\ blockers \in Nat
    /\ max_blockers = Cardinality(member)

\* Who was counted in and not yet counted out.
Inside == {t \in member : pc[t] \in {"close_in", "open_out", "out_gate", "out"}}

\* A task is inside qt_barrier_enter if it has entered once more than it left; only members are.
Counts ==
    /\ blockers = Cardinality(Inside)
    /\ \A t \in Task : entered[t] = IF pc[t] = "idle" THEN left[t] ELSE left[t] + 1
    /\ \A t \in Task \ member : pc[t] = "idle"

\* Where the other members are.
Others(t, S) == \A u \in member \ {t} : pc[u] \in S

\* The stages of a round.  Tasks gather behind the open in_gate until the last one is in, ...
Gathering ==
    /\ in_gate /\ ~out_gate
    /\ \A u \in member : pc[u] \in {"idle", "in_gate", "count", "out_gate"}
    /\ Inside = member => member = {}
\* ... who swaps the gates, ...
Full(t) == in_gate /\ ~out_gate /\ pc[t] = "close_in" /\ Others(t, {"out_gate"})
Opening(t) == ~in_gate /\ ~out_gate /\ pc[t] = "open_out" /\ Others(t, {"out_gate"})
\* ... they leave, and some come around to the closed in_gate, ...
Draining ==
    /\ ~in_gate /\ out_gate
    /\ \A u \in member : pc[u] \in {"idle", "in_gate", "out_gate", "out"}
    /\ Inside # {}
\* ... until the last one is out, who swaps the gates back.
Drained(t) == ~in_gate /\ out_gate /\ pc[t] = "close_out" /\ Others(t, {"idle", "in_gate"})
Closing(t) == ~in_gate /\ ~out_gate /\ pc[t] = "open_in" /\ Others(t, {"idle", "in_gate"})

\* In the first half of round r nobody has left it; in the second half those who have are
\* outside, or in front of the closed in_gate.
Round(r) ==
    \/ /\ Gathering \/ \E t \in member : Full(t) \/ Opening(t)
       /\ \A u \in member : left[u] = r
    \/ /\ Draining \/ \E t \in member : Drained(t) \/ Closing(t)
       /\ \A u \in member : left[u] = IF pc[u] \in {"idle", "in_gate"} THEN r + 1 ELSE r

\* The inductive invariant.
IInv == TypeOK /\ Counts /\ \E r \in Nat : Round(r)

-----------------------------------------------------------------------------
(* Every step keeps the invariant and is a step of the promise, for any    *)
(* tasks, groups and number of rounds.                                     *)

\* The next state is as the invariant wants it, and the step was a step of the promise.
Kept == IInv' /\ (PromiseNext \/ UNCHANGED promise)

\* What blockers tells: it is the number of members inside.
LEMMA InsideSize ==
  ASSUME TypeOK, Counts
  PROVE  /\ IsFiniteSet(Inside) /\ Inside \subseteq member
         /\ Cardinality(Inside) = Cardinality(member) => Inside = member
         /\ \A t \in Inside : Cardinality(Inside) = 1 => Inside = {t}
         /\ Cardinality(Inside) \in Nat /\ Cardinality(member) \in Nat
  <1>1. Inside \subseteq member
    BY Zenon DEF Inside
  <1>2. IsFiniteSet(Inside) /\ (Cardinality(Inside) = Cardinality(member) => Inside = member)
    BY Zenon, <1>1, FS_Subset DEF TypeOK
  <1>3. ASSUME NEW t \in Inside, Cardinality(Inside) = 1 PROVE Inside = {t}
    BY <1>2, <1>3, FS_Singleton
  <1>. QED BY Zenon, <1>1, <1>2, <1>3, FS_CardinalityType DEF TypeOK

\* The initial state satisfies the invariant and is one of the promise (qt_barrier_create).
LEMMA InitInv == ASSUME GroupsAssumption PROVE Init => IInv /\ PromiseInit
  <1>. SUFFICES ASSUME Init PROVE IInv /\ PromiseInit
    BY Zenon
  <1>1. 1 \in DOMAIN Groups /\ Groups[1] \subseteq Task /\ IsFiniteSet(Groups[1])
    BY DEF GroupsAssumption
  <1>2. TypeOK
    <2>1. 1 \in 1..Len(Groups)
      BY DEF GroupsAssumption
    <2>. QED BY Zenon, <1>1, <2>1 DEF Init, InitClient, TypeOK, Size, Places
  <1>3. Inside = {}
    BY Zenon, <1>1 DEF Init, InitClient, Inside
  <1>4. Counts
    BY Zenon, <1>1, <1>3, FS_EmptySet DEF Init, InitClient, Counts
  <1>5. Gathering /\ \A u \in member : left[u] = 0
    BY Zenon, <1>1, <1>3 DEF Init, InitClient, Gathering
  <1>. QED BY Zenon, <1>1, <1>2, <1>4, <1>5 DEF IInv, Round, PromiseInit, Init, InitClient

\* A task inside qt_barrier_enter is a member.
LEMMA OnlyMembers == ASSUME Counts, NEW t \in Task, pc[t] # "idle" PROVE t \in member
  BY Zenon DEF Counts

\* A call of qt_barrier_enter.
LEMMA ArriveKept ==
  ASSUME IInv, GroupsAssumption, NEW t \in Task, Arrive(t, "in_gate"),
         UNCHANGED <<in_gate, out_gate, blockers, max_blockers>>
  PROVE  Kept
  <1>1. Inside' = Inside
    BY Zenon DEF IInv, TypeOK, Places, Inside, Arrive
  <1>2. TypeOK'
    BY DEF IInv, TypeOK, Places, Arrive
  <1>3. Counts'
    BY Zenon, <1>1 DEF IInv, TypeOK, Places, Counts, Arrive
  <1>4. ASSUME NEW r \in Nat, Round(r) PROVE Round(r)'
    <2>1. Gathering => Gathering'
      BY Zenon, <1>1 DEF IInv, TypeOK, Gathering, Arrive
    <2>2. Draining => Draining'
      BY Zenon, <1>1 DEF IInv, TypeOK, Draining, Arrive
    <2>3. ASSUME NEW u \in member
          PROVE  /\ (Full(u) => Full(u)') /\ (Opening(u) => Opening(u)')
                 /\ (Drained(u) => Drained(u)') /\ (Closing(u) => Closing(u)')
      BY Zenon DEF IInv, TypeOK, Full, Opening, Drained, Closing, Others, Arrive
    <2>4. /\ member' = member /\ left' = left
          /\ \A u \in member : pc[u] \in {"idle", "in_gate"} <=> pc'[u] \in {"idle", "in_gate"}
      BY Zenon DEF IInv, TypeOK, Arrive
    <2>. QED BY Zenon, <1>4, <2>1, <2>2, <2>3, <2>4 DEF Round
  <1>5. enters(t)
    BY Zenon DEF IInv, Counts, Arrive, enters
  <1>. QED BY Zenon, <1>2, <1>3, <1>4, <1>5 DEF IInv, Kept, PromiseNext

\* The in_gate is passed while tasks gather, or while the last one in has yet to close it.
LEMMA InGateKept ==
  ASSUME IInv, NEW t \in Task, pass_in_gate(t)
  PROVE  Kept
  <1>. t \in member
    BY Zenon, OnlyMembers DEF IInv, pass_in_gate
  <1>1. Inside' = Inside
    BY Zenon DEF IInv, TypeOK, Places, Inside, pass_in_gate, Move
  <1>2. TypeOK'
    BY Zenon DEF IInv, TypeOK, Places, pass_in_gate, Move
  <1>3. Counts'
    BY Zenon, <1>1 DEF IInv, TypeOK, Places, Counts, pass_in_gate, Move
  <1>4. ASSUME NEW r \in Nat, Round(r) PROVE Round(r)'
    <2>1. Gathering /\ \A u \in member : left[u] = r
      BY Zenon, <1>4 DEF Round, Full, Opening, Draining, Drained, Closing, Others, pass_in_gate
    <2>2. Gathering' /\ \A u \in member' : left'[u] = r
      BY Zenon, <1>1, <2>1 DEF IInv, TypeOK, Gathering, pass_in_gate, Move
    <2>. QED BY Zenon, <2>2 DEF Round
  <1>. QED BY Zenon, <1>2, <1>3, <1>4 DEF IInv, Kept, promise, pass_in_gate, Move

\* The one who finds itself the last one in has seen all others counted.
LEMMA CountInKept ==
  ASSUME IInv, NEW t \in Task, count_in(t)
  PROVE  Kept
  <1>. t \in member
    BY Zenon, OnlyMembers DEF IInv, count_in
  <1>0. IsFiniteSet(Inside) /\ Inside \subseteq member /\ IsFiniteSet(member)
    BY Zenon, InsideSize DEF IInv, TypeOK
  <1>1. Inside' = Inside \cup {t} /\ t \notin Inside
    BY Zenon DEF IInv, TypeOK, Places, Inside, count_in, Move
  <1>2. Cardinality(Inside') = blockers + 1
    BY Zenon, <1>0, <1>1, FS_AddElement DEF IInv, Counts
  <1>3. TypeOK'
    <2>1. pc' \in [Task -> Places] /\ UNCHANGED <<entered, left, member, phase>>
      BY Zenon DEF IInv, TypeOK, Places, count_in, Move
    <2>. QED BY <2>1 DEF IInv, TypeOK, count_in
  <1>4. Counts'
    BY Zenon, <1>2 DEF IInv, TypeOK, Places, Counts, count_in, Move
  <1>5. ASSUME NEW r \in Nat, Round(r) PROVE Round(r)'
    <2>1. Gathering /\ \A u \in member : left[u] = r
      BY Zenon, <1>5 DEF Round, Full, Opening, Draining, Drained, Closing, Others, count_in
    <2>2. member' = member /\ \A u \in member' : left'[u] = r
      BY Zenon, <2>1 DEF IInv, TypeOK, count_in, Move
    <2>3. CASE blockers + 1 = max_blockers
      <3>1. Inside' = member
        <4>1. Inside' \subseteq member
          BY Zenon, <1>0, <1>1
        <4>. QED BY Zenon, <1>0, <1>2, <2>3, <4>1, FS_Subset DEF IInv, TypeOK
      <3>2. Others(t, {"out_gate"})'
        <4>1. \A u \in member \ {t} : u \in Inside /\ pc'[u] = pc[u]
          BY Zenon, <1>1, <2>3, <3>1 DEF IInv, TypeOK, count_in, Move
        <4>2. \A u \in member \ {t} : pc[u] = "out_gate"
          BY Zenon, <2>1, <4>1 DEF Inside, Gathering
        <4>. QED BY Zenon, <2>2, <4>1, <4>2 DEF Others
      <3>3. Full(t)'
        BY Zenon, <2>1, <2>3, <3>2 DEF IInv, TypeOK, Full, Gathering, count_in, Move
      <3>. QED BY Zenon, <2>2, <3>3 DEF Round
    <2>4. CASE blockers + 1 # max_blockers
      <3>1. Inside' # member'
        BY Zenon, <1>2, <2>2, <2>4 DEF IInv, TypeOK
      <3>2. Gathering'
        BY Zenon, <2>1, <2>2, <2>4, <3>1 DEF IInv, TypeOK, Gathering, count_in, Move
      <3>. QED BY Zenon, <2>2, <3>2 DEF Round
    <2>. QED BY Zenon, <2>3, <2>4
  <1>. QED BY Zenon, <1>3, <1>4, <1>5 DEF IInv, Kept, promise, count_in, Move

\* The last one in closes the in_gate and opens the out_gate; nobody moves meanwhile.
LEMMA SwapInKept ==
  ASSUME IInv, NEW t \in Task, swap_in(t)
  PROVE  Kept
  <1>. t \in member
    BY Zenon, OnlyMembers DEF IInv, swap_in
  <1>1. Inside' = Inside /\ t \in Inside
    BY Zenon DEF IInv, TypeOK, Places, Inside, swap_in, Move
  <1>2. TypeOK'
    BY Zenon DEF IInv, TypeOK, Places, swap_in, Move
  <1>3. Counts'
    BY Zenon, <1>1 DEF IInv, TypeOK, Places, Counts, swap_in, Move
  <1>4. ASSUME NEW r \in Nat, Round(r) PROVE Round(r)'
    <2>1. \A u \in member' : left'[u] = r
      BY Zenon, <1>4 DEF IInv, TypeOK, Round, Gathering, Full, Opening, Draining, Drained, Closing, Others, swap_in, Move
    <2>2. CASE pc[t] = "close_in"
      <3>1. Full(t)
        BY Zenon, <1>4, <2>2 DEF IInv, TypeOK, Round, Gathering, Full, Opening, Draining, Drained, Closing, Others
      <3>2. Opening(t)'
        BY <2>2, <3>1 DEF IInv, TypeOK, Full, Opening, Others, swap_in, Move
      <3>. QED BY Zenon, <2>1, <3>2 DEF Round, swap_in, Move
    <2>3. CASE pc[t] = "open_out"
      <3>1. Opening(t)
        BY Zenon, <1>4, <2>3 DEF IInv, TypeOK, Round, Gathering, Full, Opening, Draining, Drained, Closing, Others
      <3>2. Draining' /\ \A u \in member' : pc'[u] \in {"out_gate", "out"}
        <4>. /\ in_gate' = in_gate /\ out_gate' = TRUE
             /\ member' = member
          BY Zenon, <2>3 DEF swap_in, Move
        <4>1. ~in_gate' /\ out_gate' /\ member' = member
          BY <3>1 DEF Opening
        <4>2. pc'[t] \in {"out_gate", "out"}
          BY Zenon, <2>3 DEF IInv, TypeOK, swap_in, Move
        <4>3. \A u \in member \ {t} : pc'[u] \in {"out_gate", "out"}
          BY Zenon, <3>1 DEF IInv, TypeOK, Opening, Others, swap_in, Move
        <4>4. \A u \in member' : pc'[u] \in {"out_gate", "out"}
          BY Zenon, <4>1, <4>2, <4>3
        <4>5. Inside' # {}
          BY Zenon, <1>1
        <4>. QED BY Zenon, <4>1, <4>4, <4>5 DEF Draining
      <3>. QED BY Zenon, <2>1, <3>2 DEF Round
    <2>. QED BY Zenon, <2>2, <2>3 DEF swap_in
  <1>. QED BY Zenon, <1>2, <1>3, <1>4 DEF IInv, Kept, promise, swap_in, Move

\* The out_gate is passed while tasks leave.
LEMMA OutGateKept ==
  ASSUME IInv, NEW t \in Task, pass_out_gate(t)
  PROVE  Kept
  <1>. t \in member
    BY Zenon, OnlyMembers DEF IInv, pass_out_gate
  <1>1. Inside' = Inside
    BY Zenon DEF IInv, TypeOK, Places, Inside, pass_out_gate, Move
  <1>2. TypeOK'
    BY Zenon DEF IInv, TypeOK, Places, pass_out_gate, Move
  <1>3. Counts'
    BY Zenon, <1>1 DEF IInv, TypeOK, Places, Counts, pass_out_gate, Move
  <1>4. ASSUME NEW r \in Nat, Round(r) PROVE Round(r)'
    <2>1. Draining /\ \A u \in member : left[u] = IF pc[u] \in {"idle", "in_gate"} THEN r + 1 ELSE r
      BY Zenon, <1>4 DEF Round, Gathering, Full, Opening, Drained, Closing, Others, pass_out_gate
    <2>2. Draining' /\ \A u \in member' : left'[u] = IF pc'[u] \in {"idle", "in_gate"} THEN r + 1 ELSE r
      BY Zenon, <1>1, <2>1 DEF IInv, TypeOK, Draining, pass_out_gate, Move
    <2>. QED BY Zenon, <2>2 DEF Round
  <1>. QED BY Zenon, <1>2, <1>3, <1>4 DEF IInv, Kept, promise, pass_out_gate, Move

\* When tasks leave all members have entered this round: those still inside, and those who
\* have already left it.
LEMMA AllEntered ==
  ASSUME TypeOK, Counts, NEW r \in Nat, NEW t \in member, left[t] = r, pc[t] # "idle",
         \A u \in member : left[u] = IF pc[u] \in {"idle", "in_gate"} THEN r + 1 ELSE r
  PROVE  entered[t] > left[t] /\ \A u \in member : entered[u] > left[t]
  BY DEF TypeOK, Counts

\* The one who finds itself the last one out has seen all others gone.
LEMMA CountOutKept ==
  ASSUME IInv, NEW t \in Task, count_out(t)
  PROVE  Kept
  <1>. t \in member
    BY Zenon, OnlyMembers DEF IInv, count_out
  <1>0. IsFiniteSet(Inside) /\ (Cardinality(Inside) = 1 => \A u \in Inside : Inside = {u})
    BY Zenon, InsideSize DEF IInv
  <1>1. Inside' = Inside \ {t} /\ t \in Inside
    BY Zenon DEF IInv, TypeOK, Places, Inside, count_out, Move, Depart
  <1>2. Cardinality(Inside') = blockers - 1 /\ blockers - 1 \in Nat
    <2>1. Cardinality(Inside \ {t}) \in Nat
      BY Zenon, <1>0, FS_RemoveElement, FS_CardinalityType
    <2>. QED BY Zenon, <1>0, <1>1, <2>1, FS_RemoveElement, FS_CardinalityType DEF IInv, Counts
  <1>3. TypeOK'
    <2>1. pc' \in [Task -> Places] /\ UNCHANGED <<entered, member, phase>>
      BY Zenon DEF IInv, TypeOK, Places, count_out, Move, Depart
    <2>2. left' \in [Task -> Nat]
      BY DEF IInv, TypeOK, count_out, Move, Depart
    <2>. QED BY Zenon, <1>2, <2>1, <2>2 DEF IInv, TypeOK, count_out
  <1>4. Counts'
    BY Zenon, <1>2 DEF IInv, TypeOK, Places, Counts, count_out, Move, Depart
  <1>5. ASSUME NEW r \in Nat, Round(r) PROVE Round(r)' /\ (PromiseNext \/ UNCHANGED promise)
    <2>1. /\ Draining /\ left[t] = r
          /\ \A u \in member : left[u] = IF pc[u] \in {"idle", "in_gate"} THEN r + 1 ELSE r
      BY Zenon, <1>5 DEF Round, Gathering, Full, Opening, Drained, Closing, Others, count_out
    <2>2. /\ member' = member
          /\ \A u \in member' : left'[u] = IF pc'[u] \in {"idle", "in_gate"} THEN r + 1 ELSE r
      BY Zenon, <2>1 DEF IInv, TypeOK, count_out, Move, Depart
    <2>3. CASE blockers = 1
      <3>1. Inside = {t}
        BY Zenon, <1>0, <1>1, <2>3 DEF IInv, Counts
      <3>2. Others(t, {"idle", "in_gate"})
        BY Zenon, <2>1, <3>1 DEF IInv, TypeOK, Others, Inside, Draining
      <3>3. Drained(t)'
        BY Zenon, <2>1, <2>3, <3>2 DEF IInv, TypeOK, Others, Drained, Draining, count_out, Move
      <3>. QED BY Zenon, <2>2, <2>3, <3>3 DEF Round, promise, count_out, Move
    <2>4. CASE blockers # 1
      <3>1. Inside' # {}
        <4>1. Cardinality(Inside') # 0
          BY <1>2, <2>4 DEF IInv, TypeOK
        <4>. QED BY Zenon, <4>1, FS_EmptySet
      <3>2. Draining'
        BY Zenon, <2>1, <2>2, <2>4, <3>1 DEF IInv, TypeOK, Draining, count_out, Depart
      <3>3. leaves(t)
        BY Zenon, <2>1, <2>4, AllEntered DEF IInv, leaves, count_out, Depart
      <3>. QED BY Zenon, <2>2, <3>2, <3>3 DEF Round, PromiseNext
    <2>. QED BY Zenon, <2>3, <2>4
  <1>. QED BY Zenon, <1>3, <1>4, <1>5 DEF IInv, Kept

\* The last one out closes the out_gate before it opens the in_gate, and leaves.
LEMMA SwapOutKept ==
  ASSUME IInv, NEW t \in Task, swap_out(t)
  PROVE  Kept
  <1>. t \in member
    BY Zenon, OnlyMembers DEF IInv, swap_out
  <1>1. Inside' = Inside
    BY Zenon DEF IInv, TypeOK, Places, Inside, swap_out, Move, Depart
  <1>2. TypeOK'
    <2>1. pc' \in [Task -> Places] /\ UNCHANGED <<entered, member, phase>>
      BY Zenon DEF IInv, TypeOK, Places, swap_out, Move, Depart
    <2>2. left' \in [Task -> Nat]
      <3>1. left' = left \/ left' = [left EXCEPT ![t] = left[t] + 1]
        BY Zenon DEF swap_out, Move, Depart
      <3>. QED BY <3>1 DEF IInv, TypeOK
    <2>. QED BY Zenon, <2>1, <2>2 DEF IInv, TypeOK, swap_out
  <1>3. Counts'
    BY Zenon, <1>1 DEF IInv, TypeOK, Places, Counts, swap_out, Move, Depart
  <1>4. ASSUME NEW r \in Nat, Round(r) PROVE Kept
    <2>1. \A u \in member : left[u] = IF pc[u] \in {"idle", "in_gate"} THEN r + 1 ELSE r
      BY Zenon, <1>4 DEF Round, Gathering, Full, Opening, Others, swap_out
    <2>2. CASE pc[t] = "close_out"
      <3>1. Drained(t)
        BY Zenon, <1>4, <2>2 DEF IInv, TypeOK, Round, Gathering, Full, Opening, Draining, Drained, Closing, Others
      <3>2. Closing(t)'
        BY <2>2, <3>1 DEF IInv, TypeOK, Drained, Closing, Others, swap_out, Move
      <3>3. Round(r)'
        BY Zenon, <2>1, <2>2, <3>2 DEF IInv, TypeOK, Round, swap_out, Move
      <3>. QED BY Zenon, <1>2, <1>3, <2>2, <3>3 DEF IInv, Kept, promise, swap_out, Move
    <2>3. CASE pc[t] = "open_in"
      <3>1. Closing(t)
        BY Zenon, <1>4, <2>3 DEF IInv, TypeOK, Round, Gathering, Full, Opening, Draining, Drained, Closing, Others
      <3>2. Inside = {}
        BY Zenon, <2>3, <3>1 DEF IInv, TypeOK, Inside, Closing, Others
      <3>3. Gathering'
        <4>. /\ in_gate' = TRUE /\ out_gate' = out_gate
             /\ member' = member
          BY Zenon, <2>3 DEF swap_out, Depart
        <4>1. in_gate' /\ ~out_gate' /\ member' = member
          BY <3>1 DEF Closing
        <4>2. pc'[t] = "idle"
          BY Zenon, <2>3 DEF IInv, TypeOK, swap_out, Depart
        <4>3. \A u \in member \ {t} : pc'[u] \in {"idle", "in_gate"}
          BY Zenon, <2>3, <3>1 DEF IInv, TypeOK, Closing, Others, swap_out, Depart
        <4>4. \A u \in member' : pc'[u] \in {"idle", "in_gate", "count", "out_gate"}
          BY Zenon, <4>1, <4>2, <4>3
        <4>. QED BY Zenon, <1>1, <3>2, <4>1, <4>2, <4>4 DEF Gathering
      <3>4. \A u \in member' : left'[u] = r + 1
        BY Zenon, <2>1, <2>3, <3>1 DEF IInv, TypeOK, Closing, Others, swap_out, Depart
      <3>5. r + 1 \in Nat /\ Round(r + 1)'
        BY <3>3, <3>4 DEF Round
      <3>6. leaves(t)
        BY Zenon, <2>1, <2>3, AllEntered DEF IInv, leaves, swap_out, Depart
      <3>. QED BY Zenon, <1>2, <1>3, <3>5, <3>6 DEF IInv, Kept, PromiseNext
    <2>. QED BY Zenon, <2>2, <2>3 DEF swap_out
  <1>. QED BY Zenon, <1>4 DEF IInv

\* The barrier is resized between rounds, when nobody is inside.
LEMMA ResizeKept ==
  ASSUME GroupsAssumption, IInv, resize
  PROVE  Kept
  <1>1. \A t \in Task : pc[t] = "idle" /\ entered[t] = left[t]
    BY Zenon DEF IInv, Counts, resize, Regroup
  <1>2. /\ phase + 1 \in DOMAIN Groups /\ member' = Groups[phase + 1]
        /\ member' \subseteq Task /\ IsFiniteSet(member')
    BY DEF GroupsAssumption, IInv, TypeOK, resize, Regroup
  <1>3. Inside = {} /\ Inside' = {}
    BY Zenon, <1>1, <1>2 DEF IInv, TypeOK, Inside, resize, Regroup
  <1>4. TypeOK'
    BY <1>2 DEF GroupsAssumption, IInv, TypeOK, resize, Regroup
  <1>5. Counts'
    BY Zenon, <1>1, <1>2, <1>3 DEF IInv, TypeOK, Counts, resize, Regroup
  <1>6. Gathering' /\ \A u \in member' : left'[u] = 0
    <2>1. Gathering
      BY Zenon, <1>1, <1>3 DEF IInv, TypeOK, Round, Gathering, Full, Opening, Draining, Drained, Closing
    <2>. QED BY Zenon, <1>1, <1>2, <1>3, <2>1 DEF IInv, TypeOK, Gathering, resize, Regroup
  <1>7. resizes
    BY Zenon, <1>1, <1>2 DEF resizes, resize, Regroup
  <1>. QED BY Zenon, <1>4, <1>5, <1>6, <1>7 DEF IInv, Kept, Round, PromiseNext

\* Every step keeps the invariant and is one that the promise allows.
LEMMA NextKept == ASSUME GroupsAssumption, IInv, [Next]_vars PROVE Kept
  <1>1. CASE resize
    BY Zenon, <1>1, ResizeKept
  <1>2. ASSUME NEW t \in Task, Enter(t) PROVE Kept
    BY Zenon, <1>2, ArriveKept, InGateKept, CountInKept, SwapInKept, OutGateKept, CountOutKept, SwapOutKept DEF Enter
  <1>3. CASE UNCHANGED vars
    <2>1. UNCHANGED <<client, in_gate, out_gate, blockers, max_blockers>>
      BY Zenon, <1>3 DEF vars
    <2>2. TypeOK' /\ Counts'
      BY Zenon, <2>1 DEF client, IInv, TypeOK, Counts, Inside
    <2>3. ASSUME NEW r \in Nat, Round(r) PROVE Round(r)'
      BY <2>1, <2>3 DEF client, Round, Gathering, Full, Opening, Draining, Drained, Closing, Others, Inside
    <2>. QED BY Zenon, <2>1, <2>2, <2>3 DEF client, IInv, Kept, promise
  <1>. QED BY Zenon, <1>1, <1>2, <1>3 DEF Next

\* Nobody leaves the barrier of feb.c before all have entered: it implements the promise for
\* any groups of tasks and any number of rounds, over resizes.
THEOREM BarrierIsKept == ASSUME GroupsAssumption PROVE Spec => ImplementsBarrier
  <1>1. Init => IInv /\ PromiseInit
    BY Zenon, InitInv
  <1>2. IInv /\ [Next]_vars => IInv' /\ [PromiseNext]_promise
    BY Zenon, NextKept DEF Kept
  <1>. QED BY <1>1, <1>2, PTL DEF Spec, ImplementsBarrier, Promise
=============================================================================
