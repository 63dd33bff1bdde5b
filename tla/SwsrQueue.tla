------------------------------ MODULE SwsrQueue ------------------------------
(***************************************************************************)
(* The ring buffer for one writer and one reader (src/ds/qswsrqueue.c):    *)
(* no locks, no atomic operations, only fences between the element and the *)
(* index that publishes it.                                                *)
(***************************************************************************)
EXTENDS Integers, Sequences, TLAPS

CONSTANTS size,          \* slots; one of them stays empty
          Total          \* the writer writes 1, 2, ..., Total

VARIABLES head, tail, elements,
          wpc, rpc,      \* where the writer and the reader are
          cur,           \* the reader's copy of an element
          sent, received
vars == <<head, tail, elements, wpc, rpc, cur, sent, received>>

Junk == 0                \* what an element holds before it is written
Init ==
    /\ head = 0 /\ tail = 0 /\ elements = [i \in 0..(size - 1) |-> Junk]
    /\ wpc = "idle" /\ rpc = "idle" /\ cur = Junk /\ sent = 0 /\ received = <<>>

After(i) == (i + 1) % size

\* Mutant of enqueue: the last free slot is used as well.
enqueue_full ==
    /\ wpc = "idle" /\ sent < Total /\ wpc' = "element"
    /\ UNCHANGED <<head, tail, elements, rpc, cur, sent, received>>

\* qswsrqueue_enqueue: is there room?  If not the operation fails, and is tried again ...
enqueue ==
    /\ wpc = "idle" /\ sent < Total /\ After(tail) # head /\ wpc' = "element"
    /\ UNCHANGED <<head, tail, elements, rpc, cur, sent, received>>

\* ... by qswsrqueue_enqueue_blocking itself, which yields as long as there is none.
enqueue_blocking == wpc = "idle" /\ sent < Total /\ After(tail) = head /\ UNCHANGED vars

\* Mutant of write_element: one slot too far.
write_element_after ==
    /\ wpc = "element" /\ elements' = [elements EXCEPT ![After(tail)] = sent + 1] /\ wpc' = "tail"
    /\ UNCHANGED <<head, tail, rpc, cur, sent, received>>

write_element ==
    /\ wpc = "element" /\ elements' = [elements EXCEPT ![tail] = sent + 1] /\ wpc' = "tail"
    /\ UNCHANGED <<head, tail, rpc, cur, sent, received>>
move_tail ==
    /\ wpc = "tail" /\ tail' = After(tail) /\ sent' = sent + 1 /\ wpc' = "idle"
    /\ UNCHANGED <<head, elements, rpc, cur, received>>

\* qswsrqueue_dequeue: an empty queue gives NULL; else the element is read, ...
dequeue ==
    /\ rpc = "idle" /\ head # tail /\ cur' = elements[head] /\ rpc' = "head"
    /\ UNCHANGED <<head, tail, elements, wpc, sent, received>>

\* ... then the slot is given back.
move_head ==
    /\ rpc = "head" /\ head' = After(head) /\ received' = Append(received, cur) /\ rpc' = "idle"
    /\ UNCHANGED <<tail, elements, wpc, cur, sent>>

\* qswsrqueue_empty, asked by anybody.
empty == head = tail

Writer == enqueue \/ enqueue_blocking \/ write_element \/ move_tail
Reader == dequeue \/ move_head
Next == Writer \/ Reader
Spec == Init /\ [][Next]_vars

-----------------------------------------------------------------------------
\* What the reader gets is what the writer wrote, in order: no element is read before it
\* is written, overwritten before it is read, or read twice, also when the ring is full.
InOrder == \A i \in 1..Len(received) : received[i] = i

\* While both are idle, the queue says it is empty exactly when all was received.
EmptyIsTrue == wpc = "idle" /\ rpc = "idle" => (empty <=> Len(received) = sent)

\* Every element has arrived.
Delivered == Len(received) = Total

-----------------------------------------------------------------------------
(* The proof, for rings of any size and any number of elements.             *)

SizeAssumption == size \in Nat \ {0, 1} /\ Total \in Nat

Ring == 0..(size - 1)
TypeOK ==
    /\ head \in Ring /\ tail \in Ring /\ elements \in [Ring -> Nat]
    /\ wpc \in {"idle", "element", "tail"} /\ rpc \in {"idle", "head"}
    /\ cur \in Nat /\ sent \in Nat /\ received \in Seq(Nat)

\* How far slot i lies behind the head, and whether it holds an element.
Behind(i) == IF head <= i THEN i - head ELSE i - head + size
Holds(i) == Behind(i) < Behind(tail)

\* The two indices tell how many elements are under way, and each lies where its number
\* says; nobody has moved an index past the other's.
Inv ==
    /\ TypeOK
    /\ sent = Len(received) + Behind(tail)
    /\ \A i \in Ring : Holds(i) => elements[i] = Len(received) + 1 + Behind(i)
    /\ wpc \in {"element", "tail"} => After(tail) # head
    /\ wpc = "tail" => elements[tail] = sent + 1
    /\ rpc = "head" => head # tail /\ cur = Len(received) + 1
    /\ InOrder

\* The index behind the last one is the first one: the remainder in the code's
\* (q->tail + 1) % q->size.
LEMMA AfterIs ==
    ASSUME SizeAssumption, NEW i \in Ring
    PROVE  /\ After(i) = IF i = size - 1 THEN 0 ELSE i + 1
           /\ After(i) \in Ring
<1>1. CASE i = size - 1
  BY <1>1 DEF After, Ring, SizeAssumption
<1>2. CASE i # size - 1
  <2>1. i + 1 \in Nat /\ 0 <= i + 1 /\ i + 1 < size /\ size \in Nat
    BY <1>2 DEF Ring, SizeAssumption
  <2>2. (i + 1) % size = i + 1
    BY <2>1
  <2> QED BY <2>1, <2>2, <1>2 DEF After, Ring
<1> QED BY <1>1, <1>2

\* Slots differ in how far they lie behind the head.
LEMMA BehindIs ==
    ASSUME SizeAssumption, TypeOK
    PROVE  /\ \A i \in Ring : Behind(i) \in 0..(size - 1)
           /\ \A i, j \in Ring : Behind(i) = Behind(j) => i = j
           /\ Len(received) \in Nat
<1> size \in Nat /\ head \in Ring BY DEF SizeAssumption, TypeOK
<1>1. \A i \in Ring : Behind(i) \in 0..(size - 1) BY DEF Behind, Ring
<1>2. \A i, j \in Ring : Behind(i) = Behind(j) => i = j BY DEF Behind, Ring
<1> QED BY <1>1, <1>2 DEF TypeOK

\* The ring is empty at first.
LEMMA InitInv == SizeAssumption /\ Init => Inv
BY DEF SizeAssumption, Init, Inv, TypeOK, Ring, Behind, Holds, InOrder, Junk

\* A writer that found a free slot still has it later: only it takes slots.
LEMMA WriterInv ==
    ASSUME SizeAssumption, Inv, Writer PROVE Inv'
<1> USE DEF Inv, TypeOK
<1>0. /\ \A i \in Ring : Behind(i) \in Nat
      /\ \A i, j \in Ring : Behind(i) = Behind(j) => i = j
      /\ Len(received) \in Nat
  BY BehindIs DEF SizeAssumption
<1>1. CASE enqueue
  BY <1>1 DEF enqueue, Behind, Holds, InOrder, After
<1>2. CASE enqueue_blocking
  BY <1>2 DEF enqueue_blocking, vars, Behind, Holds, InOrder, After
<1>3. CASE write_element
  <2>1. TypeOK' /\ UNCHANGED <<head, tail, rpc, cur, sent, received>>
    BY <1>3 DEF write_element
  <2>2. \A i \in Ring : Holds(i)' => elements'[i] = elements[i] /\ Holds(i)
    <3> SUFFICES ASSUME NEW i \in Ring, Holds(i)' PROVE elements'[i] = elements[i] /\ Holds(i)
      OBVIOUS
    <3>1. Behind(i)' = Behind(i) /\ Behind(tail)' = Behind(tail)
      BY <2>1 DEF Behind
    <3>2. Holds(i) BY <3>1 DEF Holds
    <3>3. i # tail BY <3>2, <1>0 DEF Holds
    <3> QED BY <1>3, <3>2, <3>3 DEF write_element
  <2>3. elements'[tail] = sent + 1 /\ After(tail)' # head'
    BY <1>3 DEF write_element, After
  <2> QED BY <2>1, <2>2, <2>3 DEF Behind, InOrder
<1>4. CASE move_tail
  <2>1. /\ After(tail) = IF tail = size - 1 THEN 0 ELSE tail + 1
        /\ After(tail) \in Ring /\ After(tail) # head
    BY <1>4, AfterIs DEF move_tail
  <2>2. TypeOK' /\ UNCHANGED <<head, elements, rpc, cur, received>>
    BY <1>4, <2>1 DEF move_tail
  <2>3. Behind(tail)' = Behind(tail) + 1
    BY <1>4, <2>1 DEF move_tail, Behind, Ring, SizeAssumption
  <2>4. sent' = Len(received') + Behind(tail)'
    BY <1>0, <1>4, <2>2, <2>3 DEF move_tail
  <2>5. ASSUME NEW i \in Ring, Holds(i)'
        PROVE  elements'[i] = Len(received') + 1 + Behind(i)'
    <3>1. Behind(i)' = Behind(i) BY <2>2 DEF Behind
    <3>2. CASE Holds(i) BY <3>1, <3>2, <2>2
    <3>3. CASE ~Holds(i)
      <4>1. Behind(i) = Behind(tail)
        BY <3>3, <3>1, <2>3, <2>5 DEF Holds, Behind, Ring, SizeAssumption
      <4>2. i = tail
        BY <4>1, <1>0
      <4>3. elements[tail] = Len(received) + 1 + Behind(tail)
        BY <1>0, <1>4 DEF move_tail
      <4> QED BY <4>1, <4>2, <4>3, <3>1, <2>2
    <3> QED BY <3>2, <3>3
  <2>6. rpc' = "head" => head' # tail' /\ cur' = Len(received') + 1
    BY <2>1, <2>2, <1>4 DEF move_tail
  <2> QED BY <2>2, <2>4, <2>5, <2>6, <1>4 DEF move_tail, InOrder
<1> QED BY <1>1, <1>2, <1>3, <1>4 DEF Writer

\* The reader reads what lies at the head, and gives back that slot only.
LEMMA ReaderInv ==
    ASSUME SizeAssumption, Inv, Reader PROVE Inv'
<1> USE DEF Inv, TypeOK
<1>0. /\ \A i \in Ring : Behind(i) \in Nat
      /\ \A i, j \in Ring : Behind(i) = Behind(j) => i = j
      /\ Len(received) \in Nat
  BY BehindIs DEF SizeAssumption
<1>1. CASE dequeue
  <2>1. Holds(head) /\ Behind(head) = 0
    BY <1>1 DEF dequeue, Holds, Behind, Ring, SizeAssumption
  <2>2. cur' = Len(received) + 1
    BY <1>1, <2>1 DEF dequeue
  <2> QED BY <1>1, <2>2 DEF dequeue, Behind, Holds, InOrder, After
<1>2. CASE move_head
  <2>1. /\ After(head) = IF head = size - 1 THEN 0 ELSE head + 1
        /\ After(head) \in Ring /\ head # tail /\ cur = Len(received) + 1
    BY <1>2, AfterIs DEF move_head
  <2>2. TypeOK' /\ UNCHANGED <<tail, elements, wpc, cur, sent>>
    BY <1>2, <2>1 DEF move_head
  <2>3. /\ Len(received') = Len(received) + 1
        /\ received'[Len(received) + 1] = cur
        /\ \A i \in 1..Len(received) : received'[i] = received[i]
    BY <1>2 DEF move_head
  <2>4. \A i \in Ring : i # head => Behind(i)' = Behind(i) - 1
    BY <1>2, <2>1 DEF move_head, Behind, Ring, SizeAssumption
  <2>5. sent' = Len(received') + Behind(tail)'
    <3>1. Behind(tail)' = Behind(tail) - 1
      BY <1>2, <2>1, <2>2 DEF move_head, Behind, Ring, SizeAssumption
    <3> QED BY <3>1, <2>2, <2>3, <1>0
  <2>6. ASSUME NEW i \in Ring, Holds(i)'
        PROVE  elements'[i] = Len(received') + 1 + Behind(i)'
    <3>1. i # head
      BY <2>6, <1>2, <2>1, <2>2 DEF move_head, Holds, Behind, Ring, SizeAssumption
    <3>2. Holds(i)
      <4>1. Behind(i)' = Behind(i) - 1 /\ Behind(tail)' = Behind(tail) - 1
        BY <3>1, <2>1, <2>2, <2>4 DEF Behind
      <4> QED BY <4>1, <2>6, <1>0 DEF Holds
    <3>3. elements[i] = Len(received) + 1 + Behind(i) BY <3>2
    <3>4. Behind(i)' = Behind(i) - 1 BY <3>1, <2>4
    <3>5. Behind(i) \in Nat /\ Len(received) \in Nat BY <1>0
    <3>6. elements' = elements /\ Len(received') = Len(received) + 1 BY <2>2, <2>3
    <3> HIDE DEF Inv, TypeOK
    <3> QED BY <3>3, <3>4, <3>5, <3>6
  <2>7. wpc' \in {"element", "tail"} => After(tail)' # head'
    <3>1. After(tail)' = After(tail) /\ After(tail) = IF tail = size - 1 THEN 0 ELSE tail + 1
      BY <2>2, AfterIs DEF After
    <3> QED BY <3>1, <2>1, <1>2 DEF move_head, Ring
  <2>8. InOrder'
    BY <2>1, <2>3 DEF InOrder
  <2> QED BY <2>2, <2>5, <2>6, <2>7, <2>8, <1>2 DEF move_head
<1> QED BY <1>1, <1>2 DEF Reader

\* For every size of the ring and every number of elements, the reader of a qswsrqueue gets
\* what the writer wrote, in order, and the queue says it is empty exactly when it is.
THEOREM RingIsAQueue ==
    ASSUME SizeAssumption PROVE Spec => [](InOrder /\ EmptyIsTrue)
<1>1. Inv /\ [Next]_vars => Inv'
  <2> SUFFICES ASSUME Inv, [Next]_vars PROVE Inv' OBVIOUS
  <2>1. CASE UNCHANGED vars
    BY <2>1 DEF vars, Inv, TypeOK, Behind, Holds, InOrder, After
  <2> QED BY <2>1, WriterInv, ReaderInv DEF Next
<1>2. Inv => InOrder /\ EmptyIsTrue
  BY DEF Inv, TypeOK, EmptyIsTrue, empty, Behind, Ring, SizeAssumption
<1> QED BY InitInv, <1>1, <1>2, PTL DEF Spec
==============================================================================
