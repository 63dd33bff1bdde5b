------------------------------- MODULE QtStack -------------------------------
(***************************************************************************)
(* The growing ring of the loxley schedulers                               *)
(* (include/qt_threadqueue_stack.h) and what a thief does to it            *)
(* (qt_threadqueue_steal_helper), beside the sequence it stands for.       *)
(***************************************************************************)
EXTENDS Integers, Sequences, FiniteSets

CONSTANTS Task, Unstealable, Main,   \* QTHREAD_UNSTEALABLE; the QTHREAD_REAL_MCCOY task
          capacity0, MaxCapacity,    \* 1024; the bound of an instance
          Chunk, NULL

VARIABLES stack,     \* storage, base, top, empty (the capacity is the size of storage)
          model      \* the tasks from the base to the top
vars == <<stack, model>>

Stack(s, b, t, e) == [storage |-> s, base |-> b, top |-> t, empty |-> e]
qt_stack_create(n) == Stack([i \in 0..(n - 1) |-> NULL], 0, 0, TRUE)
Init == stack = qt_stack_create(capacity0) /\ model = <<>>

capacity(s) == Cardinality(DOMAIN s.storage)
Up(s, i) == (i + 1) % capacity(s)
Down(s, i) == (i - 1 + capacity(s)) % capacity(s)
qt_stack_is_full(s) == s.base = Up(s, s.top)
qt_stack_size(s) == IF s.top >= s.base THEN s.top - s.base ELSE capacity(s) - s.base + s.top

\* Mutant of qt_stack_resize: the ring is copied as it lies.
qt_stack_resize_straight(s) ==
    Stack([i \in 0..(2 * capacity(s) - 1) |-> IF i < capacity(s) THEN s.storage[i] ELSE NULL],
          0, capacity(s) - 1, s.empty)

\* Twice the room: the old ring, from its base on.
qt_stack_resize(s) ==
    Stack([i \in 0..(2 * capacity(s) - 1) |->
             IF i < capacity(s) THEN s.storage[(s.base + i) % capacity(s)] ELSE NULL],
          0, capacity(s) - 1, s.empty)
Room(s) == IF qt_stack_is_full(s) THEN qt_stack_resize(s) ELSE s
Roomy == ~qt_stack_is_full(stack) \/ 2 * capacity(stack) <= MaxCapacity

Pushed(s, t) == Stack([s.storage EXCEPT ![Up(s, s.top)] = t], s.base, Up(s, s.top), FALSE)
qt_stack_push(t) ==
    /\ Roomy /\ stack' = Pushed(Room(stack), t) /\ model' = Append(model, t)

Based(s, t) == Stack([s.storage EXCEPT ![s.base] = t], Down(s, s.base), s.top, FALSE)
qt_stack_enq_base(t) ==
    /\ Roomy /\ stack' = Based(Room(stack), t) /\ model' = <<t>> \o model

\* The original thread is left on top for worker 0.  The slot keeps its value.
qt_stack_pop(worker0) ==
    LET t == stack.storage[stack.top]
        d == Down(stack, stack.top)
    IN  /\ ~stack.empty /\ (t = Main => worker0)
        /\ stack' = Stack(stack.storage, stack.base, d, d = stack.base)
        /\ model' = SubSeq(model, 1, Len(model) - 1)

-----------------------------------------------------------------------------
qt_threadqueue_stealable(t) == t \notin Unstealable

\* The slots the thief walks: from the base to the Chunk'th stealable task or the top.
Slot(s, i) == (s.base + i) % capacity(s)
Found(s, n) == Cardinality({i \in 1..n : qt_threadqueue_stealable(s.storage[Slot(s, i)])})
Walk(s) == CHOOSE n \in 1..qt_stack_size(s) :
              /\ n = qt_stack_size(s) \/ Found(s, n) = Chunk
              /\ \A j \in 1..(n - 1) : Found(s, j) < Chunk

\* qt_threadqueue_enqueue_unstealable: what was passed over goes back, right below the
\* last slot walked, which becomes the base when there is nothing.
Unstolen(s, n, kept) ==
    LET b == Slot(s, n - Len(kept))
    IN  Stack([i \in DOMAIN s.storage |->
                 IF \E j \in 1..n : Slot(s, j) = i
                 THEN LET j == CHOOSE j \in 1..n : Slot(s, j) = i
                          k == j - (n - Len(kept))
                      IN  IF k >= 1 THEN kept[k] ELSE NULL
                 ELSE IF i = b THEN NULL ELSE s.storage[i]],
              b, s.top, s.empty \/ s.top = b)

qt_threadqueue_steal_helper ==
    LET n    == Walk(stack)
        pass == SelectSeq([i \in 1..n |-> stack.storage[Slot(stack, i)]],
                          LAMBDA t : ~qt_threadqueue_stealable(t))
    IN  /\ ~stack.empty
        /\ stack' = Unstolen(stack, n, pass)
        /\ model' = SelectSeq(SubSeq(model, 1, n), LAMBDA t : ~qt_threadqueue_stealable(t))
                    \o SubSeq(model, n + 1, Len(model))

Next ==
    \/ \E t \in Task : qt_stack_push(t) \/ qt_stack_enq_base(t)
    \/ \E worker0 \in BOOLEAN : qt_stack_pop(worker0)
    \/ qt_threadqueue_steal_helper
Spec == Init /\ [][Next]_vars

-----------------------------------------------------------------------------
\* Whatever the position of the ring, growth and steals, it holds the sequence: from the
\* slot above the base to the top; and its `empty' and size say so.
Represents ==
    /\ qt_stack_size(stack) = Len(model) /\ stack.empty = (model = <<>>)
    /\ \A i \in 1..Len(model) : stack.storage[Slot(stack, i)] = model[i]
==============================================================================
