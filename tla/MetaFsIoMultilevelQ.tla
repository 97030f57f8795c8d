------------------------- MODULE MetaFsIoMultilevelQ -------------------------
(***************************************************************************)
(* MetaFsIoMultilevelQ<T, RequestPriority>: one FIFO queue per priority    *)
(* level; Dequeue returns the head of the highest non-empty level (strict  *)
(* priority). Used as the scheduler's ioMultiQ and as each worker's ioSQ.  *)
(* A queue is a function from Priorities to sequences.                     *)
(***************************************************************************)
LOCAL INSTANCE Integers
LOCAL INSTANCE Sequences

CONSTANT Priorities     \* RequestPriority values, a larger one more urgent

EmptyQ == [p \in Priorities |-> << >>]

Enqueue(q, item, prio) == [q EXCEPT ![prio] = Append(@, item)]

IsEmpty(q) == \A p \in Priorities : q[p] = << >>

\* The level Dequeue serves: the highest one holding an item.
TopLevel(q) ==
    CHOOSE p \in Priorities :
        /\ q[p] # << >>
        /\ \A o \in Priorities : o > p => q[o] = << >>

Top(q) == Head(q[TopLevel(q)])

Dequeue(q) == [q EXCEPT ![TopLevel(q)] = Tail(@)]

\* Every item held at any level.
Items(q) == UNION {{q[p][i] : i \in DOMAIN q[p]} : p \in Priorities}
=============================================================================
