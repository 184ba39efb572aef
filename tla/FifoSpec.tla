------------------------------ MODULE FifoSpec ------------------------------
(***************************************************************************)
(* What challenge27's Queue promises: a FIFO sequence. Every call is one   *)
(* step, and `out` is the method's name with what it returned: nothing   *)
(* for Enqueue, the value and "nil", or the zero T and "err"               *)
(* (ErrEmptyCollection), for Dequeue and Front, a number for Size, a       *)
(* Boolean for IsEmpty.                                                    *)
(***************************************************************************)
EXTENDS Naturals, Sequences

CONSTANTS Values, Zero  \* Zero: the zero T returned with an error

VARIABLES items, out

Init == items = <<>> /\ out = <<>>

Enqueue(v) == items' = Append(items, v) /\ out' = <<"Enqueue">>

Dequeue ==
    \/ items # <<>> /\ out' = <<"Dequeue", Head(items), "nil">> /\ items' = Tail(items)
    \/ items = <<>> /\ out' = <<"Dequeue", Zero, "err">> /\ UNCHANGED items

Front ==
    /\ out' = IF items = <<>> THEN <<"Front", Zero, "err">> ELSE <<"Front", Head(items), "nil">>
    /\ UNCHANGED items

Size == out' = <<"Size", Len(items)>> /\ UNCHANGED items

IsEmpty == out' = <<"IsEmpty", items = <<>>>> /\ UNCHANGED items

Next == (\E v \in Values : Enqueue(v)) \/ Dequeue \/ Front \/ Size \/ IsEmpty

Spec == Init /\ [][Next]_<<items, out>>
=============================================================================
