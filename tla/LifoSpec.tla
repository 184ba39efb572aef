------------------------------ MODULE LifoSpec ------------------------------
(***************************************************************************)
(* What challenge27's Stack promises: a LIFO sequence, top first. `out` is *)
(* what the last call returned, as in FifoSpec.                            *)
(***************************************************************************)
EXTENDS Naturals, Sequences

CONSTANTS Values, Zero  \* Zero: the zero T returned with an error

VARIABLES items, out

Init == items = <<>> /\ out = <<>>

Push(v) == items' = <<v>> \o items /\ out' = <<"Push">>

Pop ==
    \/ items # <<>> /\ out' = <<"Pop", Head(items), "nil">> /\ items' = Tail(items)
    \/ items = <<>> /\ out' = <<"Pop", Zero, "err">> /\ UNCHANGED items

Peek ==
    /\ out' = IF items = <<>> THEN <<"Peek", Zero, "err">> ELSE <<"Peek", Head(items), "nil">>
    /\ UNCHANGED items

Size == out' = <<"Size", Len(items)>> /\ UNCHANGED items

IsEmpty == out' = <<"IsEmpty", items = <<>>>> /\ UNCHANGED items

Next == (\E v \in Values : Push(v)) \/ Pop \/ Peek \/ Size \/ IsEmpty

Spec == Init /\ [][Next]_<<items, out>>
=============================================================================
