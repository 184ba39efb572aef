---------------------------- MODULE LinkedStack ----------------------------
(***************************************************************************)
(* Stack[T] of challenge27/stack.go: a singly linked list of ListNode with *)
(* head and a size counter, over an explicit heap as in LinkedQueue. Each  *)
(* method is one step and `out` is what it returned.                       *)
(***************************************************************************)
EXTENDS Naturals, Sequences, FiniteSets, Functions

CONSTANTS
    Values,   \* the T values pushed
    Addrs,    \* the addresses nodes may be allocated at
    Nil,      \* a model value: the nil pointer, and the zero T
    MaxSize   \* bound: no Push on a stack of this size

ASSUME Nil \notin Addrs \cup Values

Node == [value : Values \cup {Nil}, next : Addrs \cup {Nil}]

VARIABLES heap, head, size, out

vars == <<heap, head, size, out>>

\* The addresses met following next from a, at most Cardinality(Addrs).
RECURSIVE ChainFrom(_, _)
ChainFrom(a, fuel) ==
    IF a = Nil \/ fuel = 0 THEN <<>> ELSE <<a>> \o ChainFrom(heap[a].next, fuel - 1)

Chain == ChainFrom(head, Cardinality(Addrs))

\* The values of the list, top first.
Items == [k \in 1..Len(Chain) |-> heap[Chain[k]].value]

Free == Addrs \ Range(Chain)

\* NewStack: the zero Stack.
Init ==
    /\ heap = [a \in Addrs |-> [value |-> Nil, next |-> Nil]]
    /\ head = Nil /\ size = 0
    /\ out = <<>>

\* Push: a new node pointing at the old head becomes the head; size++.
Push(v) ==
    /\ size < MaxSize
    /\ \E n \in Free :
         /\ heap' = [heap EXCEPT ![n] = [value |-> v, next |-> head]]
         /\ head' = n
    /\ size' = size + 1
    /\ out' = <<"Push">>

\* Fault variant of Pop that forgets size--.
PopKeepSize ==
    \/ head = Nil /\ out' = <<"Pop", Nil, "err">> /\ UNCHANGED <<heap, head, size>>
    \/ /\ head # Nil
       /\ out' = <<"Pop", heap[head].value, "nil">>
       /\ head' = heap[head].next
       /\ UNCHANGED <<heap, size>>

\* Pop: Peek, and when it found a node, head moves to its next; size--.
Pop ==
    \/ head = Nil /\ out' = <<"Pop", Nil, "err">> /\ UNCHANGED <<heap, head, size>>
    \/ /\ head # Nil
       /\ out' = <<"Pop", heap[head].value, "nil">>
       /\ head' = heap[head].next
       /\ size' = size - 1
       /\ UNCHANGED heap

\* Peek: the head's value, or the zero T and ErrEmptyCollection.
Peek ==
    /\ out' = IF head = Nil THEN <<"Peek", Nil, "err">> ELSE <<"Peek", heap[head].value, "nil">>
    /\ UNCHANGED <<heap, head, size>>

Size == out' = <<"Size", size>> /\ UNCHANGED <<heap, head, size>>

IsEmpty == out' = <<"IsEmpty", size = 0>> /\ UNCHANGED <<heap, head, size>>

Next == (\E v \in Values : Push(v)) \/ Pop \/ Peek \/ Size \/ IsEmpty

Spec == Init /\ [][Next]_vars

-----------------------------------------------------------------------------
TypeOK ==
    /\ heap \in [Addrs -> Node]
    /\ head \in Addrs \cup {Nil}
    /\ size \in 0..MaxSize

\* The Stack behaves as a LIFO sequence: Push, Pop, Peek, Size and IsEmpty
\* return what LifoSpec returns for the values on the list, top first, so
\* the size counter never drifts from the list it counts.
Lifo == INSTANCE LifoSpec WITH items <- Items, Zero <- Nil

ImplementsLifo == Lifo!Spec

=============================================================================
