---------------------------- MODULE LinkedQueue ----------------------------
(***************************************************************************)
(* Queue[T] of challenge27/queue.go: a doubly linked list of DLLNode with  *)
(* head, tail and a size counter. The heap is explicit: every node the     *)
(* list may use is an address of Addrs holding [value, next, prev];        *)
(* Enqueue takes an address no pointer of the queue reaches (a fresh       *)
(* allocation; Go's collector has reclaimed what the queue dropped).       *)
(* Each method is one step (a Queue is not safe for concurrent use and the *)
(* code takes no lock), and `out` is what it returned.                     *)
(***************************************************************************)
EXTENDS Naturals, Sequences, FiniteSets, Functions

CONSTANTS
    Values,   \* the T values enqueued
    Addrs,    \* the addresses nodes may be allocated at
    Nil,      \* a model value: the nil pointer, and the zero T
    MaxSize   \* bound: no Enqueue on a queue of this size

ASSUME Nil \notin Addrs \cup Values

Node == [value : Values \cup {Nil}, next : Addrs \cup {Nil}, prev : Addrs \cup {Nil}]

VARIABLES heap, head, tail, size, out

vars == <<heap, head, tail, size, out>>

\* The addresses met following next from a, at most Cardinality(Addrs) of
\* them (a cycle would otherwise never end).
RECURSIVE ChainFrom(_, _)
ChainFrom(a, fuel) ==
    IF a = Nil \/ fuel = 0 THEN <<>> ELSE <<a>> \o ChainFrom(heap[a].next, fuel - 1)

Chain == ChainFrom(head, Cardinality(Addrs))

\* The values of the list, front first.
Items == [k \in 1..Len(Chain) |-> heap[Chain[k]].value]

\* Addresses no pointer held by the queue leads to.
Free == Addrs \ (Range(Chain) \cup {tail})

\* NewQueue: the zero Queue.
Init ==
    /\ heap = [a \in Addrs |-> [value |-> Nil, next |-> Nil, prev |-> Nil]]
    /\ head = Nil /\ tail = Nil /\ size = 0
    /\ out = <<>>

\* Enqueue: a new node whose prev is the old tail, linked after the tail
\* (or made the head of an empty queue); it becomes the tail; size++.
Enqueue(v) ==
    /\ size < MaxSize
    /\ \E n \in Free :
         LET h == [heap EXCEPT ![n] = [value |-> v, next |-> Nil, prev |-> tail]]
         IN  /\ heap' = IF tail = Nil THEN h ELSE [h EXCEPT ![tail].next = n]
             /\ head' = IF tail = Nil THEN n ELSE head
             /\ tail' = n
    /\ size' = size + 1
    /\ out' = <<"Enqueue">>

\* Fault variant of Dequeue's single-node branch that leaves tail set.
DequeueKeepTail ==
    \/ /\ head = Nil
       /\ out' = <<"Dequeue", Nil, "err">>
       /\ UNCHANGED <<heap, head, tail, size>>
    \/ /\ head # Nil
       /\ out' = <<"Dequeue", heap[head].value, "nil">>
       /\ IF heap[head].next = Nil
          THEN /\ head' = Nil /\ UNCHANGED <<heap, tail>>
          ELSE /\ heap' = [heap EXCEPT ![heap[head].next].prev = Nil, ![head].next = Nil]
               /\ head' = heap[head].next
               /\ UNCHANGED tail
       /\ size' = size - 1

\* Fault variant of Dequeue that leaves the new head's prev at the old head.
DequeueKeepPrev ==
    \/ /\ head = Nil
       /\ out' = <<"Dequeue", Nil, "err">>
       /\ UNCHANGED <<heap, head, tail, size>>
    \/ /\ head # Nil
       /\ out' = <<"Dequeue", heap[head].value, "nil">>
       /\ IF heap[head].next = Nil
          THEN /\ head' = Nil /\ tail' = Nil /\ UNCHANGED heap
          ELSE /\ heap' = [heap EXCEPT ![head].next = Nil]
               /\ head' = heap[head].next
               /\ UNCHANGED tail
       /\ size' = size - 1

\* Dequeue: Front, and when it found a node, unlink it: the last node
\* clears head and tail; otherwise the next node loses its prev, becomes the
\* head, and the old head's next is cleared; size--.
Dequeue ==
    \/ /\ head = Nil
       /\ out' = <<"Dequeue", Nil, "err">>
       /\ UNCHANGED <<heap, head, tail, size>>
    \/ /\ head # Nil
       /\ out' = <<"Dequeue", heap[head].value, "nil">>
       /\ IF heap[head].next = Nil
          THEN /\ head' = Nil /\ tail' = Nil /\ UNCHANGED heap
          ELSE /\ heap' = [heap EXCEPT ![heap[head].next].prev = Nil, ![head].next = Nil]
               /\ head' = heap[head].next
               /\ UNCHANGED tail
       /\ size' = size - 1

\* Front: the head's value, or the zero T and ErrEmptyCollection.
Front ==
    /\ out' = IF head = Nil THEN <<"Front", Nil, "err">> ELSE <<"Front", heap[head].value, "nil">>
    /\ UNCHANGED <<heap, head, tail, size>>

Size == out' = <<"Size", size>> /\ UNCHANGED <<heap, head, tail, size>>

IsEmpty == out' = <<"IsEmpty", size = 0>> /\ UNCHANGED <<heap, head, tail, size>>

Next == (\E v \in Values : Enqueue(v)) \/ Dequeue \/ Front \/ Size \/ IsEmpty

Spec == Init /\ [][Next]_vars

-----------------------------------------------------------------------------
TypeOK ==
    /\ heap \in [Addrs -> Node]
    /\ head \in Addrs \cup {Nil} /\ tail \in Addrs \cup {Nil}
    /\ size \in 0..MaxSize

\* The list is well formed after any sequence of calls: following next from
\* head ends at nil after the tail, each node's prev is the node before it
\* (nil for the head), and size counts the nodes. Dequeue's two branches
\* and Enqueue's empty case must each keep all of it.
WellFormed ==
    LET c == Chain
    IN  /\ (head = Nil) = (tail = Nil)
        /\ c # <<>> => /\ c[Len(c)] = tail
                       /\ heap[tail].next = Nil
        /\ \A k \in 1..Len(c) : heap[c[k]].prev = IF k = 1 THEN Nil ELSE c[k - 1]
        /\ size = Len(c)

\* The Queue behaves as a FIFO sequence: every call returns what FifoSpec
\* returns for the sequence of values on the list.
Fifo == INSTANCE FifoSpec WITH items <- Items, Zero <- Nil

ImplementsFifo == Fifo!Spec

=============================================================================
