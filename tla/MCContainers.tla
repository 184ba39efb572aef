---------------------------- MODULE MCContainers ----------------------------
(***************************************************************************)
(* challenge27's Queue, Stack and Set, and challenge13's ProductStore,    *)
(* each over its own state and each checked against its abstract spec.   *)
(* The four share nothing, so a behaviour exercises one of them (`which`, *)
(* chosen once): the others stay as their constructor left them.          *)
(***************************************************************************)
EXTENDS Naturals

CONSTANTS v1, v2, v3, a1, a2, x, y, Nil, MaxSize, p1, p2, NoRow, NoClient, NoCall, MaxId

MCValues == {v1, v2}
MCAddrs == {a1, a2}
MCSetValues == {v1, v2, v3}
MCSetIds == {x, y}

\* ProductStore: rows of quantity 1 created in two categories, batches that
\* set quantity 2 for one ID, both, or none.
MCIds == 1..MaxId
MCRows == [qty : {1}, cat : {"A", "B"}]
MCCalls ==
    LET C(op, id, row, cat, upd) == [op |-> op, id |-> id, row |-> row, cat |-> cat, upd |-> upd]
    IN  {C("Create", 0, r, "", <<>>) : r \in MCRows}
        \cup {C(op, i, NoRow, "", <<>>) : op \in {"Get", "Delete"}, i \in MCIds}
        \cup {C("Update", i, r, "", <<>>) : i \in MCIds, r \in MCRows}
        \cup {C("List", 0, NoRow, cat, <<>>) : cat \in {"", "A"}}
        \cup {C("Batch", 0, NoRow, "", [i \in d |-> 2]) : d \in SUBSET MCIds}

VARIABLES which, qheap, qhead, qtail, qsize, qout, sheap, shead, ssize, sout,
          setvalues, setout,
          table, seq, pc, call, writer, pending, todo, affected, pout

qvars == <<qheap, qhead, qtail, qsize, qout>>
svars == <<sheap, shead, ssize, sout>>
setvars == <<setvalues, setout>>
pvars == <<table, seq, pc, call, writer, pending, todo, affected, pout>>

Q == INSTANCE LinkedQueue WITH Values <- MCValues, Addrs <- MCAddrs,
        heap <- qheap, head <- qhead, tail <- qtail, size <- qsize, out <- qout
S == INSTANCE LinkedStack WITH Values <- MCValues, Addrs <- MCAddrs,
        heap <- sheap, head <- shead, size <- ssize, out <- sout
T == INSTANCE SliceSet WITH Values <- MCSetValues, SetIds <- MCSetIds,
        values <- setvalues, out <- setout
P == INSTANCE ProductStore WITH Clients <- {p1, p2}, Ids <- MCIds, Calls <- MCCalls,
        AllCategories <- "", out <- pout

Init == which \in {"queue", "stack", "set", "store"} /\ Q!Init /\ S!Init /\ T!Init /\ P!Init

Next ==
    \/ which = "queue" /\ Q!Next /\ UNCHANGED <<which, svars, setvars, pvars>>
    \/ which = "stack" /\ S!Next /\ UNCHANGED <<which, qvars, setvars, pvars>>
    \/ which = "set" /\ T!Next /\ UNCHANGED <<which, qvars, svars, pvars>>
    \/ which = "store" /\ P!Next /\ UNCHANGED <<which, qvars, svars, setvars>>

Spec == Init /\ [][Next]_<<which, qvars, svars, setvars, pvars>>

\* The queue's doubly linked list stays well formed (LinkedQueue!WellFormed).
QueueWellFormed == Q!WellFormed

\* The Queue refines FifoSpec (LinkedQueue!ImplementsFifo).
QueueIsFifo == Q!ImplementsFifo

\* The Stack refines LifoSpec (LinkedStack!ImplementsLifo).
StackIsLifo == S!ImplementsLifo

\* No Set slice holds a value twice (SliceSet!NoDuplicates).
NoDuplicates == T!NoDuplicates

\* The Set refines SetSpec (SliceSet!ImplementsSet).
ImplementsSet == T!ImplementsSet

\* ProductStore refines ProductStoreSpec (ProductStore!ImplementsProductStore).
ImplementsProductStore == P!ImplementsProductStore

=============================================================================
