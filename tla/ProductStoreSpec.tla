--------------------------- MODULE ProductStoreSpec ---------------------------
(***************************************************************************)
(* What challenge13's ProductStore promises its callers: a table of       *)
(* products keyed by IDs that are handed out in increasing order and never *)
(* handed out twice, and calls that each take effect at one instant. A     *)
(* BatchUpdateInventory takes effect for every product it names or for    *)
(* none. Any call may fail without effect (the store's connections can be *)
(* locked out by another caller). out is the last call that returned,    *)
(* with its result: <<"ok">>, <<"ok", value>> or <<"err">>.              *)
(***************************************************************************)
EXTENDS Naturals, Functions

CONSTANTS Clients, Ids, Calls, NoRow, AllCategories

VARIABLES table, seq, out

\* The rows of category cat, all of them for AllCategories, with their IDs.
Listed(tbl, cat) ==
    {<<i, tbl[i]>> : i \in {j \in Ids : tbl[j] # NoRow /\ (cat = AllCategories \/ tbl[j].cat = cat)}}

\* The table after a batch: each named product with its new quantity.
WithQuantities(tbl, u) ==
    [i \in Ids |-> IF i \in DOMAIN u THEN [tbl[i] EXCEPT !.qty = u[i]] ELSE tbl[i]]

Init == table = [i \in Ids |-> NoRow] /\ seq = 0 /\ out = <<>>

Return(c, call, res) == out' = <<call, res>>

Create(c, call) ==
    /\ call.op = "Create" /\ seq + 1 \in Ids
    /\ table' = [table EXCEPT ![seq + 1] = call.row]
    /\ seq' = seq + 1
    /\ Return(c, call, <<"ok", seq + 1>>)

Get(c, call) ==
    /\ call.op = "Get"
    /\ Return(c, call, IF table[call.id] = NoRow THEN <<"err">> ELSE <<"ok", table[call.id]>>)
    /\ UNCHANGED <<table, seq>>

Update(c, call) ==
    /\ call.op = "Update"
    /\ table' = [table EXCEPT ![call.id] = IF @ = NoRow THEN @ ELSE call.row]
    /\ Return(c, call, IF table[call.id] = NoRow THEN <<"err">> ELSE <<"ok">>)
    /\ UNCHANGED seq

Delete(c, call) ==
    /\ call.op = "Delete"
    /\ table' = [table EXCEPT ![call.id] = NoRow]
    /\ Return(c, call, IF table[call.id] = NoRow THEN <<"err">> ELSE <<"ok">>)
    /\ UNCHANGED seq

List(c, call) ==
    /\ call.op = "List"
    /\ Return(c, call, <<"ok", Listed(table, call.cat)>>)
    /\ UNCHANGED <<table, seq>>

Batch(c, call) ==
    /\ call.op = "Batch"
    /\ \/ /\ \A i \in DOMAIN call.upd : table[i] # NoRow
          /\ table' = WithQuantities(table, call.upd)
          /\ Return(c, call, <<"ok">>)
       \/ /\ \E i \in DOMAIN call.upd : table[i] = NoRow
          /\ Return(c, call, <<"err">>) /\ UNCHANGED table
    /\ UNCHANGED seq

\* A call that fails and changes nothing.
Fail(c, call) == Return(c, call, <<"err">>) /\ UNCHANGED <<table, seq>>

Next ==
    \E c \in Clients, call \in Calls :
        \/ Create(c, call) \/ Get(c, call) \/ Update(c, call) \/ Delete(c, call)
        \/ List(c, call) \/ Batch(c, call) \/ Fail(c, call)

Spec == Init /\ [][Next]_<<table, seq, out>>
=============================================================================
