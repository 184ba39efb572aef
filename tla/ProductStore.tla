----------------------------- MODULE ProductStore -----------------------------
(***************************************************************************)
(* challenge13's ProductStore over SQLite's shared-cache in-memory        *)
(* database (InitDB opens "file:...?cache=shared&mode=memory"), used by    *)
(* several goroutines at once. database/sql gives each call a connection  *)
(* of its own pool; the connections share one cache, whose table locks     *)
(* are the only synchronisation:                                           *)
(*   - a statement that reads `products` needs a read lock: it fails with  *)
(*     SQLITE_LOCKED while another connection holds the write lock;        *)
(*   - a statement that writes needs the write lock: it fails while       *)
(*     another connection holds a read or the write lock;                  *)
(*   - a statement outside a transaction releases its lock when it ends.   *)
(*     ListProducts holds its read lock while its rows are open; a        *)
(*     transaction holds the write lock from its first UPDATE to its       *)
(*     Commit or Rollback.                                                 *)
(* Every call but ListProducts and BatchUpdateInventory is one statement,  *)
(* one step. Name and Price are data the store copies and are left out:  *)
(* a row is its Quantity and Category.                                     *)
(***************************************************************************)
EXTENDS Naturals, FiniteSets, TLC

CONSTANTS
    Clients,        \* goroutines calling the store
    Ids,            \* 1..MaxId: the IDs AUTOINCREMENT can hand out (bound)
    Calls,          \* the calls clients make, as records [op, id, row, cat, upd]
    NoRow,          \* a model value: no row under that ID
    NoClient,       \* a model value: no connection holds the write lock
    NoCall,         \* a model value: no call in progress
    AllCategories   \* ListProducts' "" category: no filter

VARIABLES
    table,    \* the committed rows of `products`: ID |-> row or NoRow
    seq,      \* sqlite_sequence's value for `products`: the largest ID handed out
    pc,       \* each client's call: "idle", "listing" (rows open) or "batch"
    call,     \* the call of each client whose List or Batch is in progress
    writer,   \* the connection holding the write lock on `products`
    pending,  \* each transaction's uncommitted quantities: ID |-> qty
    todo,     \* the IDs of `updates` the range loop has yet to visit
    affected, \* totalAffected of each batch
    out       \* the last call that returned, with its result

vars == <<table, seq, pc, call, writer, pending, todo, affected, out>>

-----------------------------------------------------------------------------
\* Connections whose rows are open: each holds a read lock.
Readers == {c \in Clients : pc[c] = "listing"}

\* A read by c fails with SQLITE_LOCKED.
ReadLocked(c) == writer \notin {NoClient, c}

\* A write by c fails with SQLITE_LOCKED.
WriteLocked(c) == ReadLocked(c) \/ Readers \ {c} # {}

\* The ID the INSERT gives a row, INTEGER PRIMARY KEY AUTOINCREMENT: one
\* more than any ID ever handed out, deleted rows included.
NextId == seq + 1

\* The rows ListProducts returns: all of them for "", else those whose
\* category equals cat (the WHERE clause), with their IDs.
Selected(cat) ==
    {<<i, table[i]>> : i \in {j \in Ids : table[j] # NoRow /\ (cat = AllCategories \/ table[j].cat = cat)}}

\* Client c's call r returns res; the handler's deferred calls have run.
Return(c, r, res) ==
    /\ pc' = [pc EXCEPT ![c] = "idle"]
    /\ out' = <<r, res>>

Init ==
    /\ table = [i \in Ids |-> NoRow]
    /\ seq = 0
    /\ pc = [c \in Clients |-> "idle"]
    /\ call = [c \in Clients |-> NoCall]
    /\ writer = NoClient
    /\ pending = [c \in Clients |-> <<>>]
    /\ todo = [c \in Clients |-> {}]
    /\ affected = [c \in Clients |-> 0]
    /\ out = <<>>

\* A statement of client c that fails with SQLITE_LOCKED; the call returns
\* the error.
Locked(c, r) == Return(c, r, <<"err">>) /\ UNCHANGED <<table, seq>>

\* CreateProduct: the INSERT, and product.ID from LastInsertId.
CreateProduct(c, r) ==
    /\ r.op = "Create"
    /\ \/ WriteLocked(c) /\ Locked(c, r)
       \/ /\ ~WriteLocked(c)
          /\ NextId \in Ids
          /\ table' = [table EXCEPT ![NextId] = r.row]
          /\ seq' = NextId
          /\ Return(c, r, <<"ok", NextId>>)

\* GetProduct: the SELECT; Scan fails with sql.ErrNoRows on no row.
GetProduct(c, r) ==
    /\ r.op = "Get"
    /\ \/ ReadLocked(c) /\ Locked(c, r)
       \/ /\ ~ReadLocked(c)
          /\ Return(c, r, IF table[r.id] = NoRow THEN <<"err">> ELSE <<"ok", table[r.id]>>)
          /\ UNCHANGED <<table, seq>>

\* UpdateProduct: the UPDATE, then an error unless one row was affected.
UpdateProduct(c, r) ==
    /\ r.op = "Update"
    /\ \/ WriteLocked(c) /\ Locked(c, r)
       \/ /\ ~WriteLocked(c)
          /\ table' = [table EXCEPT ![r.id] = IF @ = NoRow THEN @ ELSE r.row]
          /\ Return(c, r, IF table[r.id] = NoRow THEN <<"err">> ELSE <<"ok">>)
          /\ UNCHANGED seq

\* DeleteProduct: the DELETE, then an error unless one row was affected.
DeleteProduct(c, r) ==
    /\ r.op = "Delete"
    /\ \/ WriteLocked(c) /\ Locked(c, r)
       \/ /\ ~WriteLocked(c)
          /\ table' = [table EXCEPT ![r.id] = NoRow]
          /\ Return(c, r, IF table[r.id] = NoRow THEN <<"err">> ELSE <<"ok">>)
          /\ UNCHANGED seq

\* ListProducts: QueryContext opens the rows (and the read lock), or fails.
ListProducts(c, r) ==
    /\ r.op = "List"
    /\ \/ ReadLocked(c) /\ Locked(c, r) /\ UNCHANGED call
       \/ /\ ~ReadLocked(c)
          /\ pc' = [pc EXCEPT ![c] = "listing"]
          /\ call' = [call EXCEPT ![c] = r]
          /\ UNCHANGED <<table, seq, out>>

\* BatchUpdateInventory: BeginTx and PrepareContext, which take no lock
\* (the transaction is DEFERRED).
BeginBatch(c, r) ==
    /\ r.op = "Batch"
    /\ pc' = [pc EXCEPT ![c] = "batch"]
    /\ call' = [call EXCEPT ![c] = r]
    /\ todo' = [todo EXCEPT ![c] = DOMAIN r.upd]
    /\ affected' = [affected EXCEPT ![c] = 0]
    /\ UNCHANGED <<table, seq, out, writer, pending>>

\* A client calls the store.
Start(c) ==
    /\ pc[c] = "idle"
    /\ \E r \in Calls :
          \/ /\ \/ CreateProduct(c, r) \/ GetProduct(c, r) \/ UpdateProduct(c, r)
                \/ DeleteProduct(c, r)
             /\ UNCHANGED call
             /\ UNCHANGED <<writer, pending, todo, affected>>
          \/ ListProducts(c, r) /\ UNCHANGED <<writer, pending, todo, affected>>
          \/ BeginBatch(c, r)

\* The call of c ends: it is forgotten once it returns.
EndCall(c, res) == Return(c, call[c], res) /\ call' = [call EXCEPT ![c] = NoCall]

\* ListProducts: the rows.Next/Scan loop, then rows.Close (the read lock
\* is released).
ListDone(c) ==
    /\ pc[c] = "listing"
    /\ EndCall(c, <<"ok", Selected(call[c].cat)>>)
    /\ UNCHANGED <<table, seq, writer, pending, todo, affected>>

\* The deferred tx.Rollback: the transaction's writes are discarded and its
\* write lock, if it took one, released. (After a Commit it is a no-op.)
Rollback(c) ==
    /\ pending' = [pending EXCEPT ![c] = <<>>]
    /\ writer' = IF writer = c THEN NoClient ELSE writer

\* One iteration of the range loop over updates, in the map's random order:
\* stmt.ExecContext(qty, id). Its UPDATE takes the write lock and counts
\* the row it affects, or fails, and the call returns the error.
BatchExec(c) ==
    /\ pc[c] = "batch"
    /\ \E i \in todo[c] :
          \/ /\ WriteLocked(c)
             /\ EndCall(c, <<"err">>)
             /\ Rollback(c)
             /\ todo' = [todo EXCEPT ![c] = {}]
             /\ affected' = [affected EXCEPT ![c] = 0]
          \/ /\ ~WriteLocked(c)
             /\ writer' = c
             /\ todo' = [todo EXCEPT ![c] = @ \ {i}]
             /\ IF table[i] = NoRow
                THEN UNCHANGED <<pending, affected>>
                ELSE /\ pending' = [pending EXCEPT ![c] = pending[c] @@ (i :> call[c].upd[i])]
                     /\ affected' = [affected EXCEPT ![c] = @ + 1]
             /\ UNCHANGED <<pc, call, out>>
    /\ UNCHANGED <<table, seq>>

\* The committed table with c's transaction applied.
Committed(c) ==
    [i \in Ids |-> IF i \in DOMAIN pending[c] THEN [table[i] EXCEPT !.qty = pending[c][i]] ELSE table[i]]

\* Fault variant of the end of BatchUpdateInventory that commits without
\* comparing totalAffected with len(updates).
BatchDoneNoCheck(c) ==
    /\ pc[c] = "batch" /\ todo[c] = {}
    /\ table' = Committed(c) /\ EndCall(c, <<"ok">>)
    /\ Rollback(c)
    /\ affected' = [affected EXCEPT ![c] = 0]
    /\ UNCHANGED <<seq, todo>>

\* The end of BatchUpdateInventory: an error unless every update affected
\* a row, else tx.Commit; then the deferred Rollback.
BatchDone(c) ==
    /\ pc[c] = "batch" /\ todo[c] = {}
    /\ \/ /\ affected[c] # Cardinality(DOMAIN call[c].upd)
          /\ EndCall(c, <<"err">>) /\ UNCHANGED table
       \/ /\ affected[c] = Cardinality(DOMAIN call[c].upd)
          /\ table' = Committed(c) /\ EndCall(c, <<"ok">>)
    /\ Rollback(c)
    /\ affected' = [affected EXCEPT ![c] = 0]
    /\ UNCHANGED <<seq, todo>>

Next ==
    \E c \in Clients : Start(c) \/ ListDone(c) \/ BatchExec(c) \/ BatchDone(c)

Spec == Init /\ [][Next]_vars

-----------------------------------------------------------------------------
Abstract == INSTANCE ProductStoreSpec

\* The store behaves as ProductStoreSpec: every call takes effect at one
\* instant, IDs are never handed out twice (deleted ones included), and a
\* BatchUpdateInventory changes every product it names or none, with the
\* results the callers see, however the goroutines' statements, open rows
\* and transactions interleave.
ImplementsProductStore == Abstract!Spec

=============================================================================
