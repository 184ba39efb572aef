---------------------------- MODULE OrderService ----------------------------
(***************************************************************************)
(* The gRPC services of challenge14 on one server, as TestMain starts      *)
(* them: UserService and ProductService over fixed maps, and OrderService, *)
(* whose orders map is written and read by handlers without a lock.       *)
(*                                                                         *)
(* gRPC runs every RPC on a goroutine of its own. A client c has one call  *)
(* in flight at a time; the server goroutine serving it goes through the   *)
(* handler in these steps:                                                 *)
(*                                                                         *)
(*   Receive   logging interceptor, then authInterceptor                   *)
(*   CheckUser the nested GetUser RPC (read-only map: one step)            *)
(*   CheckProduct the nested GetProduct RPC and the inventory check        *)
(*   BeginWrite / EndWrite  srv.orders[order.ID] = &order, a map write     *)
(*   BeginRead / EndRead    srv.orders[req.OrderID], a map read            *)
(*                                                                         *)
(* A map access that starts while another goroutine's write is under way  *)
(* is a data race. Go's runtime may see the write flag and abort the whole *)
(* process ("concurrent map writes" / "concurrent map read and map         *)
(* write"), or not see it; both outcomes are steps here. After the abort   *)
(* every call in flight, and every later one, fails with Unavailable.      *)
(*                                                                         *)
(* Shutdown (server.go) is GracefulStop, then the cleanup functions, of    *)
(* which RegisterOrderService's closes the client connection the order    *)
(* handlers make their nested GetUser and GetProduct calls on. While      *)
(* GracefulStop drains, an RPC that reaches the server before the client   *)
(* has taken in the GOAWAY is still served, a later one fails with         *)
(* Unavailable; GracefulStop returns once no handler is running.           *)
(***************************************************************************)
EXTENDS Integers, Functions, TLC

CONSTANTS
    Clients,         \* the goroutines calling OrderService
    Tokens,          \* authorization headers clients send: [present, scheme, value]
    RequestUsers,    \* UserIDs clients put in CreateOrder requests
    RequestProducts, \* ProductIDs clients put in CreateOrder requests
    Quantities,      \* Quantities clients put in CreateOrder requests
    OrderIds,        \* the values rand.Int64 may return (collisions included)
    MaxCalls,        \* bound: calls per client
    NoOrder          \* a model value: no order under that ID

\* bearerToken.
ExpectedToken == "token123"

\* newUserService's users: ID |-> Active.
Users == 1 :> TRUE @@ 2 :> TRUE @@ 3 :> FALSE

\* newProductService's products: ID |-> Inventory.
Inventory == 1 :> 10 @@ 2 :> 20 @@ 3 :> 1

CreateRequests ==
    [kind : {"create"}, token : Tokens, user : RequestUsers,
     product : RequestProducts, qty : Quantities]
GetRequests == [kind : {"get"}, token : Tokens, id : OrderIds]

VARIABLES
    pc,        \* each client's call: "idle", or the handler step it is at
    req,       \* each client's current (or last) request
    resp,      \* what each client's last call returned
    calls,     \* the calls each client has made
    newId,     \* the ID rand.Int64 gave the order a handler is storing
    orders,    \* srv.orders; an order keeps its request (the token is a ghost field)
    crashed,   \* the process was aborted by the runtime
    srv,       \* the gRPC server: "serving", "draining" (in GracefulStop), "stopped"
    connOpen   \* OrderService's client connection to the server is open

vars == <<pc, req, resp, calls, newId, orders, crashed, srv, connOpen>>

-----------------------------------------------------------------------------
\* Fault variant of authInterceptor that accepts any Bearer token.
AuthPrefixOnly(t) ==
    IF ~t.present THEN "missingToken"
    ELSE IF t.scheme # "Bearer" THEN "invalidFormat"
    ELSE "ok"

\* authInterceptor: the gRPC status of a request with this header, or "ok".
\* (The server always attaches metadata, so "missing metadata" cannot occur.)
AuthInterceptor(t) ==
    IF ~t.present THEN "missingToken"
    ELSE IF t.scheme # "Bearer" THEN "invalidFormat"
    ELSE IF t.value # ExpectedToken THEN "invalidToken"
    ELSE "ok"

\* userServer.GetUser.
GetUser(u) ==
    IF u \notin DOMAIN Users THEN "NotFound"
    ELSE IF ~Users[u] THEN "PermissionDenied"
    ELSE "ok"

\* productServer.GetProduct.
GetProduct(p) == IF p \notin DOMAIN Inventory THEN "NotFound" ELSE "ok"

\* What a nested GetUser or GetProduct call, whose handler would answer r,
\* returns: on a closed connection it fails, and while the server drains
\* it may come too late to be served.
NestedOutcomes(r) ==
    IF ~connOpen THEN {"Canceled"}
    ELSE IF srv = "draining" THEN {r, "Unavailable"}
    ELSE {r}

\* The nested GetUser RPC: the client's Invoke, then on the server
\* userServiceGetUserHandler, through the logging interceptor, to GetUser.
UserRPC(u) == NestedOutcomes(GetUser(u))

\* The nested GetProduct RPC, the same way to productServer.GetProduct.
ProductRPC(p) == NestedOutcomes(GetProduct(p))

\* NewGRPCServer with the three registrars: RegisterOrderService opens the
\* client connection (and adds its Close as a cleanup function), and the
\* server starts serving.
NewGRPCServer == srv = "serving" /\ connOpen = TRUE

\* Handlers in a map access, and those writing.
InMap == {c \in Clients : pc[c] \in {"writing", "reading"}}
Writing == {c \in Clients : pc[c] = "writing"}

-----------------------------------------------------------------------------
Init ==
    /\ pc = [c \in Clients |-> "idle"]
    /\ req = [c \in Clients |-> CHOOSE r \in GetRequests : TRUE]
    /\ resp = [c \in Clients |-> "none"]
    /\ calls = [c \in Clients |-> 0]
    /\ newId = [c \in Clients |-> CHOOSE i \in OrderIds : TRUE]
    /\ orders = [i \in OrderIds |-> NoOrder]
    /\ crashed = FALSE
    /\ NewGRPCServer

\* Answer client c's call and end the handler.
Reply(c, r) == pc' = [pc EXCEPT ![c] = "idle"] /\ resp' = [resp EXCEPT ![c] = r]

\* The runtime aborts the process: every call in flight fails.
Abort ==
    /\ crashed' = TRUE
    /\ pc' = [c \in Clients |-> "idle"]
    /\ resp' = [c \in Clients |-> IF pc[c] = "idle" THEN resp[c] ELSE "Unavailable"]

\* A client calls CreateOrder or GetOrder; on an aborted or stopped
\* server the call fails at once, on a draining one it may.
Call(c, r) ==
    /\ pc[c] = "idle"
    /\ calls[c] < MaxCalls
    /\ req' = [req EXCEPT ![c] = r]
    /\ calls' = [calls EXCEPT ![c] = @ + 1]
    /\ \/ (crashed \/ srv # "serving") /\ resp' = [resp EXCEPT ![c] = "Unavailable"] /\ UNCHANGED pc
       \/ ~crashed /\ srv # "stopped" /\ pc' = [pc EXCEPT ![c] = "received"] /\ UNCHANGED resp
    /\ UNCHANGED <<newId, orders, crashed, srv, connOpen>>

\* The Create/GetOrder handler: chainUnaryInterceptors runs the logging
\* interceptor, then authInterceptor, then the service method.
Receive(c) ==
    /\ pc[c] = "received"
    /\ LET a == AuthInterceptor(req[c].token)
       IN  IF a # "ok" THEN Reply(c, a)
           ELSE /\ pc' = [pc EXCEPT ![c] = IF req[c].kind = "create" THEN "user" ELSE "read"]
                /\ UNCHANGED resp
    /\ UNCHANGED <<req, calls, newId, orders, crashed, srv, connOpen>>

\* CreateOrder: the GetUser RPC; its error is returned as it is.
CheckUser(c) ==
    /\ pc[c] = "user"
    /\ \E u \in UserRPC(req[c].user) :
           IF u # "ok" THEN Reply(c, u)
           ELSE pc' = [pc EXCEPT ![c] = "product"] /\ UNCHANGED resp
    /\ UNCHANGED <<req, calls, newId, orders, crashed, srv, connOpen>>

\* CreateOrder: the GetProduct RPC, the inventory check, and the order's
\* ID from rand.Int64.
CheckProduct(c) ==
    /\ pc[c] = "product"
    /\ \E g \in ProductRPC(req[c].product) :
       \/ g # "ok" /\ Reply(c, g) /\ UNCHANGED newId
       \/ /\ g = "ok"
          /\ Inventory[req[c].product] < req[c].qty
          /\ Reply(c, "insufficientInventory")
          /\ UNCHANGED newId
       \/ /\ g = "ok"
          /\ Inventory[req[c].product] >= req[c].qty
          /\ \E i \in OrderIds : newId' = [newId EXCEPT ![c] = i]
          /\ pc' = [pc EXCEPT ![c] = "write"]
          /\ UNCHANGED resp
    /\ UNCHANGED <<req, calls, orders, crashed, srv, connOpen>>

\* A map access begins; while another goroutine writes, the runtime may
\* abort the process or miss the race.
BeginAccess(c, from, to) ==
    /\ pc[c] = from
    /\ \/ pc' = [pc EXCEPT ![c] = to] /\ UNCHANGED <<resp, crashed>>
       \/ Writing \ {c} # {} /\ Abort
    /\ UNCHANGED <<req, calls, newId, orders, srv, connOpen>>

BeginWrite(c) == BeginAccess(c, "write", "writing")

\* The write completes and CreateOrder returns the order.
EndWrite(c) ==
    /\ pc[c] = "writing"
    /\ orders' = [orders EXCEPT ![newId[c]] = req[c]]
    /\ Reply(c, "ok")
    /\ UNCHANGED <<req, calls, newId, crashed, srv, connOpen>>

BeginRead(c) == BeginAccess(c, "read", "reading")

\* GetOrder: the order, or NotFound.
EndRead(c) ==
    /\ pc[c] = "reading"
    /\ Reply(c, IF orders[req[c].id] = NoOrder THEN "NotFound" ELSE "ok")
    /\ UNCHANGED <<req, calls, newId, orders, crashed, srv, connOpen>>

\* Fault variant of Shutdown that runs the cleanup functions first.
BeginShutdownCleanupFirst ==
    /\ srv = "serving" /\ ~crashed
    /\ srv' = "draining" /\ connOpen' = FALSE
    /\ UNCHANGED <<pc, req, resp, calls, newId, orders, crashed>>

\* Shutdown calls GracefulStop: the listener closes and the server drains.
BeginShutdown ==
    /\ srv = "serving" /\ ~crashed
    /\ srv' = "draining"
    /\ UNCHANGED <<pc, req, resp, calls, newId, orders, crashed, connOpen>>

\* GracefulStop returns once no handler runs; Shutdown then runs the
\* cleanup functions, closing OrderService's client connection.
EndShutdown ==
    /\ srv = "draining" /\ ~crashed
    /\ \A c \in Clients : pc[c] = "idle"
    /\ srv' = "stopped" /\ connOpen' = FALSE
    /\ UNCHANGED <<pc, req, resp, calls, newId, orders, crashed>>

\* The steps of client c's handler goroutine.
Handler(c) ==
    Receive(c) \/ CheckUser(c) \/ CheckProduct(c)
    \/ BeginWrite(c) \/ EndWrite(c) \/ BeginRead(c) \/ EndRead(c)

Next ==
    \/ \E c \in Clients :
           \/ \E r \in CreateRequests \cup GetRequests : Call(c, r)
           \/ Handler(c)
    \/ BeginShutdown \/ EndShutdown

Spec == Init /\ [][Next]_vars

-----------------------------------------------------------------------------
\* Every stored order came through the whole chain: its request carried
\* the bearer token, named an existing active user and an existing
\* product, and asked for no more than the product's inventory, however
\* the handlers of several clients interleave.
OrdersAreAuthorized ==
    \A i \in OrderIds :
        LET o == orders[i]
        IN  o # NoOrder =>
              /\ o.token = [present |-> TRUE, scheme |-> "Bearer", value |-> ExpectedToken]
              /\ o.user \in DOMAIN Users /\ Users[o.user]
              /\ o.product \in DOMAIN Inventory
              /\ o.qty <= Inventory[o.product]

\* The connection the handlers make their nested calls on is closed only
\* when no handler is running: Shutdown's cleanup comes after GracefulStop
\* has drained every RPC, those accepted while draining included.
ConnClosedOnlyWhenIdle == ~connOpen => \A c \in Clients : pc[c] = "idle"

\* No two handlers are in the orders map at once with one of them writing:
\* the map is a plain Go map that the handlers share without a lock.
NoUnsyncMapAccess ==
    /\ ~crashed
    /\ \A c1, c2 \in InMap : c1 # c2 => {c1, c2} \cap Writing = {}

=============================================================================
