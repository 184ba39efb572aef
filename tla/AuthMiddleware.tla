--------------------------- MODULE AuthMiddleware ---------------------------
(***************************************************************************)
(* challenge05/authentication.go: SetupServer's ServeMux with the public  *)
(* /hello route and the /secure route behind AuthMiddleware. A request is *)
(* its path and its header fields in arrival order; a response is its     *)
(* status and the pieces written to its body. Once a body write or an     *)
(* http.Error has sent the status, later writes append to the body and    *)
(* leave the status as it was. The handlers' Fprint into the buffered     *)
(* ResponseWriter cannot fail for bodies this short, so their 500 branch  *)
(* is not taken.                                                           *)
(***************************************************************************)
EXTENDS Integers, Sequences

SeqExt == INSTANCE SequencesExt

CONSTANTS
    Paths,         \* request paths, already clean (ServeMux redirects others)
    FieldNames,    \* header field names as the client spelt them
    FieldValues,   \* header field values
    Canonical,     \* textproto.CanonicalMIMEHeaderKey on FieldNames
    MaxFields      \* bound: header fields in a request

VARIABLE request

\* validToken.
ValidToken == "secret"

\* r.Header.Get(key): the first value of a field whose canonical name is
\* key, or "" when there is none.
HeaderGet(fields, key) ==
    LET matching == SelectSeq(fields, LAMBDA f : Canonical[f[1]] = key)
    IN  IF matching = <<>> THEN "" ELSE matching[1][2]

\* http.Error(w, "", code): the status, and an empty line as the body.
HttpError(code) == [status |-> code, body |-> <<"\n">>]

\* Writing s to a response: the status is 200 unless already sent.
Write(res, s) ==
    [status |-> IF res.status = 0 THEN 200 ELSE res.status, body |-> Append(res.body, s)]

Unwritten == [status |-> 0, body |-> <<>>]

\* helloHandler and secureHandler.
HelloHandler(res) == Write(res, "Hello!")
SecureHandler(res) == Write(res, "You are authorized!")

\* Fault variant of AuthMiddleware that answers 401 without returning.
AuthMiddlewareNoReturn(r) ==
    IF HeaderGet(r.fields, "X-Auth-Token") # ValidToken
    THEN SecureHandler(HttpError(401))
    ELSE SecureHandler(Unwritten)

\* AuthMiddleware(secureHandler): 401 and return when the X-Auth-Token
\* header is not validToken, else the wrapped handler.
AuthMiddleware(r) ==
    IF HeaderGet(r.fields, "X-Auth-Token") # ValidToken
    THEN HttpError(401)
    ELSE SecureHandler(Unwritten)

\* SetupServer's mux: exact-path patterns /hello and /secure; any other
\* path is ServeMux's 404.
SetupServer(r) ==
    CASE r.path = "/hello" -> HelloHandler(Unwritten)
      [] r.path = "/secure" -> AuthMiddleware(r)
      [] OTHER -> HttpError(404)

\* One request to the server.
Init == request \in [path : Paths, fields : SeqExt!BoundedSeq(FieldNames \X FieldValues, MaxFields)]

Spec == Init /\ [][UNCHANGED request]_request

-----------------------------------------------------------------------------
\* What a request gets, as the comments of AuthMiddleware and SetupServer
\* say: /hello answers "Hello!" to anyone; /secure answers "You are
\* authorized!" with 200 exactly when the first X-Auth-Token field, its
\* name in any letter case, is "secret", and otherwise 401 with nothing of
\* the secure handler's body; every other path is 404.
AuthRoutesMatch ==
    LET res == SetupServer(request)
        tokens == SelectSeq(request.fields, LAMBDA f : f[1] \in {"X-Auth-Token", "x-auth-token"})
        authorized == tokens # <<>> /\ tokens[1][2] = "secret"
    IN  /\ res.status = CASE request.path = "/hello" -> 200
                          [] request.path = "/secure" -> IF authorized THEN 200 ELSE 401
                          [] OTHER -> 404
        /\ (\E k \in DOMAIN res.body : res.body[k] = "You are authorized!")
              <=> (request.path = "/secure" /\ authorized)

=============================================================================
