\* Two clients, one call each: two CreateOrder (or a CreateOrder and a
\* GetOrder) handlers reach the orders map together.
CONSTANTS
    c1 = c1
    c2 = c2
    o1 = o1
    o2 = o2
    Clients = {c1, c2}
    Tokens <- MCTokens
    RequestUsers = {1, 3, 999}
    RequestProducts = {3, 999}
    Quantities = {1, 2}
    OrderIds = {o1, o2}
    MaxCalls = 1
    NoOrder = NoOrder
SPECIFICATION Spec
INVARIANT NoUnsyncMapAccess
\* The clients stop after MaxCalls calls each.
CHECK_DEADLOCK FALSE
