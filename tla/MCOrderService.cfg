\* Two clients with two calls each: a CreateOrder can be followed by a
\* GetOrder of the same client or race another client's call. Requests name
\* an active user (1), an inactive one (3) and an unknown one (999), the
\* product with inventory 1 (3) and an unknown one (999), and quantities 1
\* and 2. rand.Int64 is drawn from two IDs, so orders may collide.
CONSTANTS
    c1 = c1
    c2 = c2
    o1 = o1
    o2 = o2
    Clients = {c1, c2}
    Tokens <- MCTokens
    RequestUsers = {1, 3, 999}
    RequestProducts = {3, 999}
    Quantities = {1, 2}
    OrderIds = {o1, o2}
    MaxCalls = 2
    NoOrder = NoOrder
SPECIFICATION Spec
SYMMETRY MCSymmetry
INVARIANT OrdersAreAuthorized
INVARIANT ConnClosedOnlyWhenIdle
\* The clients stop after MaxCalls calls each.
CHECK_DEADLOCK FALSE
