--------------------------- MODULE MCOrderService ---------------------------
EXTENDS OrderService

CONSTANTS c1, c2, o1, o2

\* The clients are interchangeable, and so are the IDs rand.Int64 returns:
\* every invariant checked is stated for all clients and all IDs alike.
MCSymmetry == Permutations({c1, c2}) \cup Permutations({o1, o2})

\* A header missing, one without the Bearer scheme, a Bearer header with
\* another token, and the client's addAuthToken header.
MCTokens ==
    { [present |-> FALSE, scheme |-> "", value |-> ""],
      [present |-> TRUE, scheme |-> "Basic", value |-> ExpectedToken],
      [present |-> TRUE, scheme |-> "Bearer", value |-> "other"],
      [present |-> TRUE, scheme |-> "Bearer", value |-> ExpectedToken] }

\* Only the header NewOrderServiceClient sends.
MCClientToken == {[present |-> TRUE, scheme |-> "Bearer", value |-> ExpectedToken]}
=============================================================================
