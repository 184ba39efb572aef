CONSTANTS
    Nodes <- MCNodes
    Adjacency <- MCAdjacency
    Queries <- MCQueries
    NumWorkers = 2
SPECIFICATION Spec
INVARIANT TypeOK
INVARIANT AnswersAreBfsOrders
PROPERTY AllGoroutinesEnd
\* The call returns and every goroutine it started ends: the final state
\* has no successor.
CHECK_DEADLOCK FALSE
