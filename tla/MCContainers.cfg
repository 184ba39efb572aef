\* Queue and Stack: two values, two addresses, at most two elements, enough
\* for Dequeue's single-node and two-node branches each to be followed by
\* an Enqueue, and for nodes to be reallocated at addresses the list
\* dropped. Set: three values and two variables, so that results can be
\* stored over an argument (x := Union(x, y)) or over the other variable.
\* ProductStore: two clients and IDs 1..2, enough to delete the newest
\* product before the next CreateProduct, and for a batch to name one
\* existing and one missing product while the other client reads or writes.
CONSTANTS
    v1 = v1
    v2 = v2
    v3 = v3
    a1 = a1
    a2 = a2
    x = x
    y = y
    Nil = Nil
    MaxSize = 2
    p1 = p1
    p2 = p2
    NoRow = NoRow
    NoClient = NoClient
    NoCall = NoCall
    MaxId = 2
SPECIFICATION Spec
INVARIANT QueueWellFormed
INVARIANT NoDuplicates
PROPERTY QueueIsFifo
PROPERTY StackIsLifo
PROPERTY ImplementsSet
PROPERTY ImplementsProductStore
