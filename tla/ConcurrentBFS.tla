---------------------------- MODULE ConcurrentBFS ----------------------------
(***************************************************************************)
(* ConcurrentBFSQueries of challenge04/bfs.go: NumWorkers worker           *)
(* goroutines take start nodes from the unbuffered channel `starts`, run   *)
(* bfs and send the result on the unbuffered channel `results`; a feeder   *)
(* goroutine sends the queries and closes `starts`; a closer goroutine     *)
(* waits on the WaitGroup and closes `results`; the calling goroutine      *)
(* collects results until `results` is closed, then returns the map.      *)
(*                                                                         *)
(* A send on an unbuffered channel completes together with a receive, so  *)
(* each send/receive pair is one step of both goroutines. bfs itself is    *)
(* the RECURSIVE operator Bfs, run by the worker in the step that hands    *)
(* its result over.                                                        *)
(***************************************************************************)
EXTENDS Integers, Sequences, SequencesExt, Functions, Graphs, TLC

CONSTANTS
    Nodes,       \* the node ids
    Adjacency,   \* the graphs the function may be called with: [Nodes -> Seq(Nodes)]
    Queries,     \* the queries slice
    NumWorkers   \* numWorkers

ASSUME /\ Queries \in Seq(Nodes)
       /\ NumWorkers \in Nat

Workers == 1..NumWorkers

-----------------------------------------------------------------------------
(* bfs: a FIFO queue and a visited set; a node is marked visited when it  *)
(* is enqueued, and neighbours are scanned in adjacency-list order. A     *)
(* node missing from the map has no neighbours (graph[node] is nil).      *)

\* Fault variant of bfs that marks a node visited when it is dequeued.
RECURSIVE BfsLoopVisitOnDequeue(_, _, _, _)
BfsLoopVisitOnDequeue(g, queue, visited, result) ==
    IF queue = <<>> THEN result
    ELSE LET node == Head(queue)
             seen == visited \cup {node}
             Scan(q, nb) == IF nb \in seen THEN q ELSE Append(q, nb)
         IN  BfsLoopVisitOnDequeue(g, FoldLeft(Scan, Tail(queue), g[node]), seen,
                                   Append(result, node))

RECURSIVE BfsLoop(_, _, _, _)
BfsLoop(g, queue, visited, result) ==
    IF queue = <<>> THEN result
    ELSE LET node == Head(queue)
             Scan(acc, nb) ==
                 IF nb \in acc.visited THEN acc
                 ELSE [visited |-> acc.visited \cup {nb}, queue |-> Append(acc.queue, nb)]
             scanned == FoldLeft(Scan, [visited |-> visited, queue |-> Tail(queue)], g[node])
         IN  BfsLoop(g, scanned.queue, scanned.visited, Append(result, node))

Bfs(g, start) == BfsLoop(g, <<start>>, {start}, <<>>)

-----------------------------------------------------------------------------
VARIABLES
    graph,          \* the graph argument
    next,           \* the feeder's index into queries (1-based)
    startsClosed,   \* close(starts) has run
    wpc,            \* each worker: "recv" in range starts, "send" on results, "exit"
    item,           \* the start node each worker is working on
    wg,             \* the WaitGroup counter
    resultsClosed,  \* close(results) has run
    res,            \* the map the caller builds
    returned        \* the caller has returned res

vars == <<graph, next, startsClosed, wpc, item, wg, resultsClosed, res, returned>>

\* wg.Go starts each worker after Add(1): the counter starts at NumWorkers.
Init ==
    /\ graph \in Adjacency
    /\ next = 1
    /\ startsClosed = FALSE
    /\ wpc = [w \in Workers |-> "recv"]
    /\ item = [w \in Workers |-> CHOOSE n \in Nodes : TRUE]
    /\ wg = NumWorkers
    /\ resultsClosed = FALSE
    /\ res = <<>>
    /\ returned = FALSE

\* The feeder's `starts <- q`, received by worker w's range loop.
Feed(w) ==
    /\ next <= Len(Queries)
    /\ wpc[w] = "recv"
    /\ wpc' = [wpc EXCEPT ![w] = "send"]
    /\ item' = [item EXCEPT ![w] = Queries[next]]
    /\ next' = next + 1
    /\ UNCHANGED <<graph, startsClosed, wg, resultsClosed, res, returned>>

\* Fault variant of the feeder that never closes starts.
CloseStartsNever == FALSE

\* The feeder, out of queries, closes starts and exits.
CloseStarts ==
    /\ next > Len(Queries)
    /\ ~startsClosed
    /\ startsClosed' = TRUE
    /\ UNCHANGED <<graph, next, wpc, item, wg, resultsClosed, res, returned>>

\* Worker w's `results <- MapEntry{s, bfs(graph, s)}`, received by the
\* caller's range loop, which stores it in res.
Deliver(w) ==
    /\ wpc[w] = "send"
    /\ ~resultsClosed
    /\ res' = (item[w] :> Bfs(graph, item[w])) @@ res
    /\ wpc' = [wpc EXCEPT ![w] = "recv"]
    /\ UNCHANGED <<graph, next, startsClosed, item, wg, resultsClosed, returned>>

\* Fault variant in which a worker that has exited calls Done again.
WorkerExitAgain(w) ==
    /\ wpc[w] \in {"recv", "exit"}
    /\ startsClosed
    /\ wpc' = [wpc EXCEPT ![w] = "exit"]
    /\ wg' = wg - 1
    /\ UNCHANGED <<graph, next, startsClosed, item, resultsClosed, res, returned>>

\* Worker w's range over the closed starts ends; wg.Go calls Done.
WorkerExit(w) ==
    /\ wpc[w] = "recv"
    /\ startsClosed
    /\ wpc' = [wpc EXCEPT ![w] = "exit"]
    /\ wg' = wg - 1
    /\ UNCHANGED <<graph, next, startsClosed, item, resultsClosed, res, returned>>

\* The closer: wg.Wait() returns, then close(results).
CloseResults ==
    /\ wg = 0
    /\ ~resultsClosed
    /\ resultsClosed' = TRUE
    /\ UNCHANGED <<graph, next, startsClosed, wpc, item, wg, res, returned>>

\* The caller's range over the closed results ends, and it returns res.
Return ==
    /\ resultsClosed
    /\ ~returned
    /\ returned' = TRUE
    /\ UNCHANGED <<graph, next, startsClosed, wpc, item, wg, resultsClosed, res>>

Next ==
    \/ CloseStarts
    \/ CloseResults
    \/ Return
    \/ \E w \in Workers : Feed(w) \/ Deliver(w) \/ WorkerExit(w)

(***************************************************************************)
(* The goroutines do not stop while one of them can take a step: the Go    *)
(* scheduler runs runnable goroutines, and a send and a receive on an      *)
(* unbuffered channel that both wait stay ready until they meet. Every     *)
(* step moves the call forward (no step undoes another), so weak fairness  *)
(* of Next is all that termination needs.                                  *)
(***************************************************************************)
Spec == Init /\ [][Next]_vars /\ WF_vars(Next)

-----------------------------------------------------------------------------
(* What a BFS order from s is, independently of any queue: it starts at s, *)
(* lists every node reachable from s exactly once, and lists the other     *)
(* nodes by their discoverer (the first listed node that has them as a     *)
(* neighbour), then by their first place in its adjacency list.            *)
AsGraph(g) == [node |-> Nodes, edge |-> {e \in Nodes \X Nodes : e[2] \in Range(g[e[1]])}]

Reachable(g, s) == {s} \cup Descendants(AsGraph(g), s)

Discoverer(g, seq, k) ==
    CHOOSE p \in 1..(k - 1) :
        /\ seq[k] \in Range(g[seq[p]])
        /\ \A q \in 1..(p - 1) : seq[k] \notin Range(g[seq[q]])

Rank(g, seq, k) ==
    LET p == Discoverer(g, seq, k)
    IN  <<p, SelectInSeq(g[seq[p]], LAMBDA x : x = seq[k])>>

Before(a, b) == a[1] < b[1] \/ (a[1] = b[1] /\ a[2] < b[2])

IsBfsOrder(g, s, seq) ==
    /\ Len(seq) >= 1
    /\ seq[1] = s
    /\ IsInjective(seq)
    /\ Range(seq) = Reachable(g, s)
    /\ \A k \in 2..Len(seq) : \E p \in 1..(k - 1) : seq[k] \in Range(g[seq[p]])
    /\ \A k \in 2..(Len(seq) - 1) : Before(Rank(g, seq, k), Rank(g, seq, k + 1))

TypeOK ==
    /\ graph \in Adjacency
    /\ next \in 1..(Len(Queries) + 1)
    /\ wpc \in [Workers -> {"recv", "send", "exit"}]
    /\ item \in [Workers -> Nodes]
    /\ wg \in 0..NumWorkers
    /\ DOMAIN res \subseteq Nodes
    /\ {startsClosed, resultsClosed, returned} \subseteq BOOLEAN

\* When ConcurrentBFSQueries returns, its map has an entry for every query
\* and no other, and each entry is the BFS order from that query: no
\* worker's result is still in flight when the closer closes results, and
\* bfs visits each reachable node once, in BFS order.
AnswersAreBfsOrders ==
    returned =>
        /\ DOMAIN res = Range(Queries)
        /\ \A q \in DOMAIN res : IsBfsOrder(graph, q, res[q])

\* Every goroutine the call starts ends and the call returns: the feeder
\* after close(starts), every worker when its range over starts ends, the
\* closer after close(results), the caller after its range over results.
AllGoroutinesEnd ==
    <>(returned /\ startsClosed /\ resultsClosed /\ \A w \in Workers : wpc[w] = "exit")

=============================================================================
