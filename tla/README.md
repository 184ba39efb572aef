# TLA+ models of go-interview-practice

This directory holds TLA+ models of the Go code under `src/`, the TLC
configurations that check them, and `PROJECT.json`. `PROJECT.json` maps every
model definition to the source lines it translates, and lists the runs, the
fault variants (mutants) each property must catch, the findings and the
hazards.

## 1. Inventory

The repository is a set of independent exercises. `spec.md` specifies only the
circuit breaker. The other packages are specified by their comments and tests.
They do not call each other, except that challenge23 reuses challenge16's KMP
loop, and the challenge14 services call each other over gRPC.

| Component | Source | State it keeps | Operations | Concurrency / hard behaviour |
|---|---|---|---|---|
| CircuitBreaker | `challenge20/circuit_breaker.go` | `state`, `metrics` (Requests, Successes, Failures, ConsecutiveFailures, LastFailureTime), `lastStateChange`, `halfOpenRequests`, all behind one `sync.RWMutex`; an immutable `Config` | `NewCircuitBreaker`, `Call` (= ctx check, `canExecute`, operation, `recordSuccess`/`recordFailure`), `GetState`, `GetMetrics`; internal `setState`, `isReady`, `shouldTrip` | Many goroutines call `Call`. Admission is a read-locked peek followed by a write-locked re-check. The operation runs outside the lock. Time-based Open→HalfOpen. `OnStateChange` is a callback run under the write lock. |
| BankAccount | `challenge07/account.go` | `Balance`, `MinBalance`, `ID`, a `sync.Mutex` per account | `NewBankAccount`, `Deposit`, `Withdraw`, `Transfer`, `validateAmount`, `transact` | `Transfer` locks two mutexes, ordered by `ID`. Concurrent transfers can deadlock or lose money. |
| ConcurrentBFSQueries | `challenge04/bfs.go` | the channels `starts`, `results`, a `WaitGroup`, the result map | `ConcurrentBFSQueries` (workers, feeder, closer, collector), `bfs` | Unbuffered channels, `close`, `wg.Wait`. Termination, and `numWorkers = 0`. |
| String search | `challenge16/perf.go`, `challenge23/match.go` | none (pure) | `HighAllocationSearch`, `OptimizedSearch`/`kmpLoop`, `NaivePatternMatch`, `KMPSearch`, `RabinKarpSearch`, `powMod` | Index arithmetic: the LPS table, overlapping matches, empty patterns, the rolling hash mod 101. |
| Sorting, Fibonacci | `challenge16/perf.go` | none (pure) | `SlowSort`, `OptimizedSort`/`SortDualPivot`/`partition`, `ExpensiveCalculation`, `OptimizedCalculation` | Loop invariants of the dual-pivot partition. Equal results, including negative `n`. |
| Order/User/Product services | `challenge14/*` | `orders` map (order server), fixed `users` and `products` maps | `CreateOrder` (GetUser RPC, GetProduct RPC, inventory check, insert), `GetOrder`, `GetUser`, `GetProduct`, auth and logging interceptors, server start/shutdown | gRPC serves each RPC on its own goroutine. `orders` is an unguarded map. Inventory is checked but never decremented. Order IDs are random. |
| ProductStore | `challenge13/database.go` | the SQLite `products` table | `CreateProduct`, `GetProduct`, `UpdateProduct`, `DeleteProduct`, `ListProducts`, `BatchUpdateInventory` | A transaction with a deferred rollback. Partial failure of a batch. |
| Generic containers | `challenge27/*` | linked nodes and `size` (Stack, Queue), a slice (Set) | Push/Pop/Peek, Enqueue/Dequeue/Front, Add/Remove/Contains/Union/Intersection/Difference, Filter/Map/Reduce/... | Pointer updates that must keep `head`, `tail`, `prev`, `next` and `size` consistent. |
| Utilities | `challenge19/slices.go`, `challenge17/palindrome.go`, `challenge05/authentication.go`, `challenge10/polymorphism.go`, `challenge14/codec` | none | pure functions, an HTTP header check, float geometry, a codec | none to speak of |

Properties that make each part correct:

- **CircuitBreaker.** Admission as if atomic: no rejection once another caller
  has half-opened the breaker, and no admission into Open before the timeout.
  The transition table of spec.md §4. Open and HalfOpen do not last forever.
  HalfOpen admits at most `MaxRequests` probes (the code's comment). Only
  probes close the breaker (spec.md's "trial successes").
- **BankAccount.** Money is conserved by transfers. No balance goes below its
  minimum. No deadlock among concurrent transfers.
- **ConcurrentBFSQueries.** Every query gets its BFS order. All goroutines end.
  Each result is the BFS order.
- **Search.** Every algorithm returns exactly the naive matcher's positions.
- **Sort.** The output is the sorted permutation of the input.
- **Orders.** An order exists only for an active user and an existing product.
  The quantity ordered does not exceed the inventory.
- **ProductStore.** A batch is all-or-nothing. IDs are not reused.
- **Containers.** Each refines the abstract sequence or set it implements.

## 2. Plan

Modules are written in this order, most important behaviour first:

1. `CircuitBreakerSpec` (abstract, atomic transition table), `CircuitBreaker`
   (concurrent callers, peek/double-check), `MCCircuitBreaker`. **Done.**
2. `CircuitBreakerLock`: the same breaker with an explicit `RWMutex`.
   **Dropped.** A callback that reads the breaker hangs its own call with
   certainty, with no second goroutine involved (see section 4). Every other
   lock use is a critical section without blocking calls, which the atomic
   steps of `CircuitBreaker` already represent.
3. `BankAccount` + `MCBankAccount`: goroutines running `Transfer`, `Deposit`
   and `Withdraw`, with per-account mutexes as explicit lock steps. Checks
   `MoneyConserved`, `AboveMinimum`, deadlock freedom, and the violation runs
   for a self-transfer and for equal IDs. **Done.**
4. `ConcurrentBFS` + MC: channel steps for workers, feeder, closer and
   collector. Checks that every query is answered and that all goroutines
   terminate. `bfs` is a RECURSIVE operator, checked against graph
   reachability (community `Graphs`). **Done.**
5. `StringSearch` + MC: `kmpLoop`, `RabinKarpSearch`, `powMod` and
   `HighAllocationSearch` as operators, compared with `NaivePatternMatch`
   over all strings up to length 5 on {a, b}. **Done** (texts up to 6, patterns
   up to 4, over {a, b, A}).
6. `PerfAlgorithms`: the sorts and Fibonacci sums as operators, checked
   against a sorted-permutation reference and against each other. **Done.**
   The loops are `RECURSIVE` operators rather than a step machine: nothing
   runs concurrently with them. The 64-bit wrap-around is not modelled
   (see section 4).
7. `OrderService` + MC: concurrent `CreateOrder` handlers (user check,
   product check, inventory check, insert) and `GetOrder`, with the
   interceptor chain as a guard. **Done** (see the OrderService section).
8. `LinkedQueue` / `LinkedStack` refining `Sequences`-based FIFO/LIFO specs
   and `SliceSet` refining a set. **Done.**
9. `ProductStore`: the table, AUTOINCREMENT ids, and the batch transaction.
   **Done** (see the ProductStore section).
10. `SliceUtils`, `Palindrome`, `Generics`: challenge19, challenge17 and the
    challenge27 utilities and Pair as operators, checked against reference
    definitions in the `pure_algorithms` run. **Done.**
11. `Shapes` and `AuthMiddleware`: challenge10's constructors and
    calculator, with IEEE floats as a small domain, and challenge05's mux
    and middleware, as operators in the `pure_algorithms` run. **Done.**
12. `OrderService` shutdown: `GracefulStop` and the cleanup of
    `server.go`, checked by `orders_concurrent`. **Done.**

## 3. What is modelled

### CircuitBreaker (`CircuitBreaker.tla`, `CircuitBreakerSpec.tla`)

State. `cb` is a record with the fields of `circuitBreakerImpl`:

- `state`;
- `consecutiveFailures`;
- `halfOpenRequests`;
- `elapsed`, the time since `lastStateChange`.

Each caller goroutine has a `pc` (`idle`, `lock`, `run`) and a `ret` (what
`Call` last returned). The internal methods are functions on the record:
`SetState`, `RecordSuccess`, `RecordFailure`, `IsReady`, `ShouldTrip`. Each
is a line-by-line translation.

Actions. Each action is one critical section of `Call`, or the lock-free gap
between two:

- `CtxDone`: the ctx check, which returns at once.
- `Peek`: `GetState()` under the read lock. It admits the caller unless the
  state is Open.
- `LockedCheck`: the write-locked part of `canExecute`. It re-checks the
  state, then rejects, or half-opens and admits.
- `Record`: the operation returns, and `recordSuccess`/`recordFailure` runs
  under the write lock. The outcome is chosen here, because the operation
  runs outside the lock between admission and this step.
- `Tick`: time passes.

The RWMutex is represented by the atomicity of these steps. This is exact
while no critical section blocks. The callback is the one thing that can
block, and it is left to step 2 of the plan.

Abstractions:

- **Time.** Only the ticks since the last transition are kept, saturated at
  `Timeout + 1`. `isReady` only asks whether the elapsed time exceeds
  `Timeout`.
- **ReadyToTrip.** This is the default form, `ConsecutiveFailures >= N`, with
  `N = TripThreshold`. `ConsecutiveFailures` saturates at `N + 1`.
- **Omitted metrics.** `Requests`, `Successes`, `Failures` and
  `LastFailureTime` are written but never read under this predicate, so they
  are left out.
- **Config.** `MaxRequests` is normalised as in `NewCircuitBreaker`.

History variables. These are for properties only. `probe[c]` says that `c`
was admitted in the current HalfOpen period. `trials` counts the admissions
in that period.

`CircuitBreakerSpec` is the promise. Each admission decision (`Admit`,
`Reject`) and each outcome (`Succeed`, `Fail`) is one atomic step that follows
the transition table of spec.md §4. `CircuitBreaker` instantiates it with the
refinement mapping `admitted <- {c : pc[c] = "run"}`, with `state`, counters
and clock taken from `cb`.

### Runs

| Run | Config | Checks | Result |
|---|---|---|---|
| `cb_concurrent` | `MCCircuitBreaker.cfg`: 3 callers, `MaxRequests = 2`, `Timeout = 1`, trip after 2 failures | `TypeOK`, `ImplementsSpec` (refinement), `Recovers` (liveness) | pass (~102k states) |
| `cb_halfopen_cap` | same bounds | `HalfOpenAdmissionCap` | violation: 3 callers admitted in one HalfOpen period |
| `cb_probe_close` | same bounds | `ProbeOnlyClose` | violation: a call admitted while Closed closes the breaker |

What the checks show:

- **`ImplementsSpec`.** The read-locked peek followed by the write-locked
  re-check is equivalent to an atomic admission on the current state. It also
  shows that every recorded outcome, even that of a call admitted in an
  earlier period, moves the breaker as the table says. Without the re-check
  (`state != StateOpen` under the lock), a caller that peeked Open while
  another half-opened the breaker is rejected in HalfOpen. The mutant
  `LockedCheckNoRecheck` finds this.
- **`Recovers`.** Open always reaches HalfOpen, and HalfOpen always leaves.
  Stamping `lastStateChange` on a rejection would break this, because a
  steady stream of rejected callers then keeps the breaker Open.
- **Findings.** Both are concurrency effects that a sequential unit test does
  not reach:
  - The comment in `canExecute` says that no more than `MaxRequests` requests
    are received in HalfOpen. Concurrent callers all get through.
  - A slow call admitted before the trip can close the breaker with its late
    success. It does not have to be a probe.

Bounds. Three callers is the least that admits more than `MaxRequests = 2`
callers at once, and the least that leaves one caller in flight across a trip
while two others trip and probe. `Timeout = 1` gives both a rejected call
(elapsed ≤ 1) and a probe (elapsed = 2). A trip after 2 failures needs two
recorded failures, so trips by one caller and by two interleaved callers are
both explored. The state space is about 100k states, and it is explored
completely.

Fairness. The following are assumed:

- `Tick` is weakly fair: time passes.
- `LockedCheck` and `Record` are weakly fair for each caller. A goroutine
  inside `Call` keeps running, and every lock in `Call` is released at the
  end of the same short section.
- `Peek` is weakly fair for each caller. Every caller keeps calling. This is
  the workload of a breaker that guards a dependency in use, and is what
  "recovery" is about.

Giving up on a done context (`CtxDone`) is not assumed to happen.

### BankAccount (`BankAccount.tla`, `MCBankAccount.tla`)

State:

- `balance[a]` is `a.Balance`;
- `holder[a]` is the goroutine holding `a.mu`, or `NoHolder`;
- each goroutine has a `pc` (`idle`, `first`, `second`), the `op` of the
  Transfer it is in, and `ret`, what its last call returned;
- `expected` is a history variable: the initial total plus every accepted
  deposit minus every accepted withdrawal.

`MinBalance` and `ID` are constants, because the code never changes them.
`Init` is every set of balances that `NewBankAccount` accepts.

Actions:

- `Deposit` and `Withdraw` are one step each: `validateAmount`, then lock,
  `transact`, unlock. They are enabled only while the mutex is free. Nothing
  inside the critical section blocks, so one step is exact.
- `Transfer` is three steps: `TransferStart` (validation), `LockFirst`, and
  `LockSecondAndMove` (the second lock, both `transact` calls, and both
  deferred unlocks). It is split at the two `Lock` calls because a goroutine
  can block there while holding the first lock.
- `Transact` and `Move` are the pure bodies of `transact` and of the
  debit-then-credit under both locks.

Amounts are `float64` in the code. Here they are small integers: the code only
adds, subtracts and compares them.

| Run | Config | Checks | Result |
|---|---|---|---|
| `bank_concurrent` | `MCBankAccount.cfg`: accounts a1 (ID 1, minimum 1) and a2 (ID 2, minimum 0), 2 goroutines, transfers both ways, amounts {-1, 0, 1, 2, 3} with limit 2, total ≤ 3 | `TypeOK`, `MoneyConserved`, `AboveMinimum`, `TransfersComplete` | pass (~20k states) |
| `bank_equal_ids` | same, both IDs 1 | `TransfersComplete` | violation: ABBA deadlock |
| `bank_self_transfer` | same IDs as the pass, with the pair a1→a1 | `TransfersComplete` | violation: a1's mutex is locked twice |

What the checks show:

- **The ordered locking works.** With distinct IDs and no self-transfer, the
  ordering prevents the deadlock of opposite transfers. A `from`-first order
  (the mutant `FirstLockFromFirst`) deadlocks.
- **`Transfer` conserves money.** Conservation holds even when its debit
  fails. Crediting first without undoing the credit (`MoveCreditFirst`)
  creates money.
- **Findings.** Both are ways the ordering fails:
  - Equal IDs on distinct accounts deadlock two opposite transfers.
    `NewBankAccount` accepts any non-blank ID.
  - `a.Transfer(x, a)` blocks forever on its own mutex, and with it every
    later call on `a`.
  - In both violation configs `CHECK_DEADLOCK` is off, because the system
    really does stop there. The liveness property names what is lost.

Bounds:

- **Goroutines.** Two goroutines are the least that can deadlock each other.
  With three, the liveness check no longer finishes in minutes.
- **Amounts.** The amounts cover a negative amount, a zero, amounts within the
  limit, and one over the limit.
- **Minimum.** a1's minimum of 1 makes a withdrawal or transfer of its whole
  balance fail, and a debit of exactly the slack pass.
- **Total.** `MaxTotal` caps the money held, because deposits can otherwise
  refill an account that transfers drain, without end.

Fairness: strong fairness on both lock steps of each goroutine. Go's
`sync.Mutex` enters starvation mode after a waiter has waited 1 ms, and then
hands the lock to the oldest waiter. A waiter for a lock that is free
infinitely often therefore gets it. Goroutines are not obliged to start calls.

### String search (`StringSearch.tla`, `MCPureAlgorithms.tla`, `MCStringSearch.tla`)

Representation:

- A string is the sequence of its byte codes. Positions are Go's 0-based
  indexes: Go's `s[i:k]` is `SubSeq(s, i+1, k)`.
- `strings.ToLower` is modelled on ASCII.
- Go's `%`, which keeps the dividend's sign, is `GoRem`.

Each loop is a `RECURSIVE` operator whose parameters are the loop's
variables:

- `PowModLoop` is the loop of `powMod`.
- `RabinKarpLoop` is the rolling loop of `RabinKarpSearch`.
- `KmpLoop` is `kmpLoop`, in both of its modes. It returns the LPS table
  with the matches, or a panic when it indexes the needle out of range.
- `NaivePatternMatch` is the reference.
- `HighAllocationSearch` and `OptimizedSearch` return their maps as TLA+
  functions from positions to byte sequences.

The state machine has one initial state per input: every text up to
`MaxText` bytes and every pattern of `MinPattern` to `MaxPattern` bytes over
the alphabet. The searches keep no state between calls, so the invariants are
checked once per input.

`MCPureAlgorithms` checks the searches and the sorts of `PerfAlgorithms` in
one run. Its initial states are the inputs of `StringSearch` (with `data`
and `n` fixed) together with the inputs of `PerfAlgorithms` (with `text` and
`pattern` fixed). Every step is a stutter, so the two sets of inputs never
interact.

| Run | Config | Checks | Result |
|---|---|---|---|
| `pure_algorithms` | `MCPureAlgorithms.cfg`: {a, b, A}, texts ≤ 6, patterns 0..4, base 256, prime 101; slices ≤ 5 over {1, 2, 3}, `n` ≤ 12; the inputs of the slice-utility, shapes and HTTP-auth sections | `RabinKarpMatchesNaive`, the three properties of the sorting section, the three of the slice-utility section, the two of the shapes section and the one of the HTTP-auth section | pass (191,040 states, about 26 s) |
| `search_kmp` | `MCStringSearch_KMP.cfg`: patterns 1..4 | `OptimizedMatchesHighAllocation` | violation |

Rabin–Karp is correct on every input, the empty pattern and pattern = text
included. Without the `txtHash < 0` correction (the mutant `RollNoFix`) it
misses matches.

`OptimizedSearch` is not identical to `HighAllocationSearch`, although its
comment says it should be. `kmpLoop` builds the LPS table with `lps[i] = i`
where KMP needs `lps[j-1] = i`. TLC's counterexample is the text "AbbA" with
the pattern "AbA": the table is [0, 1, 0], `OptimizedSearch` returns
`{1: "bbA"}`, and `HighAllocationSearch` returns `{}`.

Not modelled:

- **The empty pattern of `OptimizedSearch`.** It panics on any non-empty
  text. The property catches this too, but the violation run excludes the
  empty pattern so that its counterexample shows the LPS defect.
- **Non-ASCII input.** `OptimizedSearch` mixes rune and byte indexes there.
- **`KMPSearch` (challenge23).** It calls `perf.KMPLoop`, which challenge16
  does not export (the function is `kmpLoop`), so the package does not
  compile.

### ConcurrentBFSQueries (`ConcurrentBFS.tla`, `MCConcurrentBFS.tla`)

The goroutines of one call:

- the feeder (`next`, `startsClosed`);
- `NumWorkers` workers (`wpc`, `item`);
- the closer (`wg`, `resultsClosed`);
- the caller collecting results (`res`, `returned`).

Both channels are unbuffered, so each send is one step together with the
receive that takes it:

- `Feed(w)` is the feeder's send on `starts` with worker `w`'s receive.
- `Deliver(w)` is the worker's send on `results` with the caller's receive.
  It runs `bfs`.

The other steps are `CloseStarts`, `WorkerExit` (range ends, `Done`),
`CloseResults` (after `Wait`) and `Return`. `bfs` is the `RECURSIVE` operator
`BfsLoop`; its inner `for range graph[node]` loop is a `FoldLeft`.

The properties:

- **`AnswersAreBfsOrders`.** On return, the map has one entry per distinct
  query, and each entry satisfies `IsBfsOrder`. `IsBfsOrder` is a
  definition of BFS order that uses no queue: the sequence starts at the
  query and lists each node reachable from it (community `Graphs`) exactly
  once. The other nodes are ordered by their discoverer (the first listed
  node adjacent to them), then by their first position in the discoverer's
  adjacency list.
- **`AllGoroutinesEnd`.** The call returns, and every goroutine it started
  ends.

Fairness is `WF_vars(Next)`. The scheduler keeps running goroutines while
one can move. Every step of the call moves it forward, so nothing weaker is
needed, or assumed, for termination. `CHECK_DEADLOCK` is off because the
final state, with everything returned, really has no successor.

| Run | Config | Checks | Result |
|---|---|---|---|
| `bfs_concurrent` | `MCConcurrentBFS.cfg`: nodes {1,2,3}, every graph with adjacency lists of ≤ 2 distinct entries plus lists repeating a neighbour (1000 graphs), 2 workers, queries ⟨1, 2, 1⟩ | `TypeOK`, `AnswersAreBfsOrders`, `AllGoroutinesEnd` | pass (~98k states, ~1.5 min) |

The mutants each break one of these:

- a worker calling `Done` again after it exited (`WorkerExitAgain`), which
  takes the WaitGroup negative (`TypeOK`);
- marking visited on dequeue (`BfsLoopVisitOnDequeue`);
- never closing `starts` (`CloseStartsNever`).

Bounds:

- Two workers are enough to interleave deliveries.
- The repeated query makes two workers answer the same start.
- Three nodes give cycles, diamonds, self-loops and unreachable nodes.
- A node with an empty list stands for one missing from the map.

Not run: `numWorkers = 0`. The call then returns an empty map and leaks the
feeder goroutine (a hazard in `PROJECT.json`).

### Queue and Stack (`LinkedQueue.tla`, `LinkedStack.tla`, `FifoSpec.tla`, `LifoSpec.tla`, `MCContainers.tla`)

The heap is explicit. `heap` maps each address of `Addrs` to a node record:
`[value, next, prev]` for the Queue's `DLLNode`, `[value, next]` for the
Stack's `ListNode`. `head`, `tail` and `size` are the struct's fields, and
`Nil` is both the nil pointer and the zero `T`. A call allocates its node at
an address of `Free`, one that no pointer held by the container reaches.
Go's collector may hand such a node's memory out again.

Each method is one action and writes `out`, which holds the method's name
and its results (`<<"Dequeue", v, "nil">>`, `<<"Dequeue", Nil, "err">>`,
`<<"Size", n>>` and so on). The containers are not safe for concurrent use
and the code takes no lock, so a call does not interleave with another.
`Dequeue` and `Pop` include the `Front` / `Peek` they call. Their guards
are the code's `err == nil` and `node.next == nil` branches.

`FifoSpec` and `LifoSpec` are the abstract specifications: a sequence
`items`, and what each call returns. The concrete module instantiates its
spec with `items <- Items`, the values met walking `next` from `head`
(`ChainFrom`, a `RECURSIVE` walk cut off after `Cardinality(Addrs)` nodes).
Stuttering in the abstract spec is not allowed to hide anything: `out` is
shared, so a call whose result differs from the abstract one fails the
refinement.

The properties:

- **`QueueIsFifo`** (`LinkedQueue!ImplementsFifo`). The Queue refines
  `FifoSpec`.
- **`StackIsLifo`** (`LinkedStack!ImplementsLifo`). The Stack refines
  `LifoSpec`. `Size` and `IsEmpty` read the counter, not the list, so these
  two properties also tie `size` to the list.
- **`QueueWellFormed`** (`LinkedQueue!WellFormed`). The walk from `head`
  ends at `tail`, and `tail.next` is nil. Every `prev` is the node before it.
  `size` is the length. A stale `prev` is invisible to every method, so
  only this invariant can catch one.

| Run | Config | Checks | Result |
|---|---|---|---|
| `containers_refine` | `MCContainers.cfg`: values {v1, v2}, addresses {a1, a2}, at most 2 elements; set values {v1, v2, v3}, variables {x, y}; store clients {p1, p2}, IDs 1..2 | `QueueWellFormed`, `QueueIsFifo`, `StackIsLifo`, `NoDuplicates`, `ImplementsSet`, `ImplementsProductStore` | pass (61,817 states, 44 s) |

The mutants each break one property:

- `Dequeue` that leaves `tail` set on the last node (`DequeueKeepTail`):
  the next `Enqueue` links after a dropped node;
- `Dequeue` that keeps the new head's `prev` (`DequeueKeepPrev`);
- `Pop` without `size--` (`PopKeepSize`).

Bounds: two addresses with at most two elements reach both of `Dequeue`'s
branches, each followed by an `Enqueue`, and force every address to be
reused. Three addresses with three elements also pass, with 470k states in
2 minutes.

`MCContainers` checks the Queue, the Stack, the Set and challenge13's
ProductStore in one run. Its variable `which` is chosen in `Init` and never
changes: a behaviour exercises one component, and the others stutter. The run uses no symmetry:
symmetry reduction is unsound for the temporal refinement properties.

### Set (`SliceSet.tla`, `SetSpec.tla`, in `MCContainers.tla`)

`values[s]` is the slice of the set held in the caller's variable `s`. The
pure helpers `ContainsIn`, `AddTo`, `RemoveFrom`, `UnionOf`,
`IntersectionOf` and `DifferenceOf` translate the functions, with their
loops as `FoldLeft`. An action is a call: `Add`, `Remove`, `Contains`,
`Size` and `Elements` on a variable, or `SetOp`, which is
`d := Union/Intersection/Difference(a, b)` for any variables, the
arguments included. `out` records the call and its arguments with its
result. With the arguments recorded, a result computed from the wrong
argument cannot pass for another legal call.

`SetSpec` holds a mathematical set per variable. The refinement maps each
slice to its range, and `Elements`' slice to its range. The properties:

- **`NoDuplicates`.** No slice ever holds a value twice.
- **`ImplementsSet`.** The Set refines `SetSpec`. `Size` returns the
  slice's length, so this also depends on `NoDuplicates`.

These two properties are checked by the `containers_refine` run above.

The mutants: `Add` without the `Contains` check (`AddToAppend`), and
`Difference` iterating `s2` instead of `s1` (`DifferenceOfSwapped`).

### Sorting and Fibonacci (`PerfAlgorithms.tla`, in `MCPureAlgorithms.tla`)

The functions are operators, one per Go function. Each loop is a `RECURSIVE`
operator over the loop's variables, or a `FoldLeft` when it is a
`for range`. The operators are `BubblePass`/`SlowSort`, `PartitionLoop`/
`Partition`/`SortDualPivot`/`OptimizedSort`, `fibonacci`/
`ExpensiveCalculation` and `OptimizedLoop`/`OptimizedCalculation`. Indexes
keep Go's 0-based values, and `Swap` is the tuple assignment.
`OptimizedCalculation` returns `"panic"` for negative `n`. As in
`StringSearch`, the initial states are all inputs within the bounds and the
only step is stuttering.

The properties:

- **`SlowSortSorts`.** Bubble sort returns `SortSeq(data, <)`.
- **`OptimizedSortMatchesSlowSort`.** The dual-pivot sort returns what
  bubble sort returns, as the comment above `OptimizedSort` says it should.
- **`OptimizedCalculationMatches`.** `OptimizedCalculation(n)` equals
  `ExpensiveCalculation(n)` for every `n` in `0..MaxN`.

These are checked by the `pure_algorithms` run of the string-search
section.

The mutants:

- a bubble pass one comparison short (`BubblePassShort`);
- `partition` advancing the cursor after a right swap
  (`PartitionLoopSkip`), the mistake the comment at line 106 warns against;
- the Fibonacci loop stopping before `n` (`OptimizedLoopShort`).

Bounds: five elements over three values give runs of equal pivots, every
order of three distinct values, and nested partitions of length 0, 1 and
2.

### Slice utilities, palindrome and generics (`SliceUtils.tla`, `Palindrome.tla`, `Generics.tla`, in `MCPureAlgorithms.tla`)

These are pure functions. Each one is an operator, and each `for range`
loop is a `FoldLeft`. As in `StringSearch`, the initial states are the
inputs and the only step is stuttering.

- `SliceUtils` (challenge19) covers `FindMax`, `RemoveDuplicates`,
  `ReverseSlice` and `FilterEven`.
  - `FindMax` starts from `math.MinInt32` and uses Go's `max`.
  - `ReverseSlice` writes `res[n-i-1]`.
  - `FilterEven` tests Go's `%`, which is negative for odd negatives.
- `Palindrome` (challenge17) covers `IsPalindrome`. `isAlphanum` and
  `unicode.ToLower` are tables over the model's alphabet.
- `Generics` (challenge27) covers:
  - `Filter` and `Map`, as left folds (`Reduce`) of their reducers
    `FilterStep` and `MapStep`;
  - `FindIndex`, whose early return is a fold that keeps the first index;
  - `Contains`, `RemoveDuplicates`, `NewPair` and `Swap`.
  The predicate and the mapper are operators over `{1, 2, 3}`.

The properties compare each function with a reference written without its
loop:

- **`SliceUtilitiesMatch`.** Each challenge19 function matches its
  reference:
  - `FindMax` returns an element that no other element exceeds, or 0 for an
    empty slice;
  - `RemoveDuplicates` returns the first occurrences, in order;
  - `ReverseSlice` returns `Reverse`;
  - `FilterEven` returns the elements that are even in the mathematical
    sense.
  The mutant starts `FindMax` from 0 (`FindMaxFromZero`), which is wrong
  on all-negative slices.
- **`IsPalindromeMatches`.** `IsPalindrome` is true exactly when the
  cleaned, lower-cased string equals its reverse. The mutant compares runes
  without `ToLower` (`IsPalindromeCaseSensitive`).
- **`GenericsMatch`.** Each generic utility matches its reference:
  - `Filter` matches `SelectSeq`, and `Map` matches the pointwise map;
  - `FindIndex` returns the first index of the element, or -1 when it is
    absent;
  - `Contains` returns whether the element occurs;
  - `RemoveDuplicates` keeps one copy of each value, and `Swap` exchanges
    the pair's members.
  The mutant returns the last matching index (`FindIndexLast`).

Bounds:

- Slices of up to four ints from {MinInt32, -3, -2, 0, 5}. They include
  odd and even negatives, zero, and the starting value of `FindMax`.
- Strings of up to five runes over a, b, A, É, é, 1, space and comma.
  These give odd and even lengths, case pairs (Latin-1 included), and
  strings with no alphanumeric rune.
- Generic slices of up to four values from {1, 2, 3}.

### Shapes (`Shapes.tla`, in `MCPureAlgorithms.tla`)

challenge10's constructors validate their arguments, and `ShapeCalculator`
sums, picks and sorts shapes by area. A float64 is modelled as a small
integer (exact in float64), or as one of the model values `PosInf`,
`NegInf` and `NaN`. `FLt`/`FLe` are IEEE comparisons, which are false
whenever one side is NaN. `FAdd`, `FNeg` and `FMul` follow IEEE, so
`+Inf + -Inf` is NaN. The calculator's inputs are rectangles, whose
`Area` (`Height * Width`) is exact on these values.

- `EnsurePositive` is `ensurePositive`. `NewRectangle`, `NewCircle` and
  `NewTriangle` return a shape record or `Err`. `NewTriangle` rejects
  `a + b <= c` in each of the three orders.
- `TotalArea` is `total += Area()` from 0.0, as a fold.
- `LargestShape` starts from `shapes[0]`, which panics on an empty slice,
  and replaces the largest on a strictly greater area.
- `SortByArea` is `slices.SortedFunc` with the code's comparison, which is
  the sign of the area difference, negated when descending. For slices of
  up to 12 elements Go's pdqsort runs `insertionSortCmpFunc`, which is the
  model: `SinkDown` is its inner loop, folded over the indices.

Properties:

- **`ShapeValidationMatches`.** The constructors accept exactly what their
  comments promise. A rectangle or a circle is accepted when every
  measurement is positive, +Inf included. A triangle is accepted when its
  sides are finite and positive and strictly satisfy the triangle
  inequality. The mutant `NewTriangleNonStrict` accepts degenerate
  triangles.
- **`ShapeCalculatorMatches`.** Three things hold on every slice of valid
  rectangles:
  - `TotalArea` is the sum of the areas, or +Inf if any area is infinite;
  - `LargestShape` is the first shape of largest area;
  - `SortByArea` is the stable sort by area, in either direction.
  Stability is not promised by `slices.SortedFunc` in general. It holds here
  because insertion sort swaps only on a strict comparison, and pdqsort
  uses insertion sort for these lengths. With +Inf areas, the difference
  `Inf - Inf` is NaN, which compares as 0, so infinite areas keep their
  order. The mutant `LargestShapeLast` replaces on `>=` and returns the
  last shape of largest area.

Bounds: the constructors get every triple over {-1, 0, 1, 2, 3, +Inf, NaN}.
This includes zero, negatives, the degenerate 1+2=3 and +Inf. The
calculator gets every slice of up to 4 rectangles with sides in
{1, 2, +Inf}, which includes equal areas, and gets both directions.

NaN is among the constructors' arguments, but `ShapeValidationMatches`
is stated only for arguments that are not NaN. The code accepts NaN:
`NewRectangle(NaN, NaN)`, `NewCircle(NaN)` and `NewTriangle(NaN, NaN, NaN)`
succeed, because `m <= 0` is false for NaN (`polymorphism.go:34`),
although the comments say "must be positive". Without the NaN premise,
TLC reports the property violated in the first state. This is recorded as
a hazard in `PROJECT.json`. NaN is kept out of the calculator's slices,
because the reference sum is not defined on it.

### HTTP authentication (`AuthMiddleware.tla`, in `MCPureAlgorithms.tla`)

challenge05's `SetupServer` routes `/hello` to `helloHandler`, and routes
`/secure` to `secureHandler` behind `AuthMiddleware`. A request is a path
and a sequence of header fields. A response is a status and the pieces
written to its body.

- `HeaderGet` is `Header.Get`. It returns the first field whose canonical
  name (`textproto.CanonicalMIMEHeaderKey`, given as a table) is the key.
- `Write` sets the status to 200 if it is still unset, then appends.
  `HttpError` is `http.Error`, with an empty line as its body.
- `AuthMiddleware` answers 401 and returns when the token is not
  `"secret"`. Otherwise it runs the wrapped handler.
- `SetupServer` is the mux. Its patterns match exact paths only, and
  every other path gets 404.

The handlers' `Fprint` into the buffered response cannot fail for bodies
this short, so their 500 branch is not modelled.

- **`AuthRoutesMatch`.** `/hello` answers 200 to anyone. `/secure` answers
  200 with "You are authorized!" exactly when the first `X-Auth-Token`
  field, whatever the case of its name, is "secret". Otherwise it answers
  401 with nothing of the secure body. Every other path answers 404. The
  reference names the two spellings directly instead of canonicalising.
  The mutant `AuthMiddlewareNoReturn` forgets the `return` after
  `http.Error`, so the secure body follows the 401.

Bounds: the paths are /hello, /secure, /secure/x and /. Each request has
up to two fields. The names are X-Auth-Token, x-auth-token and X-Auth,
and the values are "secret", "Secret" and "". These give duplicate
headers, a case-folded name, a wrong-case value and an empty token.

### OrderService (`OrderService.tla`, `MCOrderService.tla`)

The three gRPC services of challenge14 run on one server, as `TestMain`
starts them. `UserService` and `ProductService` serve fixed maps, so
`GetUser` and `GetProduct` are pure operators over `Users` (ID to Active)
and `Inventory` (ID to stock), with the data of `newUserService` and
`newProductService`. `authInterceptor` is the operator `AuthInterceptor` of
an authorization header `[present, scheme, value]`.

State: `pc` is each client's call. A client has one call at a time, and
gRPC serves it on a goroutine of its own. `req` and `resp` are the call and
its answer. `orders` is `srv.orders`, with a stored order kept as its
request. `newId` is the ID `rand.Int64` gave the order being stored, chosen
from the small set `OrderIds`, so that IDs can collide. `crashed` records
that the Go runtime aborted the process.

Actions, in handler order:

- `Call` (the client stub);
- `Receive` (logging, then the auth interceptor);
- `CheckUser` (the nested `GetUser` RPC);
- `CheckProduct` (`GetProduct`, the inventory check, the new ID);
- `BeginWrite`/`EndWrite` (`srv.orders[id] = &order`, then the answer);
- `BeginRead`/`EndRead` (`GetOrder`'s map read);
- `BeginShutdown`/`EndShutdown` (`Shutdown` in `server.go`).

`srv` is the gRPC server's state: serving, draining (inside
`GracefulStop`) or stopped. `connOpen` says whether the order service's
client connection to the server is still open. Shutdown runs in two
steps:

- `BeginShutdown` starts `GracefulStop`. From then on, a new call may
  still be accepted on a transport that has not yet seen GOAWAY, or may
  fail with Unavailable. Both are steps of `Call`.
- `EndShutdown` is taken once no handler runs. `GracefulStop` returns,
  then the cleanup functions close the connections.

A nested `GetUser`/`GetProduct` RPC (`UserRPC`, `ProductRPC`) returns
its answer while the server serves. While it drains, the RPC may also fail
with Unavailable. After the connection is closed, it fails with Canceled.

A map access is two steps, so that another goroutine can act inside it. An
access that begins while another goroutine is writing is a data race. Go's
map checks may see the write and abort the process (`Abort`: every call in
flight gets Unavailable, and so does every later call), or may miss it.
Both outcomes are steps of the model.

The properties:

- **`OrdersAreAuthorized`.** Every stored order carried the bearer token,
  an existing active user, an existing product and a quantity within the
  inventory, whatever the interleaving. It is stated on the data, not
  through `AuthInterceptor`, so a weaker interceptor breaks it (the mutant
  `AuthPrefixOnly` accepts any Bearer token).
- **`NoUnsyncMapAccess`.** Two handlers are never in the map at once with
  one of them writing, and the process never aborts.
- **`ConnClosedOnlyWhenIdle`.** The order service's connection to the
  user and product services is closed only when no handler is running.
  Otherwise an in-flight `CreateOrder` would see a nested RPC fail with
  Canceled. This holds because `Shutdown` runs the cleanup functions only
  after `GracefulStop` returns. The mutant `BeginShutdownCleanupFirst`
  closes the connection as draining begins.

| Run | Config | Checks | Result |
|---|---|---|---|
| `orders_concurrent` | `MCOrderService.cfg`: clients {c1, c2}, 4 headers (missing, Basic, wrong Bearer, right Bearer), users {1, 3, 999}, products {3, 999}, quantities {1, 2}, IDs {o1, o2}, 2 calls each | `OrdersAreAuthorized`, `ConnClosedOnlyWhenIdle` | pass (1,246,522 states, about 1 min 10 s) |
| `orders_map_race` | `MCOrderService_Race.cfg`: the same with 1 call each | `NoUnsyncMapAccess` | violation |

The violation is a code bug at `order.go:134`. c1's `CreateOrder` is
writing `srv.orders` while c2's `GetOrder` reads it. Nothing locks the map,
so the process can die with "concurrent map read and map write". The other
properties hold in spite of the race: the model lets the race go
unseen, and then each access acts as if atomic.

Bounds: user 3 is inactive and 999 does not exist. Product 3 has an
inventory of 1, so quantity 2 fails the check, and 999 does not exist.
Each header fails the interceptor at a different test. Two IDs let both
orders share one ID. Two calls per client allow a create followed by a get
on either client, so that a read can race a write. The run stops
when every client has made its calls, so deadlock is not checked.

`MCOrderService.cfg` declares symmetry over the clients and over the order
IDs. This is sound because the run checks only safety properties, and no
definition names a particular client or ID: the clients' calls and
headers come from the same sets, and IDs are chosen from `OrderIds`
without preference. Whether shutdown eventually completes is not checked.
Under fairness, without symmetry (TLC does not allow symmetry with
liveness), the run exceeded the time budget. `EndShutdown` needs every
client idle, and a client keeps calling until its bound is reached, so it
would only say that the bound ends the calls.

Not modelled here:

- server start (`StartServer`, `Connect`). It is sequential setup, and
  `NewGRPCServer` is its result, used as the initial state;
- the logging interceptor. It only writes a log line;
- the protobuf codec. It is a conversion with no state;
- inventory reservation. `CreateOrder` checks the stock but never
  decrements it, so two orders can together exceed it. This is a hazard
  in `PROJECT.json`. No property states it, because the code makes no such
  promise;
- the sign of the quantity. A non-positive quantity passes the check;
- ID collisions overwriting an order. The model's IDs do collide, but no
  property says that an acknowledged order is kept.

### ProductStore (`ProductStore.tla`, `ProductStoreSpec.tla`, in `MCContainers.tla`)

`InitDB` opens an in-memory SQLite database in shared-cache mode, and
`database/sql` gives each concurrent call a connection of its own. The
connections share one cache, and its table locks are the only thing that
keeps the goroutines apart. A statement that reads `products` fails with
SQLITE_LOCKED while another connection holds the write lock. A statement
that writes fails while another connection holds any lock. No method
retries.

State:

- `table` is the committed rows, each a Quantity and a Category. Name and
  Price are only copied, so they are left out.
- `seq` is `sqlite_sequence`: the largest ID ever handed out.
- `pc` and `call` are the calls in progress.
- `writer` is the connection holding the write lock.
- `pending`, `todo` and `affected` are a batch's uncommitted updates, the
  IDs its loop has yet to visit, and `totalAffected`.
- `out` is the last call that returned, with its result.

Actions:

- `CreateProduct`, `GetProduct`, `UpdateProduct` and `DeleteProduct` are
  one statement each, so each is one step. Each either takes effect or fails
  on a lock.
- `ListProducts` opens its rows and holds the read lock. `ListDone` is the
  scan loop and `rows.Close`.
- `BatchUpdateInventory` is several steps:
  - `BeginBatch` is `BeginTx` and `PrepareContext`. A DEFERRED transaction
    takes no lock here.
  - `BatchExec` is one iteration of the loop, in any order (Go's map
    order). It takes the write lock and counts the affected row, or it
    fails and returns.
  - `BatchDone` is the `totalAffected` check, then `Commit` or the error,
    then the deferred `Rollback`.
- `NextId` is AUTOINCREMENT: `seq + 1`, whatever rows remain.

`ProductStoreSpec` is what the store promises. Each call is one atomic
step. IDs increase and are never reused. A batch applies every update if
every named product exists, and none otherwise. Any call may fail without
effect. The refinement maps `table`, `seq` and `out` to themselves. A
transaction's steps before its end are stutters, because its writes stay
in `pending` until `Commit`.

- **`ImplementsProductStore`.** ProductStore refines ProductStoreSpec.
  This holds however two goroutines' statements, open rows and
  transactions interleave. The mutant `BatchDoneNoCheck` commits without
  the `totalAffected` check. It commits a batch that names a missing
  product, and TLC reports the step the abstract spec has no match for.
  A store that hands out `max(id) + 1`, as a table without AUTOINCREMENT
  does, is also caught: an ID is reused after the newest product is
  deleted.

The run is `containers_refine` (see the Queue and Stack section), with two
clients and IDs 1..2. The calls are:

- `CreateProduct` of a quantity-1 product in category A or B;
- `GetProduct`, `UpdateProduct` and `DeleteProduct` of either ID;
- `ListProducts` of "" (all products) and of A;
- batches setting quantity 2 for no ID, for one ID or for both.

Two IDs are enough to delete the newest product and create another. They
also let a batch name one existing and one missing product. Two clients let
a batch's lock meet the other client's open rows, reads and writes.

Not modelled:

- the one-second context timeouts. In-memory statements never wait,
  because a lock conflict fails at once.
- `InitDB`'s connection settings beyond the shared cache.

## 4. Not modelled (yet), and why

- `OnStateChange` and the lock itself. A callback that calls `GetState` or
  `GetMetrics` runs under the write lock that `setState`'s caller holds, and
  blocks on `RLock` every time, with no other goroutine involved.
  spec.md asks callbacks not to block. The hazard is in `PROJECT.json`.
- Negative `n` for the Fibonacci sums. `OptimizedCalculation` panics on
  purpose (its comment) where `ExpensiveCalculation` returns 0, so the run
  starts `n` at 0.
- 64-bit overflow of the Fibonacci sums. Both functions add in the same
  order modulo 2^64, so they wrap identically. TLC's integers could not
  reach n ≈ 90 anyway.
- FindMax on elements below `math.MinInt32`. It returns MinInt32, which
  is not an element of the slice: Go's `int` is 64-bit and the loop starts
  from the 32-bit minimum. TLC's integers are 32-bit, so the model cannot
  be given such an element. The hazard is in `PROJECT.json`.
- `GetMetrics`, and the Requests/Successes/Failures counters. They are read
  only by callers, and nothing in the breaker depends on them.
- A custom `ReadyToTrip` over those counters. Only the default form is
  checked.
- `Interval`. The code stores it and never uses it.
- challenge14's JSON codec. It is a conversion with no state and no
  branch that a property could tell apart.
- The circle and triangle areas (pi, Heron's square root), `Perimeter`,
  the `String` methods and `PrintProperties` of challenge10. They are
  float formulas and formatting, which the small float domain cannot
  represent exactly. Only rectangle areas are fed to the calculator.
- NaN in the calculator's slices, and a property over NaN constructor
  arguments. The constructors accept NaN, as explained in the shapes
  section.
