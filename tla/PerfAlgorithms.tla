--------------------------- MODULE PerfAlgorithms ---------------------------
(***************************************************************************)
(* The sorts and Fibonacci sums of challenge16/perf.go, as operators:      *)
(* SlowSort (bubble sort), OptimizedSort with SortDualPivot and partition, *)
(* ExpensiveCalculation with fibonacci, and OptimizedCalculation.          *)
(*                                                                         *)
(* A []int is a sequence; Go's nums[i] is nums[i+1] here, and the indexes  *)
(* lo, hi, cursor and the boundaries keep Go's 0-based values. The Go     *)
(* functions sort a slice in place; here each call returns the slice it   *)
(* leaves, which the caller passes on, as the recursion is sequential.    *)
(***************************************************************************)
EXTENDS Integers, Sequences, SequencesExt, TLC

CONSTANTS
    Elements,  \* the ints slices are made of
    MaxLen,    \* bound: longest slice
    MaxN       \* bound: largest n passed to the Fibonacci sums

\* nums[i], nums[j] = nums[j], nums[i]
Swap(s, i, j) == [s EXCEPT ![i + 1] = s[j + 1], ![j + 1] = s[i + 1]]

\* The Go indexes 0..k-1, in order.
Upto(k) == [x \in 1..k |-> x - 1]

-----------------------------------------------------------------------------
\* Fault variant of SlowSort's inner loop that stops one pair early.
BubblePassShort(s) ==
    LET Step(acc, j) == IF acc[j + 1] > acc[j + 2] THEN Swap(acc, j, j + 1) ELSE acc
    IN  FoldLeft(Step, s, Upto(Len(s) - 2))

\* SlowSort's inner loop: for j := range len(result)-1, swap out-of-order
\* neighbours (a range over a negative count runs no iteration).
BubblePass(s) ==
    LET Step(acc, j) == IF acc[j + 1] > acc[j + 2] THEN Swap(acc, j, j + 1) ELSE acc
    IN  FoldLeft(Step, s, Upto(Len(s) - 1))

\* SlowSort: the copy, then one pass per element of result.
SlowSort(data) == FoldLeft(LAMBDA acc, x : BubblePass(acc), data, data)

\* Fault variant of partition's scan that also advances the cursor after
\* swapping an element into the right region.
RECURSIVE PartitionLoopSkip(_, _, _, _, _, _)
PartitionLoopSkip(nums, lb, rb, cursor, lpv, rpv) ==
    IF cursor > rb THEN [nums |-> nums, lb |-> lb, rb |-> rb]
    ELSE IF nums[cursor + 1] < lpv
    THEN PartitionLoopSkip(Swap(nums, cursor, lb), lb + 1, rb, cursor + 1, lpv, rpv)
    ELSE IF nums[cursor + 1] > rpv
    THEN PartitionLoopSkip(Swap(nums, cursor, rb), lb, rb - 1, cursor + 1, lpv, rpv)
    ELSE PartitionLoopSkip(nums, lb, rb, cursor + 1, lpv, rpv)

\* partition's scan: below the left pivot goes to the left region (and
\* the cursor advances), above the right pivot goes to the right region
\* (and the swapped-in element is examined next), else the cursor advances.
RECURSIVE PartitionLoop(_, _, _, _, _, _)
PartitionLoop(nums, lb, rb, cursor, lpv, rpv) ==
    IF cursor > rb THEN [nums |-> nums, lb |-> lb, rb |-> rb]
    ELSE IF nums[cursor + 1] < lpv
    THEN PartitionLoop(Swap(nums, cursor, lb), lb + 1, rb, cursor + 1, lpv, rpv)
    ELSE IF nums[cursor + 1] > rpv
    THEN PartitionLoop(Swap(nums, cursor, rb), lb, rb - 1, cursor, lpv, rpv)
    ELSE PartitionLoop(nums, lb, rb, cursor + 1, lpv, rpv)

\* partition: order the pivots, scan, then swap the pivots into place; the
\* slice and the pivots' final indexes.
Partition(nums, lo, hi) ==
    LET n0 == IF nums[lo + 1] > nums[hi + 1] THEN Swap(nums, lo, hi) ELSE nums
        r  == PartitionLoop(n0, lo + 1, hi - 1, lo + 1, n0[lo + 1], n0[hi + 1])
        l  == r.lb - 1
        g  == r.rb + 1
    IN  [nums |-> Swap(Swap(r.nums, lo, l), hi, g), l |-> l, r |-> g]

\* SortDualPivot: partition, then the three regions left to right.
RECURSIVE SortDualPivot(_, _, _)
SortDualPivot(nums, lo, hi) ==
    IF lo >= hi THEN nums
    ELSE LET p == Partition(nums, lo, hi)
         IN  SortDualPivot(SortDualPivot(SortDualPivot(p.nums, lo, p.l - 1),
                                         p.l + 1, p.r - 1),
                           p.r + 1, hi)

OptimizedSort(data) == SortDualPivot(data, 0, Len(data) - 1)

-----------------------------------------------------------------------------
RECURSIVE fibonacci(_)
fibonacci(n) == IF n <= 1 THEN n ELSE fibonacci(n - 1) + fibonacci(n - 2)

\* ExpensiveCalculation: 0 for n <= 0, else the sum of fibonacci(1..n).
ExpensiveCalculation(n) ==
    IF n <= 0 THEN 0
    ELSE FoldLeft(LAMBDA sum, i : sum + fibonacci(i), 0, [k \in 1..n |-> k])

\* Fault variant of OptimizedCalculation's loop that stops before n.
RECURSIVE OptimizedLoopShort(_, _, _, _)
OptimizedLoopShort(fibs, i, n, res) ==
    IF i >= n THEN res
    ELSE LET f == [fibs EXCEPT ![i % 2] = fibs[0] + fibs[1]]
         IN  OptimizedLoopShort(f, i + 1, n, res + f[i % 2])

\* OptimizedCalculation's loop: fibs[i%2] = fibs[0] + fibs[1]; res += it.
RECURSIVE OptimizedLoop(_, _, _, _)
OptimizedLoop(fibs, i, n, res) ==
    IF i > n THEN res
    ELSE LET f == [fibs EXCEPT ![i % 2] = fibs[0] + fibs[1]]
         IN  OptimizedLoop(f, i + 1, n, res + f[i % 2])

\* OptimizedCalculation: panics for n < 0, n for n < 2, else the loop from
\* res = 1 and fibs = {0, 1}.
OptimizedCalculation(n) ==
    IF n < 0 THEN "panic"
    ELSE IF n < 2 THEN n
    ELSE OptimizedLoop(0 :> 0 @@ 1 :> 1, 2, n, 1)

-----------------------------------------------------------------------------
(* One call: every slice and every n within the bounds is an initial      *)
(* state, and the functions keep nothing between calls.                   *)
VARIABLES data, n

vars == <<data, n>>

Init == data \in SeqOf(Elements, MaxLen) /\ n \in 0..MaxN

Done == UNCHANGED vars

Spec == Init /\ [][Done]_vars

-----------------------------------------------------------------------------
\* What sorting means, independently of both algorithms.
Ascending(s) == SortSeq(s, LAMBDA a, b : a < b)

\* SlowSort returns the ascending permutation of its input: len(result)
\* passes of len(result)-1 comparisons each suffice for every slice.
SlowSortSorts == SlowSort(data) = Ascending(data)

\* OptimizedSort "should produce identical results" to SlowSort: the
\* dual-pivot partition, with its cursor that stays put after a right swap
\* and its two final pivot swaps, sorts every slice, duplicates included.
OptimizedSortMatchesSlowSort == OptimizedSort(data) = SlowSort(data)

\* OptimizedCalculation "should produce identical results" to
\* ExpensiveCalculation for every n >= 0: the two-slot window fibs[i%2]
\* always holds the two latest Fibonacci numbers.
OptimizedCalculationMatches == OptimizedCalculation(n) = ExpensiveCalculation(n)

=============================================================================
