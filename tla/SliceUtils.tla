----------------------------- MODULE SliceUtils -----------------------------
(***************************************************************************)
(* challenge19/slices.go: FindMax, RemoveDuplicates, ReverseSlice and     *)
(* FilterEven over slices of Go ints (64-bit). Each function is an        *)
(* operator; its `for range` loop is a FoldLeft over the slice or over    *)
(* its 0-based indexes. The functions keep no state, so the state is one  *)
(* input slice and the only step is stuttering.                            *)
(***************************************************************************)
EXTENDS Integers, Sequences

SeqExt == INSTANCE SequencesExt

CONSTANTS Ints, MaxLen

VARIABLE nums

\* math.MinInt32, written so that TLC's 32-bit integers can hold it.
MinInt32 == -2147483647 - 1

\* Go's % for b > 0: the remainder keeps the dividend's sign (TLA+'s %
\* is never negative).
GoRem(a, b) == IF a >= 0 \/ a % b = 0 THEN a % b ELSE (a % b) - b

\* The builtin max of two ints.
GoMax(a, b) == IF a >= b THEN a ELSE b

\* Fault variant of FindMax that starts from maxVal := 0.
FindMaxFromZero(s) == IF Len(s) = 0 THEN 0 ELSE SeqExt!FoldLeft(GoMax, 0, s)

\* FindMax: 0 for an empty slice, else maxVal := MinInt32 folded with max.
FindMax(s) == IF Len(s) = 0 THEN 0 ELSE SeqExt!FoldLeft(GoMax, MinInt32, s)

\* RemoveDuplicates: the loop carries the seen set and the result slice.
RemoveDuplicates(s) ==
    LET step(acc, x) == IF x \in acc[1] THEN acc ELSE <<acc[1] \cup {x}, Append(acc[2], x)>>
    IN  SeqExt!FoldLeft(step, <<{}, <<>>>>, s)[2]

\* ReverseSlice: res := make([]int, n), then res[n-i-1] = slice[i] for
\* each 0-based i.
ReverseSlice(s) ==
    LET n == Len(s)
        step(res, i) == [res EXCEPT ![n - i] = s[i + 1]]
    IN  SeqExt!FoldLeft(step, [k \in 1..n |-> 0], [k \in 1..n |-> k - 1])

\* FilterEven: append the numbers with numbers[i] % 2 == 0.
FilterEven(s) == SelectSeq(s, LAMBDA x : GoRem(x, 2) = 0)

\* Every slice of up to MaxLen ints from Ints.
Init == nums \in SeqExt!BoundedSeq(Ints, MaxLen)

Spec == Init /\ [][UNCHANGED nums]_nums

-----------------------------------------------------------------------------
\* The results each function's comment promises, stated without its loop.
IsMaxOf(m, s) == \E k \in DOMAIN s : m = s[k] /\ \A j \in DOMAIN s : s[j] <= m
FirstOccurrences(s) ==
    SelectSeq([k \in DOMAIN s |-> <<k, s[k]>>],
              LAMBDA p : \A j \in 1..(p[1] - 1) : s[j] # p[2])

\* Each function returns what its comment says, for every slice in the
\* bounds, negative numbers included: FindMax the largest element (0 for
\* an empty slice), RemoveDuplicates the first occurrences in their order,
\* ReverseSlice the elements backwards, FilterEven the even ones.
SliceUtilitiesMatch ==
    /\ IF nums = <<>> THEN FindMax(nums) = 0 ELSE IsMaxOf(FindMax(nums), nums)
    /\ RemoveDuplicates(nums) = [k \in DOMAIN FirstOccurrences(nums) |-> FirstOccurrences(nums)[k][2]]
    /\ ReverseSlice(nums) = SeqExt!Reverse(nums)
    /\ FilterEven(nums) = SelectSeq(nums, LAMBDA x : x % 2 = 0)

=============================================================================
