------------------------------ MODULE Generics ------------------------------
(***************************************************************************)
(* challenge27/generics.go and pair.go: the generic utilities, with the   *)
(* type parameters instantiated by a small set of values, the predicate   *)
(* and the mapper by the operators Keep and Mapper, and Pair[T, U] by a    *)
(* record. Reduce is a left fold; Filter and Map fold their reducers.     *)
(***************************************************************************)
EXTENDS Integers, Sequences, FiniteSets

SeqExt == INSTANCE SequencesExt

CONSTANTS Values, Kept, MaxLen

VARIABLES slice, elem

\* The predicate given to Filter: membership of Kept.
Keep(x) == x \in Kept

\* The mapper given to Map: a value |-> the pair <<value, Keep(value)>>.
Mapper(x) == <<x, Keep(x)>>

\* Filter's reducer: append the element when the predicate keeps it.
FilterStep(acc, x) == IF Keep(x) THEN Append(acc, x) ELSE acc

\* Filter: Reduce (a left fold) from an empty slice with FilterStep.
Filter(s) == SeqExt!FoldLeft(FilterStep, <<>>, s)

\* Map's reducer: append mapper(element).
MapStep(acc, x) == Append(acc, Mapper(x))

\* Map: Reduce (a left fold) from an empty slice with MapStep.
Map(s) == SeqExt!FoldLeft(MapStep, <<>>, s)

\* Fault variant of FindIndex that returns the last matching index.
FindIndexLast(s, e) ==
    SeqExt!FoldLeft(LAMBDA acc, i : IF s[i + 1] = e THEN i ELSE acc, -1, [k \in DOMAIN s |-> k - 1])

\* FindIndex: the first 0-based i with slice[i] == element, else -1. The
\* early return is the fold keeping the first index it finds.
FindIndex(s, e) ==
    SeqExt!FoldLeft(LAMBDA acc, i : IF acc < 0 /\ s[i + 1] = e THEN i ELSE acc,
                    -1, [k \in DOMAIN s |-> k - 1])

\* Contains: FindIndex(slice, element) >= 0.
Contains(s, e) == FindIndex(s, e) >= 0

\* RemoveDuplicates: the loop carries the elements map and the result.
RemoveDuplicates(s) ==
    LET step(acc, x) == IF x \in acc[1] THEN acc ELSE <<acc[1] \cup {x}, Append(acc[2], x)>>
    IN  SeqExt!FoldLeft(step, <<{}, <<>>>>, s)[2]

\* NewPair and Pair.Swap.
NewPair(first, second) == [First |-> first, Second |-> second]
Swap(p) == NewPair(p.Second, p.First)

\* One call of the utilities: a slice and an element to look for.
Init == slice \in SeqExt!BoundedSeq(Values, MaxLen) /\ elem \in Values

Spec == Init /\ [][UNCHANGED <<slice, elem>>]_<<slice, elem>>

-----------------------------------------------------------------------------
\* Each utility returns what its comment says, for every slice in the
\* bounds, repeated elements included: Filter the kept elements in order,
\* Map the mapped ones, FindIndex the first index of the element (-1 when
\* absent) and Contains whether it occurs, RemoveDuplicates the first
\* occurrences, and Swap a pair with its members exchanged.
GenericsMatch ==
    LET idx == {k \in DOMAIN slice : slice[k] = elem}
    IN  /\ Filter(slice) = SelectSeq(slice, Keep)
        /\ Map(slice) = [k \in DOMAIN slice |-> Mapper(slice[k])]
        /\ FindIndex(slice, elem) = IF idx = {} THEN -1
                                    ELSE (CHOOSE k \in idx : \A j \in idx : k <= j) - 1
        /\ Contains(slice, elem) = (idx # {})
        /\ Len(RemoveDuplicates(slice)) = Cardinality({slice[k] : k \in DOMAIN slice})
        /\ \A k \in DOMAIN RemoveDuplicates(slice) :
              \E j \in DOMAIN slice : RemoveDuplicates(slice)[k] = slice[j]
        /\ Swap(NewPair(elem, Len(slice))) = [First |-> Len(slice), Second |-> elem]

=============================================================================
