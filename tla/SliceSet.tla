----------------------------- MODULE SliceSet -----------------------------
(***************************************************************************)
(* Set[T] of challenge27/set.go: a slice of values kept free of           *)
(* duplicates by Add. `values[s]` is the slice of the set held in the      *)
(* caller's variable s; a call of Union, Intersection or Difference stores *)
(* the new set it returns in a variable d (d := Union(a, b)), which may be *)
(* one of its arguments. Each call is one step and `out` is the method's  *)
(* name with what it returned.                                             *)
(***************************************************************************)
EXTENDS Naturals, Sequences, Functions

SeqExt == INSTANCE SequencesExt

CONSTANTS Values, SetIds

VARIABLES values, out

vars == <<values, out>>

\* slices.Contains.
ContainsIn(sl, v) == \E k \in DOMAIN sl : sl[k] = v

\* Fault variant of Add that appends without the Contains check.
AddToAppend(sl, v) == Append(sl, v)

\* Add: append v unless the slice contains it.
AddTo(sl, v) == IF ContainsIn(sl, v) THEN sl ELSE Append(sl, v)

\* Remove: slices.DeleteFunc, which keeps the order of what is left.
RemoveFrom(sl, v) == SelectSeq(sl, LAMBDA x : x # v)

\* Union: a copy of s1, then Add of every value of s2.
UnionOf(s1, s2) == SeqExt!FoldLeft(AddTo, s1, s2)

\* Intersection: Add, to an empty set, every value of s1 that s2 contains.
IntersectionOf(s1, s2) ==
    SeqExt!FoldLeft(LAMBDA acc, x : IF ContainsIn(s2, x) THEN AddTo(acc, x) ELSE acc, <<>>, s1)

\* Fault variant of Difference that ranges over s2 and checks s1.
DifferenceOfSwapped(s1, s2) ==
    SeqExt!FoldLeft(LAMBDA acc, x : IF ContainsIn(s1, x) THEN acc ELSE AddTo(acc, x), <<>>, s2)

\* Difference: Add, to an empty set, every value of s1 that s2 lacks.
DifferenceOf(s1, s2) ==
    SeqExt!FoldLeft(LAMBDA acc, x : IF ContainsIn(s2, x) THEN acc ELSE AddTo(acc, x), <<>>, s1)

\* Every variable holds NewSet(): an empty slice.
Init == values = [s \in SetIds |-> <<>>] /\ out = <<>>

Add(s, v) == values' = [values EXCEPT ![s] = AddTo(@, v)] /\ out' = <<"Add", s, v>>

Remove(s, v) == values' = [values EXCEPT ![s] = RemoveFrom(@, v)] /\ out' = <<"Remove", s, v>>

Contains(s, v) == out' = <<"Contains", s, v, ContainsIn(values[s], v)>> /\ UNCHANGED values

Size(s) == out' = <<"Size", s, Len(values[s])>> /\ UNCHANGED values

\* Elements: a copy of the slice.
Elements(s) == out' = <<"Elements", s, values[s]>> /\ UNCHANGED values

\* d := Union / Intersection / Difference(a, b).
SetOp(d, a, b, name, r) == values' = [values EXCEPT ![d] = r] /\ out' = <<name, d, a, b>>

Next ==
    \/ \E s \in SetIds, v \in Values :
          Add(s, v) \/ Remove(s, v) \/ Contains(s, v)
    \/ \E s \in SetIds : Size(s) \/ Elements(s)
    \/ \E d, a, b \in SetIds :
          \/ SetOp(d, a, b, "Union", UnionOf(values[a], values[b]))
          \/ SetOp(d, a, b, "Intersection", IntersectionOf(values[a], values[b]))
          \/ SetOp(d, a, b, "Difference", DifferenceOf(values[a], values[b]))

Spec == Init /\ [][Next]_vars

-----------------------------------------------------------------------------
\* No slice ever holds a value twice: Add checks Contains, Union copies s1
\* as it is and relies on s1 having no duplicate, and Intersection and
\* Difference build from an empty set with Add, whatever the sequence of
\* calls and whichever variables the results overwrite.
NoDuplicates == \A s \in SetIds : IsInjective(values[s])

\* Elements' slice, seen as the set of its members.
AbstractOut == IF out # <<>> /\ out[1] = "Elements" THEN <<"Elements", out[2], Range(out[3])>> ELSE out

Abstract == INSTANCE SetSpec WITH sets <- [s \in SetIds |-> Range(values[s])], out <- AbstractOut

\* The Set behaves as a mathematical set: Size is the number of distinct
\* values and Elements lists exactly the members, after any sequence of
\* Add, Remove, Union, Intersection and Difference.
ImplementsSet == Abstract!Spec

=============================================================================
