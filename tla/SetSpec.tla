------------------------------ MODULE SetSpec ------------------------------
(***************************************************************************)
(* What challenge27's Set promises: a finite set of values per variable   *)
(* of the caller, and what each call returns (`out`: the method's name     *)
(* and its result). Union, Intersection and Difference store a new set in  *)
(* a variable, which may be one of their arguments.                        *)
(***************************************************************************)
EXTENDS FiniteSets

CONSTANTS Values, SetIds

VARIABLES sets, out

Init == sets = [s \in SetIds |-> {}] /\ out = <<>>

Add(s, v) == sets' = [sets EXCEPT ![s] = @ \cup {v}] /\ out' = <<"Add", s, v>>

Remove(s, v) == sets' = [sets EXCEPT ![s] = @ \ {v}] /\ out' = <<"Remove", s, v>>

Contains(s, v) == out' = <<"Contains", s, v, v \in sets[s]>> /\ UNCHANGED sets

Size(s) == out' = <<"Size", s, Cardinality(sets[s])>> /\ UNCHANGED sets

Elements(s) == out' = <<"Elements", s, sets[s]>> /\ UNCHANGED sets

SetOp(d, a, b, name, r) == sets' = [sets EXCEPT ![d] = r] /\ out' = <<name, d, a, b>>

Next ==
    \/ \E s \in SetIds, v \in Values :
          Add(s, v) \/ Remove(s, v) \/ Contains(s, v)
    \/ \E s \in SetIds : Size(s) \/ Elements(s)
    \/ \E d, a, b \in SetIds :
          \/ SetOp(d, a, b, "Union", sets[a] \cup sets[b])
          \/ SetOp(d, a, b, "Intersection", sets[a] \cap sets[b])
          \/ SetOp(d, a, b, "Difference", sets[a] \ sets[b])

Spec == Init /\ [][Next]_<<sets, out>>
=============================================================================
