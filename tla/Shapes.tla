------------------------------- MODULE Shapes -------------------------------
(***************************************************************************)
(* challenge10/polymorphism.go: the validating constructors and the       *)
(* ShapeCalculator. A float64 is a small integer (exact in float64), +Inf, *)
(* -Inf or NaN, with IEEE 754 comparisons: every comparison with NaN is    *)
(* false. The calculator sees a shape only through Area(); its inputs are  *)
(* rectangles, whose Area (Height * Width) is exact on these values.       *)
(* Circle and Triangle areas (pi, Heron's square root) are not modelled.   *)
(***************************************************************************)
EXTENDS Integers, Sequences, FiniteSets

SeqExt == INSTANCE SequencesExt

CONSTANTS
    Measures,    \* the float64 arguments given to the constructors
    Sides,       \* the widths and heights of the calculator's rectangles
    MaxShapes,   \* bound: shapes in the calculator's slice
    NaN, PosInf, NegInf  \* model values: the IEEE 754 NaN, +Inf and -Inf

VARIABLES dims, shapes, ascending

\* IEEE 754 comparison and arithmetic on the modelled values.
IsNaN(x) == x = NaN
FLt(a, b) ==
    /\ ~IsNaN(a) /\ ~IsNaN(b) /\ a # b
    /\ a = NegInf \/ b = PosInf \/ (a \in Int /\ b \in Int /\ a < b)
FLe(a, b) == FLt(a, b) \/ (~IsNaN(a) /\ a = b)
FNeg(a) == CASE a = PosInf -> NegInf [] a = NegInf -> PosInf [] a = NaN -> NaN [] OTHER -> -a
FAdd(a, b) ==
    CASE IsNaN(a) \/ IsNaN(b) \/ {a, b} = {PosInf, NegInf} -> NaN
      [] a \in {PosInf, NegInf} -> a
      [] b \in {PosInf, NegInf} -> b
      [] OTHER -> a + b
\* A product of two non-negative floats.
FMul(a, b) ==
    CASE IsNaN(a) \/ IsNaN(b) -> NaN
      [] a = PosInf \/ b = PosInf -> PosInf
      [] OTHER -> a * b

\* ensurePositive: an error at the first measurement with m <= 0.
EnsurePositive(ms) == \A k \in DOMAIN ms : ~FLe(ms[k], 0)

\* The error return (the constructors return nil and an error).
Err == [err |-> TRUE]

NewRectangle(width, height) ==
    IF EnsurePositive(<<width, height>>) THEN [Width |-> width, Height |-> height] ELSE Err

NewCircle(radius) == IF EnsurePositive(<<radius>>) THEN [Radius |-> radius] ELSE Err

\* Fault variant of NewTriangle that accepts degenerate triangles.
NewTriangleNonStrict(a, b, c) ==
    IF ~EnsurePositive(<<a, b, c>>) THEN Err
    ELSE IF FLt(FAdd(a, b), c) \/ FLt(FAdd(b, c), a) \/ FLt(FAdd(a, c), b) THEN Err
    ELSE [SideA |-> a, SideB |-> b, SideC |-> c]

\* NewTriangle: ensurePositive, then the triangle inequality.
NewTriangle(a, b, c) ==
    IF ~EnsurePositive(<<a, b, c>>) THEN Err
    ELSE IF FLe(FAdd(a, b), c) \/ FLe(FAdd(b, c), a) \/ FLe(FAdd(a, c), b) THEN Err
    ELSE [SideA |-> a, SideB |-> b, SideC |-> c]

\* Rectangle.Area.
Area(r) == FMul(r.Height, r.Width)

\* TotalArea: total := 0.0, then total += shapes[i].Area().
TotalStep(total, r) == FAdd(total, Area(r))
TotalArea(s) == SeqExt!FoldLeft(TotalStep, 0, s)

\* Fault variant of LargestShape that replaces on area >= largestArea.
LargestShapeLast(s) ==
    IF s = <<>> THEN "panic"
    ELSE SeqExt!FoldLeft(LAMBDA acc, r : IF FLe(acc[1], Area(r)) THEN <<Area(r), r>> ELSE acc,
                         <<Area(Head(s)), Head(s)>>, Tail(s))[2]

\* LargestShape: shapes[0] (an index panic on an empty slice), then a
\* later shape replaces it when area > largestArea.
LargestStep(acc, r) == IF FLt(acc[1], Area(r)) THEN <<Area(r), r>> ELSE acc
LargestShape(s) ==
    IF s = <<>> THEN "panic"
    ELSE SeqExt!FoldLeft(LargestStep, <<Area(Head(s)), Head(s)>>, Tail(s))[2]

\* SortByArea's comparison function: the sign of the area difference,
\* negated for descending order (a NaN difference compares as 0).
Compare(s1, s2, asc) ==
    LET diff == FAdd(Area(s1), FNeg(Area(s2)))
        order == IF FLt(diff, 0) THEN -1 ELSE IF FLt(0, diff) THEN 1 ELSE 0
    IN  IF asc THEN order ELSE -order

\* The inner loop of Go's insertionSortCmpFunc, which pdqsort runs on
\* slices of up to 12 elements: move data[j] down while it compares below
\* its predecessor (1-based j + 1 here).
RECURSIVE SinkDown(_, _, _)
SinkDown(d, j, asc) ==
    IF j > 0 /\ Compare(d[j + 1], d[j], asc) < 0
    THEN SinkDown([d EXCEPT ![j] = d[j + 1], ![j + 1] = d[j]], j - 1, asc)
    ELSE d

\* SortByArea: slices.SortedFunc with the comparison above.
SortByArea(s, asc) ==
    LET step(d, i) == SinkDown(d, i, asc)
    IN  SeqExt!FoldLeft(step, s, [k \in 1..(Len(s) - 1) |-> k])

Rectangles == {NewRectangle(w, h) : w, h \in Sides} \ {Err}

\* One call: constructor arguments, and a slice of rectangles with a sort
\* direction for the calculator.
ConstructorCall == dims \in Measures \X Measures \X Measures
CalculatorCall ==
    shapes \in SeqExt!BoundedSeq(Rectangles, MaxShapes) /\ ascending \in BOOLEAN
Init == ConstructorCall /\ CalculatorCall

Spec == Init /\ [][UNCHANGED <<dims, shapes, ascending>>]_<<dims, shapes, ascending>>

-----------------------------------------------------------------------------
\* The positive finite values, where a triangle's sides may lie.
PositiveFinite(x) == x \in Int /\ x > 0

\* For arguments that are not NaN, the constructors accept exactly what
\* their comments promise: a rectangle or circle whose every measurement
\* is positive (+Inf included), and a triangle whose sides are finite,
\* positive and strictly satisfy the triangle inequality; every sum
\* involving +Inf makes the comparison in NewTriangle reject, and a
\* degenerate triangle is rejected. (NaN passes ensurePositive, because
\* NaN <= 0 is false; that case is left out here.)
ShapeValidationMatches ==
    LET a == dims[1]  b == dims[2]  c == dims[3]
        pos(x) == x = PosInf \/ PositiveFinite(x)
    IN  /\ ~IsNaN(a) /\ ~IsNaN(b) => ((NewRectangle(a, b) # Err) <=> (pos(a) /\ pos(b)))
        /\ ~IsNaN(c) => ((NewCircle(c) # Err) <=> pos(c))
        /\ ~IsNaN(a) /\ ~IsNaN(b) /\ ~IsNaN(c) =>
              ((NewTriangle(a, b, c) # Err) <=>
                 /\ PositiveFinite(a) /\ PositiveFinite(b) /\ PositiveFinite(c)
                 /\ a < b + c /\ b < a + c /\ c < a + b)

\* The stable order of s by area (ascending or descending): the shape at
\* index k goes after every shape of a strictly smaller (larger) area and
\* after the earlier shapes of equal area.
StablePosition(s, k, asc) ==
    LET before(j) == IF asc THEN FLt(Area(s[j]), Area(s[k])) ELSE FLt(Area(s[k]), Area(s[j]))
    IN  Cardinality({j \in DOMAIN s : before(j) \/ (Area(s[j]) = Area(s[k]) /\ j < k)}) + 1
StableSortByArea(s, asc) ==
    [p \in DOMAIN s |-> s[CHOOSE k \in DOMAIN s : StablePosition(s, k, asc) = p]]

\* For every slice of valid rectangles (+Inf areas included): TotalArea
\* is the sum of the areas, LargestShape the first shape of largest area,
\* and SortByArea the stable sort by area in either direction.
ShapeCalculatorMatches ==
    LET areas == [k \in DOMAIN shapes |-> Area(shapes[k])]
        finite == {k \in DOMAIN shapes : areas[k] # PosInf}
    IN  /\ TotalArea(shapes) = IF finite = DOMAIN shapes
                               THEN SeqExt!SumFunction(areas) ELSE PosInf
        /\ shapes # <<>> =>
              \E k \in DOMAIN shapes :
                  /\ LargestShape(shapes) = shapes[k]
                  /\ \A j \in DOMAIN shapes : FLe(areas[j], areas[k])
                  /\ \A j \in 1..(k - 1) : FLt(areas[j], areas[k])
        /\ SortByArea(shapes, ascending) = StableSortByArea(shapes, ascending)

=============================================================================
