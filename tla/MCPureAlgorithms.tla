------------------------- MODULE MCPureAlgorithms -------------------------
(***************************************************************************)
(* The stateless functions, checked in one run: the searches             *)
(* (StringSearch), sorts and Fibonacci sums (PerfAlgorithms), challenge19's *)
(* slice functions (SliceUtils), challenge17's IsPalindrome (Palindrome)   *)
(* challenge27's generic utilities (Generics) and challenge10's shape     *)
(* constructors and calculator (Shapes), and challenge05's routes and     *)
(* AuthMiddleware (AuthMiddleware). An initial state is one               *)
(* call of one of them, the others' inputs left empty; the functions share *)
(* nothing, so no state pairs the inputs of two of them.                   *)
(***************************************************************************)
EXTENDS Integers, Sequences, TLC

CONSTANTS MaxText, MaxPattern, MinPattern, Base, Prime, Elements, MaxLen, MaxN,
          MaxSlice, MaxStr, MaxGeneric, MaxShapes, NaN, PosInf, NegInf,
          MaxFields

VARIABLES text, pattern, data, n, nums, str, slice, elem, dims, shapes, ascending,
          request

vars == <<text, pattern, data, n, nums, str, slice, elem, dims, shapes, ascending, request>>

\* 'a', 'b' and 'A': two letters for partial matches, and an upper-case
\* one for the case-insensitive searches.
MCAlphabet == {97, 98, 65}

S == INSTANCE StringSearch WITH Alphabet <- MCAlphabet
P == INSTANCE PerfAlgorithms
U0 == INSTANCE SliceUtils WITH Ints <- {}, MaxLen <- 0, nums <- <<>>
\* math.MinInt32 itself, odd and even negatives, zero and a positive.
U == INSTANCE SliceUtils WITH Ints <- {U0!MinInt32, -3, -2, 0, 5}, MaxLen <- MaxSlice

\* Letters a, b, A, and the Latin-1 letters E-acute (201) and e-acute
\* (233); the digit 1; a space and a comma.
R == INSTANCE Palindrome WITH Letters <- {97, 98, 65, 201, 233}, Digits <- {49},
        Others <- {32, 44}, Upper <- (65 :> 97 @@ 201 :> 233), MaxLen <- MaxStr
G == INSTANCE Generics WITH Values <- {1, 2, 3}, Kept <- {2}, MaxLen <- MaxGeneric
\* Constructor arguments: negative, zero, positive, +Inf and NaN; rectangle
\* sides 1, 2 and +Inf (areas 1, 2, 4 and +Inf, with 1x2 and 2x1 of equal
\* area).
H == INSTANCE Shapes WITH Measures <- {-1, 0, 1, 2, 3, PosInf, NaN}, Sides <- {1, 2, PosInf}

\* Each component's inputs left empty.
NoSearch == text = <<>> /\ pattern = <<>>
NoSort == data = <<>> /\ n = 0
NoSlice == nums = <<>>
NoString == str = <<>>
NoGeneric == slice = <<>> /\ elem = 1
\* /hello, /secure, a path under /secure and an unrouted path; the
\* header's canonical name, its lower-case spelling and another header;
\* the token, another case of it, and the empty value.
A == INSTANCE AuthMiddleware WITH Paths <- {"/hello", "/secure", "/secure/x", "/"},
        FieldNames <- {"X-Auth-Token", "x-auth-token", "X-Auth"},
        FieldValues <- {"secret", "Secret", ""},
        Canonical <- ("X-Auth-Token" :> "X-Auth-Token" @@ "x-auth-token" :> "X-Auth-Token"
                      @@ "X-Auth" :> "X-Auth")

NoRequest == request = [path |-> "/", fields |-> <<>>]
NoConstructor == dims = <<1, 1, 1>>
NoCalculator == shapes = <<>> /\ ascending = TRUE
NoShape == NoConstructor /\ NoCalculator

Init ==
    \/ S!Init /\ NoSort /\ NoSlice /\ NoString /\ NoGeneric /\ NoShape /\ NoRequest
    \/ P!Init /\ NoSearch /\ NoSlice /\ NoString /\ NoGeneric /\ NoShape /\ NoRequest
    \/ U!Init /\ NoSearch /\ NoSort /\ NoString /\ NoGeneric /\ NoShape /\ NoRequest
    \/ R!Init /\ NoSearch /\ NoSort /\ NoSlice /\ NoGeneric /\ NoShape /\ NoRequest
    \/ G!Init /\ NoSearch /\ NoSort /\ NoSlice /\ NoString /\ NoShape /\ NoRequest
    \/ H!ConstructorCall /\ NoCalculator /\ NoSearch /\ NoSort /\ NoSlice /\ NoString /\ NoGeneric /\ NoRequest
    \/ H!CalculatorCall /\ NoConstructor /\ NoSearch /\ NoSort /\ NoSlice /\ NoString /\ NoGeneric /\ NoRequest
    \/ A!Init /\ NoShape /\ NoSearch /\ NoSort /\ NoSlice /\ NoString /\ NoGeneric

Spec == Init /\ [][UNCHANGED vars]_vars

\* StringSearch!RabinKarpMatchesNaive.
RabinKarpMatchesNaive == S!RabinKarpMatchesNaive

\* PerfAlgorithms!SlowSortSorts.
SlowSortSorts == P!SlowSortSorts

\* PerfAlgorithms!OptimizedSortMatchesSlowSort.
OptimizedSortMatchesSlowSort == P!OptimizedSortMatchesSlowSort

\* PerfAlgorithms!OptimizedCalculationMatches.
OptimizedCalculationMatches == P!OptimizedCalculationMatches

\* SliceUtils!SliceUtilitiesMatch.
SliceUtilitiesMatch == U!SliceUtilitiesMatch

\* Palindrome!IsPalindromeMatches.
IsPalindromeMatches == R!IsPalindromeMatches

\* Generics!GenericsMatch.
GenericsMatch == G!GenericsMatch

\* Shapes!ShapeValidationMatches.
ShapeValidationMatches == H!ShapeValidationMatches

\* Shapes!ShapeCalculatorMatches.
ShapeCalculatorMatches == H!ShapeCalculatorMatches

\* AuthMiddleware!AuthRoutesMatch.
AuthRoutesMatch == A!AuthRoutesMatch

=============================================================================
