\* Searches: texts up to 6 bytes and patterns up to 4 over {a, b, A}, the
\* empty pattern included; RabinKarpSearch's own base and modulus.
\* Sorts: slices of up to five ints from {1, 2, 3} (duplicates, runs and
\* every order of three distinct values). Fibonacci sums: n up to 12.
\* challenge19: slices of up to four ints with negatives (odd and even),
\* zero and math.MinInt32 itself. IsPalindrome: strings of up to five runes
\* (odd and even lengths, case and Latin-1 case pairs, punctuation).
\* Generics: slices of up to four values from {1, 2, 3}. Shapes: every
\* triple of constructor arguments, and slices of up to four rectangles
\* (insertion sort's inner loop runs up to three swaps) in both directions.
\* AuthMiddleware: every request of up to two header fields, so that a
\* second X-Auth-Token field can follow a first one.
CONSTANTS
    MaxText = 6
    MaxPattern = 4
    MinPattern = 0
    Base = 256
    Prime = 101
    Elements = {1, 2, 3}
    MaxLen = 5
    MaxN = 12
    MaxSlice = 4
    MaxStr = 5
    MaxGeneric = 4
    MaxShapes = 4
    NaN = NaN
    PosInf = PosInf
    NegInf = NegInf
    MaxFields = 2
SPECIFICATION Spec
INVARIANT RabinKarpMatchesNaive
INVARIANT SlowSortSorts
INVARIANT OptimizedSortMatchesSlowSort
INVARIANT OptimizedCalculationMatches
INVARIANT SliceUtilitiesMatch
INVARIANT IsPalindromeMatches
INVARIANT GenericsMatch
INVARIANT ShapeValidationMatches
INVARIANT ShapeCalculatorMatches
INVARIANT AuthRoutesMatch
