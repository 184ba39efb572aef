---------------------------- MODULE StringSearch ----------------------------
(***************************************************************************)
(* The substring searches of challenge16/perf.go (HighAllocationSearch,    *)
(* OptimizedSearch and its kmpLoop) and challenge23/match.go               *)
(* (NaivePatternMatch, RabinKarpSearch, powMod), as operators.             *)
(*                                                                         *)
(* A string is the sequence of its bytes, each byte its code: Go indexes   *)
(* and slices strings by byte, and the inputs used here are ASCII, where   *)
(* a rune is a byte. Positions are Go's 0-based indexes; s[i] in Go is    *)
(* s[i+1] here, and s[i:k] is SubSeq(s, i+1, k).                           *)
(*                                                                         *)
(* The loops are RECURSIVE operators whose parameters are the loop's       *)
(* variables. A run of the state machine at the end calls every search on *)
(* every text and pattern within the bounds.                               *)
(***************************************************************************)
EXTENDS Integers, Sequences, SequencesExt, Functions

CONSTANTS
    Alphabet,    \* the byte codes texts and patterns are made of
    MaxText,     \* bound: longest text
    MaxPattern,  \* bound: longest pattern
    Base,        \* RabinKarpSearch's base (256)
    Prime,       \* RabinKarpSearch's modulus (101)
    MinPattern   \* bound: shortest pattern

ASSUME /\ Alphabet \subseteq 0..255
       /\ MaxText \in Nat /\ MaxPattern \in Nat
       /\ Base \in Nat /\ Prime \in Nat \ {0}
       /\ MinPattern \in 0..MaxPattern

Strings(n) == SeqOf(Alphabet, n)
Patterns == {p \in Strings(MaxPattern) : Len(p) >= MinPattern}

\* Go's % truncates toward zero: the result has the sign of the dividend.
GoRem(a, b) == IF a >= 0 THEN a % b ELSE -((-a) % b)

\* strings.ToLower on ASCII.
ToLower(s) == [k \in DOMAIN s |-> IF s[k] \in 65..90 THEN s[k] + 32 ELSE s[k]]

-----------------------------------------------------------------------------
(* challenge23: NaivePatternMatch, the brute-force reference.             *)
NaivePatternMatch(text, pattern) ==
    LET n == Len(text)
        m == Len(pattern)
    IN  IF n < m \/ m = 0 THEN <<>>
        ELSE SetToSortSeq({i \in 0..(n - m) : SubSeq(text, i + 1, i + m) = pattern}, <)

(* powMod: binary exponentiation. The products stay below Prime^2, far   *)
(* from int64's limit, for the modulus 101 RabinKarpSearch passes.        *)
RECURSIVE PowModLoop(_, _, _, _)
PowModLoop(result, base, exp, mod) ==
    IF exp > 0
    THEN PowModLoop(IF exp % 2 = 1 THEN GoRem(result * base, mod) ELSE result,
                    GoRem(base * base, mod),
                    exp \div 2,
                    mod)
    ELSE result

PowMod(base, exp, mod) == PowModLoop(1, GoRem(base, mod), exp, mod)

(* RabinKarpSearch: the hash of the first window, then the rolling loop.  *)
HashStep(h, c) == GoRem(Base * h + c, Prime)
WindowHash(s) == FoldLeft(HashStep, 0, s)

\* Fault variant of the rolling update without the negative-remainder fix.
RollNoFix(txtHash, out, in, h) == GoRem(Base * (txtHash - out * h) + in, Prime)

\* The rolling update: drop the byte leaving the window, add the new one,
\* and bring Go's negative remainder back into 0..Prime-1.
Roll(txtHash, out, in, h) ==
    LET r == GoRem(Base * (txtHash - out * h) + in, Prime)
    IN  IF r < 0 THEN r + Prime ELSE r

RECURSIVE RabinKarpLoop(_, _, _, _, _, _)
RabinKarpLoop(text, pattern, h, patHash, i, txtHash) ==
    LET n == Len(text)
        m == Len(pattern)
        hit == patHash = txtHash /\ SubSeq(text, i + 1, i + m) = pattern
    IN  IF i > n - m THEN <<>>
        ELSE (IF hit THEN <<i>> ELSE <<>>)
             \o RabinKarpLoop(text, pattern, h, patHash, i + 1,
                              IF i < n - m THEN Roll(txtHash, text[i + 1], text[i + m + 1], h)
                                           ELSE txtHash)

RabinKarpSearch(text, pattern) ==
    LET n == Len(text)
        m == Len(pattern)
    IN  IF n < m \/ m = 0 THEN <<>>
        ELSE RabinKarpLoop(text, pattern, PowMod(Base, m - 1, Prime),
                           WindowHash(pattern), 0, WindowHash(SubSeq(text, 1, m)))

-----------------------------------------------------------------------------
(* challenge16: HighAllocationSearch, a case-insensitive scan returning   *)
(* a map from each match position to the original-case text there.       *)

\* `i+len(lowerSubstr) <= len(lowerText)`
Fits(i, m, n) == i + m <= n

HighAllocationSearch(text, substr) ==
    LET lowerText == ToLower(text)
        lowerSubstr == ToLower(substr)
        m == Len(lowerSubstr)
        starts == {i \in 0..(Len(lowerText) - 1) :
                     /\ Fits(i, m, Len(lowerText))
                     /\ SubSeq(lowerText, i + 1, i + m) = lowerSubstr}
    IN  [i \in starts |-> SubSeq(text, i + 1, i + Len(substr))]

(* kmpLoop: with buildLPS it fills lps from the needle matched against    *)
(* itself (start 1); without, it collects the match positions in the      *)
(* haystack (start 0). lps is a function on 0..n-1, as the Go slice. It   *)
(* returns the final lps and matches, or panics when it indexes needle    *)
(* out of range.                                                           *)
RECURSIVE KmpLoop(_, _, _, _, _, _, _)
KmpLoop(haystack, needle, i, j, lps, buildLPS, matches) ==
    IF j >= Len(haystack) THEN [panic |-> FALSE, lps |-> lps, matches |-> matches]
    ELSE IF i >= Len(needle) THEN [panic |-> TRUE, lps |-> lps, matches |-> matches]
    ELSE IF needle[i + 1] = haystack[j + 1]
    THEN IF buildLPS /\ i + 1 < Len(needle)
         THEN KmpLoop(haystack, needle, i + 1, j + 1,
                      [lps EXCEPT ![i + 1] = i + 1], buildLPS, matches)
         ELSE IF i + 1 = Len(needle)
         THEN KmpLoop(haystack, needle, lps[i], j + 1, lps, buildLPS,
                      Append(matches, j + 1 - (i + 1)))
         ELSE KmpLoop(haystack, needle, i + 1, j + 1, lps, buildLPS, matches)
    ELSE IF i > 0
    THEN KmpLoop(haystack, needle, lps[i - 1], j, lps, buildLPS, matches)
    ELSE KmpLoop(haystack, needle, i, j + 1,
                 IF buildLPS THEN [lps EXCEPT ![i] = 0] ELSE lps, buildLPS, matches)

\* OptimizedSearch: lower-case both, build lps, search, and map every start
\* to text[start : start+n]. "panic" when kmpLoop panics.
OptimizedSearch(text, substr) ==
    LET haystack == ToLower(text)
        needle == ToLower(substr)
        n == Len(needle)
        built == KmpLoop(needle, needle, 0, 1, [k \in 0..(n - 1) |-> 0], TRUE, <<>>)
        found == KmpLoop(haystack, needle, 0, 0, built.lps, FALSE, <<>>)
    IN  IF built.panic \/ found.panic THEN "panic"
        ELSE [s \in Range(found.matches) |-> SubSeq(text, s + 1, s + n)]

-----------------------------------------------------------------------------
(* One call of the searches: the initial states are every text and       *)
(* pattern within the bounds, and the searches keep no state between      *)
(* calls, so a behaviour is one call that stays where it is.              *)
VARIABLES text, pattern

vars == <<text, pattern>>

Init == text \in Strings(MaxText) /\ pattern \in Patterns

Done == UNCHANGED vars

Spec == Init /\ [][Done]_vars

-----------------------------------------------------------------------------
\* RabinKarpSearch returns exactly NaivePatternMatch's positions, in order:
\* the rolling hash, with Go's signed remainder corrected, never drops a
\* window that matches.
RabinKarpMatchesNaive == RabinKarpSearch(text, pattern) = NaivePatternMatch(text, pattern)

\* OptimizedSearch "should produce identical results" to HighAllocationSearch
\* (the comment above it), on every input.
OptimizedMatchesHighAllocation == OptimizedSearch(text, pattern) = HighAllocationSearch(text, pattern)

=============================================================================
