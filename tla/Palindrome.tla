----------------------------- MODULE Palindrome -----------------------------
(***************************************************************************)
(* challenge17/palindrome.go: IsPalindrome over a string given as the      *)
(* sequence of its code points. unicode.IsLetter, IsDigit and ToLower are  *)
(* tables over the model's alphabet (Latin-1 letters included).            *)
(***************************************************************************)
EXTENDS Integers, Sequences

SeqExt == INSTANCE SequencesExt

CONSTANTS Letters, Digits, Others, Upper, MaxLen

\* Upper: each upper-case letter of Letters |-> its lower-case form.
ASSUME Upper \in [DOMAIN Upper -> Letters] /\ DOMAIN Upper \subseteq Letters

VARIABLE str

\* unicode.ToLower on the alphabet.
ToLower(r) == IF r \in DOMAIN Upper THEN Upper[r] ELSE r

\* isAlphanum: unicode.IsLetter(r) || unicode.IsDigit(r).
IsAlphanum(r) == r \in Letters \cup Digits

\* Fault variant of IsPalindrome that compares runes without ToLower.
IsPalindromeCaseSensitive(s) ==
    LET runes == SelectSeq(s, IsAlphanum)
        n == Len(runes)
    IN  \A i \in 0..((n + 1) \div 2 - 1) : runes[i + 1] = runes[n - i]

\* IsPalindrome: keep the alphanumeric runes, then compare runes[i] with
\* runes[n-i-1] under ToLower for i in range (n+1)/2, returning false at
\* the first difference.
IsPalindrome(s) ==
    LET runes == SelectSeq(s, IsAlphanum)
        n == Len(runes)
    IN  \A i \in 0..((n + 1) \div 2 - 1) : ToLower(runes[i + 1]) = ToLower(runes[n - i])

\* Every string of up to MaxLen runes.
Init == str \in SeqExt!BoundedSeq(Letters \cup Digits \cup Others, MaxLen)

Spec == Init /\ [][UNCHANGED str]_str

-----------------------------------------------------------------------------
\* IsPalindrome is true exactly when the string, with spaces and punctuation
\* dropped and letters lower-cased, reads the same backwards, as its comment
\* says (odd and even lengths, and strings with no letter at all).
IsPalindromeMatches ==
    LET cleaned == [k \in DOMAIN SelectSeq(str, IsAlphanum) |-> ToLower(SelectSeq(str, IsAlphanum)[k])]
    IN  IsPalindrome(str) <=> cleaned = SeqExt!Reverse(cleaned)

=============================================================================
