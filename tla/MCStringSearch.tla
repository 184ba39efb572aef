-------------------------- MODULE MCStringSearch --------------------------
(* Texts up to 6 bytes and patterns up to 4 over a, b and A. *)
EXTENDS StringSearch

\* 'a', 'b' and 'A': two letters for partial matches, and an upper-case
\* one for the case-insensitive searches.
MCAlphabet == {97, 98, 65}
=============================================================================
