---------------------------- MODULE Subsequences ----------------------------
(***************************************************************************)
(* Taking elements out of the middle of a list, as the loops over std::list*)
(* and std::vector do that erase what they no longer want.  It is          *)
(* SelectSeq, said by the positions that stay and without recursion, so    *)
(* that it can be reasoned about.                                          *)
(***************************************************************************)
EXTENDS Integers, Sequences, FiniteSets

\* How many of the positions I are not after i.
Rank(I, i) == Cardinality({k \in I : k <= i})

\* The elements of s at the positions I, in their order.
Subsequence(s, I) ==
    [n \in 1 .. Cardinality(I) |-> s[CHOOSE i \in I : Rank(I, i) = n]]

\* s without the elements of the set gone.
Without(s, gone) == Subsequence(s, {i \in DOMAIN s : s[i] \notin gone})
=============================================================================
