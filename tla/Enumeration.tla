---------------------------- MODULE Enumeration -----------------------------
(***************************************************************************)
(* Finite sets of numbers in ascending order, and the elements of a        *)
(* sequence at a set of places: what a scan of slots, or Vec::retain,      *)
(* leaves.                                                                 *)
(***************************************************************************)
EXTENDS Integers, FiniteSets

\* The numbers of S below s.
Rank(S, s) == Cardinality({r \in S : r < s})

Ascending(S) == [n \in 1 .. Cardinality(S) |-> CHOOSE s \in S : Rank(S, s) = n - 1]

\* The elements of the sequence seq at the places S.
Subsequence(seq, S) == [n \in 1 .. Cardinality(S) |-> seq[Ascending(S)[n]]]
=============================================================================
