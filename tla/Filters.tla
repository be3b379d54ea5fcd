------------------------------ MODULE Filters ------------------------------
(***************************************************************************)
(* Array.filter: the elements of a sequence that are kept, in their order. *)
(* SelectSeq, written without recursion so that it can be reasoned about.  *)
(***************************************************************************)
EXTENDS Naturals, Sequences, FiniteSets

\* How many of the indices do not come after i.
Rank(indices, i) == Cardinality({x \in indices : x <= i})

\* The j-th of them.
Nth(indices, j) == CHOOSE i \in indices : Rank(indices, i) = j

\* What is left of s when only the elements at the indices are kept.
Filtered(s, indices) == [j \in 1..Cardinality(indices) |-> s[Nth(indices, j)]]
=============================================================================
