-------------------------------- MODULE Sorting --------------------------------
(***************************************************************************)
(* Lists in an order, as a query's ORDER BY and the page's sort and filter *)
(* make them.  An order is the set of the pairs that stand in it, so that  *)
(* it can be reasoned about: an element's place is how many are before it. *)
(***************************************************************************)
EXTENDS Integers, FiniteSets, Sequences

Rank(S, R, x) == Cardinality({y \in S : <<y, x>> \in R})

(* The elements of S, each once, in the strict order R. *)
SortedBy(S, R) == [k \in 1 .. Cardinality(S) |-> CHOOSE x \in S : Rank(S, R, x) = k - 1]

Ascending(I)  == SortedBy(I, {p \in I \X I : p[1] < p[2]})
Descending(I) == SortedBy(I, {p \in I \X I : p[1] > p[2]})

(* What s has at the positions I, as they were. *)
Kept(s, I) ==
  LET positions == Ascending(I)
  IN [k \in 1 .. Cardinality(I) |-> s[positions[k]]]
=============================================================================
