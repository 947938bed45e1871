------------------------------ MODULE Weights ------------------------------
(***************************************************************************)
(* Sums of natural numbers over finite sets, such as the bytes that a set  *)
(* of leases or permits holds, as the size of a disjoint union.            *)
(***************************************************************************)
EXTENDS Naturals, FiniteSets

\* One element for each unit of the weight w[x] of each x of S.
Units(S, w) == UNION {{x} \X (1..w[x]) : x \in S}

\* The sum of w[x] over S.
Weight(S, w) == Cardinality(Units(S, w))
=============================================================================
