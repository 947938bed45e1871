--------------------------- MODULE MCPublication ---------------------------
(***************************************************************************)
(* Finite instances of Publication.                                        *)
(***************************************************************************)
EXTENDS Publication, TLC

CONSTANTS b1, b2, b3, r1, r2

\* Three children are the published bundle, a retired one and a fresh one;
\* failed builds leak children, and a build that finds no free name fails.
ThreeBundles == {b1, b2, b3}
TwoBundles == {b1, b2}
TwoRoutes == {r1, r2}
OneRoute == {r1}

UnitBytes == [v \in 0..MaxGraph |-> 1]
TwoByteBundles == [v \in 0..MaxGraph |-> 2]

Symmetric == Permutations(ThreeBundles) \cup Permutations(TwoRoutes)
=============================================================================
