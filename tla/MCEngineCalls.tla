--------------------------- MODULE MCEngineCalls ---------------------------
(***************************************************************************)
(* Finite instances of EngineCalls.                                        *)
(***************************************************************************)
EXTENDS EngineCalls, TLC

CONSTANTS c1, c2, c3, s1, s2, i1, i2, i3

ThreeCalls == {c1, c2, c3}
TwoCalls == {c1, c2}
TwoClosers == {s1, s2}
OneCloser == {s1}
ThreeIds == {i1, i2, i3}
OneId == {i1}

\* One estimate that fits twice, one that fits once, one that never fits.
Estimates == {1, 2, 3}

Symmetric == Permutations(ThreeCalls) \cup Permutations(TwoClosers) \cup Permutations(ThreeIds)
=============================================================================
