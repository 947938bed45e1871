---------------------------- MODULE MCHostCache ----------------------------
(* Small instances of HostCache for TLC. *)
EXTENDS HostCache

CONSTANTS c1, c2, c3, w1, w2

FourPartitions == 1 .. 4
ThreePartitions == 1 .. 3
\* Partition 3 is twice as large as the others: evicting one does not make room.
MixedSizes == [p \in 1 .. 4 |-> IF p = 3 THEN 2 ELSE 1]
ThreeSizes == [p \in 1 .. 3 |-> IF p = 3 THEN 2 ELSE 1]
ThreeClients == {c1, c2, c3}
TwoClients == {c1, c2}
TwoWorkers == {w1, w2}
OneWorker == {w1}
=============================================================================
