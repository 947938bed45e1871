---------------------------- MODULE MCCheckpoint ----------------------------
(* Two checkpoint names beside the database, one inside it, and one         *)
(* directory that every restore is sent to.                                 *)
EXTENDS Checkpoint, TLC

MCDatabase == <<"data", "db">>
MCCheckpointRoot == <<"data">>
MCRestoreRoot == <<"restores">>
MCDestinations ==
    {<<"data", "a">>, <<"data", "b">>, <<"data", "db", "c">>, <<"restores", "r">>}

OperatorSymmetry == Permutations(Operators)
=============================================================================
