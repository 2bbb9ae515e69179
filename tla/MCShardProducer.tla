-------------------------- MODULE MCShardProducer --------------------------
(***************************************************************************)
(* The instances of ShardProducer that TLC checks.                         *)
(***************************************************************************)
EXTENDS ShardProducer, TLC

Symmetry == Permutations(Worker)

=============================================================================
