---------------------------- MODULE MCPPOTrainer ----------------------------
(* Small instances of the V1 trainer for TLC.                              *)
EXTENDS PPOTrainer, TLC

SessionSymmetry == Permutations(Sessions)
=============================================================================
