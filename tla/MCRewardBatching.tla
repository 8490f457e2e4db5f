-------------------------- MODULE MCRewardBatching --------------------------
(* RewardBatching on small instances. *)
EXTENDS RewardBatching
=============================================================================
