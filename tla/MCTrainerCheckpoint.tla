------------------------- MODULE MCTrainerCheckpoint -------------------------
(* Instances of TrainerCheckpoint for TLC: values of Keep. *)
EXTENDS TrainerCheckpoint

KeepOne     == [g \in Groups |-> 1]
KeepUneven  == [g \in Groups |-> IF g = "actor" THEN 2 ELSE 3]
==============================================================================
