------------------------ MODULE MCCheckpointEvaluation ------------------------
(* CheckpointEvaluation on small instances: two workers, as strings.        *)
EXTENDS CheckpointEvaluation

Workers2 == {"gpu0", "gpu1"}

=============================================================================
