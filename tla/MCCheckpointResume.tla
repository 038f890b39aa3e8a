------------------------- MODULE MCCheckpointResume -------------------------
(* CheckpointResume on small instances: the ranks are strings, rank 0       *)
(* among them; the cfg files give the other constants.                      *)
EXTENDS CheckpointResume

Ranks2 == {"r0", "r1"}

=============================================================================
