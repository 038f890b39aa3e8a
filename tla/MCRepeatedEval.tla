--------------------------- MODULE MCRepeatedEval ---------------------------
(* RepeatedEval on small instances: two GPUs, as strings.                   *)
EXTENDS RepeatedEval

Gpus2 == {"gpu0", "gpu1"}

=============================================================================
