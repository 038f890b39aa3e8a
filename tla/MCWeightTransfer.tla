-------------------------- MODULE MCWeightTransfer --------------------------
(* WeightTransfer on small instances; the ranks are strings.               *)
EXTENDS WeightTransfer
=============================================================================
