-------------------------- MODULE MCModelEvaluation --------------------------
(* ModelEvaluation on small instances: two workers, as strings.             *)
EXTENDS ModelEvaluation

Workers2 == {"gpu0", "gpu1"}

=============================================================================
