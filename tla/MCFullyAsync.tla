---------------------------- MODULE MCFullyAsync ----------------------------
(* FullyAsync as it is; the mutated definitions are what would go wrong.   *)
EXTENDS FullyAsync
=============================================================================
