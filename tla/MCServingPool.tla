--------------------------- MODULE MCServingPool ---------------------------
(* ServingPool on small instances; servers and requests are strings.       *)
EXTENDS ServingPool

\* One request calls twice, the other once.
TwoAndOne == [r \in Request |-> IF r = "r1" THEN 2 ELSE 1]

=============================================================================
