----------------------------- MODULE ShardLedger -----------------------------
(***************************************************************************)
(* What a resumable evaluation promises: a batch that was computed stays   *)
(* computed, a model is aggregated once all of its batches are, and        *)
(* success is declared over all models - whoever computed which batch in   *)
(* whichever of the attempts.                                              *)
(***************************************************************************)
CONSTANTS Job, Model, JobsOf(_)

VARIABLES
    computed,     \* jobs whose results are on disk
    aggregated,   \* models with an aggregate
    declared      \* SUCCESS

vars == <<computed, aggregated, declared>>

Init == computed = {} /\ aggregated = {} /\ declared = FALSE

\* A job may be computed again; its result is replaced, never removed.
Compute ==
    /\ \E j \in Job : computed' = computed \cup {j}
    /\ UNCHANGED <<aggregated, declared>>

Aggregate ==
    /\ \E m \in Model :
          /\ JobsOf(m) \subseteq computed
          /\ aggregated' = aggregated \cup {m}
    /\ UNCHANGED <<computed, declared>>

Declare ==
    /\ aggregated = Model
    /\ declared' = TRUE
    /\ UNCHANGED <<computed, aggregated>>

Next == Compute \/ Aggregate \/ Declare

Spec == Init /\ [][Next]_vars

=============================================================================
