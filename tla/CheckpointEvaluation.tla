------------------------- MODULE CheckpointEvaluation -------------------------
(***************************************************************************)
(* main and prepare_model of utils/evaluate_checkpoints.py: one checkpoint *)
(* after the other is merged into a temporary model if it is sharded,      *)
(* evaluated by the engine, its merged model removed and its results       *)
(* written with those before it.                                           *)
(*                                                                         *)
(* Abstractions.  Of the result file only the steps in it are kept; it is  *)
(* replaced by an atomic rename, with one step more each time.  A kill     *)
(* takes the driver alone: the workers, started by spawn and no daemons,   *)
(* go on.  One run is modelled; a second one writes the file anew.         *)
(***************************************************************************)
EXTENDS EvalEngine

VARIABLES
    pc,          \* main
    merged,      \* checkpoints with a temporary merged model on disk
    resultFile   \* <run_name>.json: the checkpoints with results in it

vars == <<pc, merged, resultFile, engineVars>>

Init ==
    /\ pc = "begin"
    /\ merged = {}
    /\ resultFile = {}
    /\ EngineInit

\* The document with no steps is written first.
Begin ==
    /\ pc = "begin"
    /\ resultFile' = {}
    /\ pc' = "merge"
    /\ UNCHANGED <<merged, engineVars>>

\* A checkpoint that is a Hugging Face model already is evaluated where it is.
UseModelDir ==
    /\ pc = "merge"
    /\ ModelsLeft
    /\ pc' = "merged"
    /\ UNCHANGED <<merged, resultFile, engineVars>>

\* prepare_model makes the directory and merges into it; a merge that fails
\* removes it again.
Merge ==
    /\ pc = "merge"
    /\ ModelsLeft
    /\ merged' = merged \cup {model}
    /\ pc' \in {"merged", "mergeFailed"}
    /\ UNCHANGED <<resultFile, engineVars>>

MergeFails ==
    /\ pc = "mergeFailed"
    /\ merged' = merged \ {model}
    /\ pc' = "failed"
    /\ UNCHANGED <<resultFile, engineVars>>

Evaluate ==
    /\ pc = "merged"
    /\ StartWorkers
    /\ pc' = "evaluating"
    /\ UNCHANGED <<merged, resultFile>>

\* prepare_model's finally: shutil.rmtree
LeaveModel == merged \ {model}

\* evaluate_model returns or raises, and prepare_model removes the merge.
Finish ==
    /\ pc = "evaluating"
    /\ engine \in {"returned", "raised"}
    /\ merged' = LeaveModel
    /\ pc' = IF engine = "returned" /\ Complete THEN "write" ELSE "failed"
    /\ engine' = "off"
    /\ UNCHANGED <<resultFile, expected, got, model, workerVars, queueVars, faults>>

Write ==
    /\ pc = "write"
    /\ resultFile' = resultFile \cup {model}
    /\ model' = model + 1
    /\ pc' = "merge"
    /\ UNCHANGED <<merged, engine, expected, got, workerVars, queueVars, faults>>

End ==
    /\ pc = "merge"
    /\ ~ModelsLeft
    /\ pc' = "done"
    /\ UNCHANGED <<merged, resultFile, engineVars>>

Main == Begin \/ UseModelDir \/ Merge \/ MergeFails \/ Evaluate \/ Finish \/ Write \/ End

Over == pc \in {"done", "failed", "killed"}

\* SIGKILL, or a SIGTERM or SIGHUP without a handler.
Kill ==
    /\ ~Over
    /\ pc' = "killed"
    /\ UNCHANGED <<merged, resultFile, engineVars>>

Drive == pc = "evaluating" /\ Drives /\ UNCHANGED <<pc, merged, resultFile>>
WorkerStep(w) == Works(w) /\ UNCHANGED <<pc, merged, resultFile>>
WorkerDeath(w) == Die(w) /\ UNCHANGED <<pc, merged, resultFile>>

Finished == Over /\ UNCHANGED vars

Next ==
    \/ Main \/ Drive \/ Kill \/ Finished
    \/ \E w \in Worker : WorkerStep(w) \/ WorkerDeath(w)

Spec == Init /\ [][Next]_vars

\* The driver and every living worker keep running: a worker loads, answers
\* or fails in the end, and the feeder threads send.
Fairness ==
    /\ WF_vars(Main \/ Drive)
    /\ \A w \in Worker : WF_vars(WorkerStep(w))

FairSpec == Spec /\ Fairness

-----------------------------------------------------------------------------
(* Properties                                                              *)

TypeOK ==
    /\ EngineTypeOK
    /\ pc \in {"begin", "merge", "merged", "mergeFailed", "evaluating", "write", "done",
               "failed", "killed"}
    /\ merged \in SUBSET Model
    /\ resultFile \in SUBSET Model

\* Between two checkpoints and at the end of a run that was not killed, however
\* it ended, no process is left on a GPU and no merged model on disk; nor does
\* one checkpoint's worker outlive its evaluation.
NothingLeftBehind ==
    pc \in {"merge", "write", "done", "failed"} =>
        merged = {} /\ \A w \in Worker : ~Alive(w)

\* Whatever fails or dies, the run ends: the driver never waits for an answer
\* that no worker will give.
EvaluationEnds == <>Over

=============================================================================
