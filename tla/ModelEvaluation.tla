---------------------------- MODULE ModelEvaluation ----------------------------
(***************************************************************************)
(* main of utils/evaluate_models.py: complete Hugging Face models are      *)
(* evaluated one after the other by the engine of EvalEngine.  Each gets a *)
(* result file of its own; summary.json says how far the run is.           *)
(*                                                                         *)
(* A run may be killed at any step, and the same run_name started again.   *)
(*                                                                         *)
(* Abstractions.  A file is the attempt that wrote it and what it says; it *)
(* is replaced by an atomic rename.  The configuration, the same at each   *)
(* attempt, is left out.  When an attempt starts, the GPUs are free: the   *)
(* workers of the one before it are gone.                                  *)
(*                                                                         *)
(* Names differ from those of CheckpointEvaluation, the engine's other     *)
(* caller: EvaluationProofs extends both.                                  *)
(***************************************************************************)
EXTENDS EvalEngine

CONSTANT MaxAttempts   \* bound: times the run is started

ASSUME AttemptAssumption == MaxAttempts \in Nat \ {0}

VARIABLES
    main,       \* where main is
    attempt,    \* how many times the run was started
    summary,    \* the summary in memory
    onDisk,     \* summary.json
    results     \* <model>.json: the attempt whose results it holds

modelsVars == <<main, attempt, summary, onDisk, results, engineVars>>

NoFile == [attempt |-> 0, status |-> "none", models |-> [x \in Model |-> "pending"]]
NoResult == 0

ModelsInit ==
    /\ main = "start"
    /\ attempt = 1
    /\ summary = NoFile
    /\ onDisk = NoFile
    /\ results = [x \in Model |-> NoResult]
    /\ EngineInit

\* Mutant: an attempt may go on in a directory with files in it.
DirIsEmpty_Unchecked == TRUE

DirIsEmpty == onDisk = NoFile /\ \A x \in Model : results[x] = NoResult

\* A directory that is not empty is refused.
Refuse ==
    /\ main = "start"
    /\ ~DirIsEmpty
    /\ main' = "refused"
    /\ UNCHANGED <<attempt, summary, onDisk, results, engineVars>>

MakeDir ==
    /\ main = "start"
    /\ DirIsEmpty
    /\ summary' = [NoFile EXCEPT !.attempt = attempt, !.status = "running"]
    /\ main' = "first"
    /\ UNCHANGED <<attempt, onDisk, results, engineVars>>

Store(next) ==
    /\ onDisk' = summary'
    /\ main' = next

FirstSummary ==
    /\ main = "first"
    /\ UNCHANGED summary
    /\ Store("loop")
    /\ UNCHANGED <<attempt, results, engineVars>>

StatusOf(x, status) == [summary EXCEPT !.models[x] = status]

NextModel ==
    /\ main = "loop"
    /\ ModelsLeft
    /\ summary' = StatusOf(model, "running")
    /\ Store("evaluate")
    /\ UNCHANGED <<attempt, results, engineVars>>

EvaluateModel ==
    /\ main = "evaluate"
    /\ StartWorkers
    /\ main' = "evaluating"
    /\ UNCHANGED <<attempt, summary, onDisk, results>>

Succeeds == engine = "returned" /\ Complete

FinishModel ==
    /\ main = "evaluating"
    /\ engine \in {"returned", "raised"}
    /\ main' = IF Succeeds THEN "write" ELSE "except"
    /\ engine' = "off"
    /\ UNCHANGED <<attempt, summary, onDisk, results, expected, got, model,
                   workerVars, queueVars, faults>>

\* Mutant: the model is called completed before its results are on disk.
WriteResult_StatusFirst ==
    /\ main = "write"
    /\ summary' = StatusOf(model, "completed")
    /\ Store("status")
    /\ UNCHANGED <<attempt, results, engineVars>>

WriteResult ==
    /\ main = "write"
    /\ results' = [results EXCEPT ![model] = attempt]
    /\ main' = "status"
    /\ UNCHANGED <<attempt, summary, onDisk, engineVars>>

Completed ==
    /\ main = "status"
    /\ summary' = StatusOf(model, "completed")
    /\ model' = model + 1
    /\ Store("loop")
    /\ UNCHANGED <<attempt, results, engine, expected, got, workerVars, queueVars,
                   faults>>

\* except BaseException: the status is stored and the exception goes on.
Failed ==
    /\ main = "except"
    /\ summary' = [StatusOf(model, "failed") EXCEPT !.status = "failed"]
    /\ Store("failed")
    /\ UNCHANGED <<attempt, results, engineVars>>

AllCompleted ==
    /\ main = "loop"
    /\ ~ModelsLeft
    /\ summary' = [summary EXCEPT !.status = "completed"]
    /\ Store("done")
    /\ UNCHANGED <<attempt, results, engineVars>>

ModelsMain ==
    Refuse \/ MakeDir \/ FirstSummary \/ NextModel \/ EvaluateModel \/ FinishModel \/ WriteResult
        \/ Completed \/ Failed \/ AllCompleted

ModelsOver == main \in {"done", "failed", "refused", "killed"}

ModelsKill ==
    /\ ~ModelsOver
    /\ main' = "killed"
    /\ UNCHANGED <<attempt, summary, onDisk, results, engineVars>>

StartAgain ==
    /\ ModelsOver
    /\ attempt < MaxAttempts
    /\ attempt' = attempt + 1
    /\ main' = "start"
    /\ summary' = NoFile
    /\ engine' = "off" /\ expected' = "ready" /\ got' = {} /\ model' = 1
    /\ worker' = [w \in Worker |-> "none"]
    /\ holds' = [w \in Worker |-> NoBatch]
    /\ unsent' = [w \in Worker |-> {}]
    /\ sent' = {} /\ nextBatch' = NumBatches + 1 /\ stops' = 0
    /\ UNCHANGED <<onDisk, results, faults>>

mainVars == <<main, attempt, summary, onDisk, results>>

ModelsDrive == main = "evaluating" /\ Drives /\ UNCHANGED mainVars
ModelsWorkerStep(w) == Works(w) /\ UNCHANGED mainVars
ModelsWorkerDeath(w) == Die(w) /\ UNCHANGED mainVars

ModelsFinished == ModelsOver /\ UNCHANGED modelsVars

ModelsNext ==
    \/ ModelsMain \/ ModelsDrive \/ ModelsKill \/ StartAgain \/ ModelsFinished
    \/ \E w \in Worker : ModelsWorkerStep(w) \/ ModelsWorkerDeath(w)

ModelsSpec == ModelsInit /\ [][ModelsNext]_modelsVars

-----------------------------------------------------------------------------
(* Properties                                                              *)

\* What the summary on disk calls completed has its results on disk, whenever
\* the run is killed and whatever fails; and results a reader finds beyond those
\* are of the model the summary says is running.
SummaryIsHonest ==
    /\ \A x \in Model : onDisk.models[x] = "completed" => results[x] # NoResult
    /\ \A x \in Model : results[x] # NoResult => onDisk.models[x] \in {"running", "completed"}
    /\ onDisk.status = "completed" => \A x \in Model : onDisk.models[x] = "completed"

\* "Results from different attempts cannot be mixed": the summary and every
\* result beside it are of one attempt.
OneAttempt == \A x \in Model : results[x] \in {NoResult, onDisk.attempt}

=============================================================================
