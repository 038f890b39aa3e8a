------------------------------ MODULE EvalEngine ------------------------------
(***************************************************************************)
(* The evaluation engine of utils/evaluate_checkpoints.py: evaluate_model  *)
(* starts one worker process per GPU, waits until each has loaded its      *)
(* replica, queues every question batch, waits for an answer to each, and  *)
(* stops the workers.  _gpu_worker takes batches off a shared queue and    *)
(* puts its answers, through a feeder thread, on another.  A worker may    *)
(* fail (it says so and leaves) or die (it says nothing, and what it holds *)
(* and what its feeder has not sent is gone).                              *)
(*                                                                         *)
(* The caller (CheckpointEvaluation, ModelEvaluation) starts the engine    *)
(* and takes its outcome, and adds its own variables.                      *)
(*                                                                         *)
(* Abstractions.  Batches are numbers, queued all at once and taken in     *)
(* order.  Messages on their way are a set: the driver counts them and     *)
(* sorts them when all are in, so their order does not matter to it.       *)
(* Workers that are terminated are gone.  Scores are left out.             *)
(***************************************************************************)
EXTENDS Integers, FiniteSets

CONSTANTS
    Worker,        \* one per GPU
    NumBatches,    \* question batches of one model
    NumModels,     \* checkpoints or models to evaluate
    MaxFaults      \* bound: failures and deaths of workers

ASSUME EvalAssumption ==
    /\ IsFiniteSet(Worker) /\ Worker # {}
    /\ NumBatches \in Nat \ {0}
    /\ NumModels \in Nat \ {0}
    /\ MaxFaults \in Nat

Batch == 1 .. NumBatches
Model == 1 .. NumModels
NoBatch == 0

\* "ready" messages carry no batch.
Message == [kind : {"ready", "batch"}, ok : BOOLEAN, from : Worker,
            batch : 0 .. NumBatches]

VARIABLES
    engine,      \* where evaluate_model is
    expected,    \* the kind of message it awaits
    got,         \* the messages it has
    model,       \* the model it evaluates
    worker,      \* worker -> state of its process
    holds,       \* worker -> the batch it works on
    unsent,      \* worker -> messages its feeder thread has yet to send
    sent,        \* result_queue
    nextBatch,   \* job_queue: the batches from here on, ...
    stops,       \* ... then this many None
    faults

workerVars == <<worker, holds, unsent>>
queueVars == <<sent, nextBatch, stops>>
driverVars == <<engine, expected, got, model>>
engineVars == <<driverVars, workerVars, queueVars, faults>>

Alive(w) == worker[w] \notin {"none", "exited"}

EngineInit ==
    /\ engine = "off"
    /\ expected = "ready"
    /\ got = {}
    /\ model = 1
    /\ worker = [w \in Worker |-> "none"]
    /\ holds = [w \in Worker |-> NoBatch]
    /\ unsent = [w \in Worker |-> {}]
    /\ sent = {}
    /\ nextBatch = NumBatches + 1
    /\ stops = 0
    /\ faults = 0

-----------------------------------------------------------------------------
(* Workers: _gpu_worker                                                    *)

Says(w, kind, ok, batch) ==
    unsent' = [unsent EXCEPT ![w] = @ \cup
        {[kind |-> kind, ok |-> ok, from |-> w, batch |-> batch]}]
Becomes(w, state) == worker' = [worker EXCEPT ![w] = state]

\* Tokenizer and LLM are loaded, or one of them raises.
Load(w) ==
    /\ worker[w] = "loading"
    /\ \/ /\ Says(w, "ready", TRUE, NoBatch)
          /\ Becomes(w, "idle")
          /\ UNCHANGED faults
       \/ /\ faults < MaxFaults
          /\ Says(w, "ready", FALSE, NoBatch)
          /\ Becomes(w, "leaving")
          /\ faults' = faults + 1
    /\ UNCHANGED <<driverVars, holds, queueVars>>

TakeBatch(w) ==
    /\ worker[w] = "idle"
    /\ nextBatch \in Batch
    /\ holds' = [holds EXCEPT ![w] = nextBatch]
    /\ nextBatch' = nextBatch + 1
    /\ Becomes(w, "busy")
    /\ UNCHANGED <<driverVars, unsent, sent, stops, faults>>

TakeNone(w) ==
    /\ worker[w] = "idle"
    /\ nextBatch \notin Batch
    /\ stops > 0
    /\ stops' = stops - 1
    /\ Becomes(w, "leaving")
    /\ UNCHANGED <<driverVars, holds, unsent, sent, nextBatch, faults>>

Answer(w) ==
    /\ worker[w] = "busy"
    /\ Says(w, "batch", TRUE, holds[w])
    /\ holds' = [holds EXCEPT ![w] = NoBatch]
    /\ Becomes(w, "idle")
    /\ UNCHANGED <<driverVars, queueVars, faults>>

\* Generating or scoring raises; the worker says so and returns.
FailBatch(w) ==
    /\ worker[w] = "busy"
    /\ faults < MaxFaults
    /\ Says(w, "batch", FALSE, holds[w])
    /\ holds' = [holds EXCEPT ![w] = NoBatch]
    /\ Becomes(w, "leaving")
    /\ faults' = faults + 1
    /\ UNCHANGED <<driverVars, queueVars>>

\* The feeder thread of result_queue.put.
Send(w) ==
    /\ Alive(w)
    /\ \E m \in unsent[w] :
          /\ unsent' = [unsent EXCEPT ![w] = @ \ {m}]
          /\ sent' = sent \cup {m}
    /\ UNCHANGED <<driverVars, worker, holds, nextBatch, stops, faults>>

\* A process that returns joins its feeder first.
Leave(w) ==
    /\ worker[w] = "leaving"
    /\ unsent[w] = {}
    /\ Becomes(w, "exited")
    /\ UNCHANGED <<driverVars, holds, unsent, queueVars, faults>>

Die(w) ==
    /\ Alive(w)
    /\ faults < MaxFaults
    /\ Becomes(w, "exited")
    /\ holds' = [holds EXCEPT ![w] = NoBatch]
    /\ unsent' = [unsent EXCEPT ![w] = {}]
    /\ faults' = faults + 1
    /\ UNCHANGED <<driverVars, queueVars>>

Works(w) ==
    Load(w) \/ TakeBatch(w) \/ TakeNone(w) \/ Answer(w) \/ FailBatch(w) \/ Send(w) \/ Leave(w)

-----------------------------------------------------------------------------
(* The driver: evaluate_model and _await_messages                          *)

\* New queues, new processes.
StartWorkers ==
    /\ engine = "off"
    /\ engine' = "await"
    /\ expected' = "ready"
    /\ got' = {}
    /\ worker' = [w \in Worker |-> "loading"]
    /\ holds' = [w \in Worker |-> NoBatch]
    /\ unsent' = [w \in Worker |-> {}]
    /\ sent' = {}
    /\ nextBatch' = NumBatches + 1
    /\ stops' = 0
    /\ UNCHANGED <<model, faults>>

\* Mutant: _await_messages returns one message early.
Awaited_OneShort ==
    IF expected = "ready" THEN Cardinality(Worker) ELSE NumBatches - 1

Awaited == IF expected = "ready" THEN Cardinality(Worker) ELSE NumBatches

AllIn == Cardinality(got) >= Awaited

\* A message of the wrong kind, or of a failure, raises.
Get ==
    /\ engine = "await"
    /\ ~AllIn
    /\ \E m \in sent :
          /\ sent' = sent \ {m}
          /\ IF m.kind = expected /\ m.ok
                THEN got' = got \cup {m} /\ UNCHANGED engine
                ELSE engine' = "raising" /\ UNCHANGED got
    /\ UNCHANGED <<expected, model, workerVars, nextBatch, stops, faults>>

\* result_queue.get(timeout=15) finds nothing in time; only then are the
\* processes looked at.
GetTimesOut ==
    /\ engine = "await"
    /\ ~AllIn
    /\ sent = {}
    /\ engine' = "timedOut"
    /\ UNCHANGED <<expected, got, model, workerVars, queueVars, faults>>

\* Mutant: the wait is given up only when every worker has exited.
SomeExited_All == \A w \in Worker : worker[w] = "exited"

SomeExited == \E w \in Worker : worker[w] = "exited"

CheckExits ==
    /\ engine = "timedOut"
    /\ engine' = IF SomeExited THEN "raising" ELSE "await"
    /\ UNCHANGED <<expected, got, model, workerVars, queueVars, faults>>

\* Mutant: the None of each process is queued behind the batches at once.
StopsWithBatches_Queued == Cardinality(Worker)

StopsWithBatches == 0

QueueBatches ==
    /\ engine = "await" /\ expected = "ready"
    /\ AllIn
    /\ nextBatch' = 1
    /\ stops' = StopsWithBatches
    /\ expected' = "batch"
    /\ got' = {}
    /\ UNCHANGED <<engine, model, workerVars, sent, faults>>

\* _stop_workers(force=False) puts one None for each process and joins them.
PutStops ==
    /\ engine = "await" /\ expected = "batch"
    /\ AllIn
    /\ stops' = Cardinality(Worker)
    /\ engine' = "joining"
    /\ UNCHANGED <<expected, got, model, workerVars, sent, nextBatch, faults>>

\* Mutant: processes that do not stop in time are left to themselves.
Terminated_None == [w \in Worker |-> worker[w]]

\* process.terminate() and join
Terminated == [w \in Worker |-> "exited"]

\* Whoever has not stopped within 30 s is terminated.
Joined ==
    /\ engine = "joining"
    /\ worker' = Terminated
    /\ holds' = [w \in Worker |-> NoBatch]
    /\ unsent' = [w \in Worker |-> {}]
    /\ engine' = "returned"
    /\ UNCHANGED <<expected, got, model, queueVars, faults>>

\* _stop_workers(force=True), and the exception goes on to the caller.
Abort ==
    /\ engine = "raising"
    /\ worker' = Terminated
    /\ holds' = [w \in Worker |-> NoBatch]
    /\ unsent' = [w \in Worker |-> {}]
    /\ engine' = "raised"
    /\ UNCHANGED <<expected, got, model, queueVars, faults>>

Drives ==
    Get \/ GetTimesOut \/ CheckExits \/ QueueBatches \/ PutStops \/ Joined \/ Abort

\* aggregate_question_results: every question there, and none twice.
Complete ==
    /\ \A b \in Batch : \E m \in got : m.batch = b
    /\ \A m1, m2 \in got : m1.batch = m2.batch => m1 = m2

\* Mutant: the caller's loop goes one too far.
ModelsLeft_OneMore == model \in 1 .. NumModels + 1

\* The caller's loop over its checkpoints or models.
ModelsLeft == model \in Model

-----------------------------------------------------------------------------
EngineTypeOK ==
    /\ engine \in {"off", "await", "timedOut", "joining", "raising", "returned", "raised"}
    /\ expected \in {"ready", "batch"}
    /\ got \in SUBSET Message
    /\ model \in 1 .. NumModels + 1
    /\ worker \in [Worker -> {"none", "loading", "idle", "busy", "leaving", "exited"}]
    /\ holds \in [Worker -> 0 .. NumBatches]
    /\ unsent \in [Worker -> SUBSET Message]
    /\ sent \in SUBSET Message
    /\ nextBatch \in 1 .. NumBatches + 1
    /\ stops \in 0 .. Cardinality(Worker)
    /\ faults \in 0 .. MaxFaults

\* What evaluate_model returns is whole: one answer to each batch.  The two
\* queues keep each batch in one place, so that the checks of
\* aggregate_question_results never fire.
ReturnsComplete == engine = "returned" => Complete

\* An evaluation is given up only when a worker did fail or die: a worker that
\* leaves because it was told to is never taken for one that broke.
NoFalseAlarm == engine \in {"raising", "raised"} => faults > 0

-----------------------------------------------------------------------------
(* The inductive invariant behind ReturnsComplete                          *)

Answers == {m \in got \cup sent \cup UNION {unsent[w] : w \in Worker} : m.kind = "batch"}

\* Only batches taken off the queue are answered, each by one message.
AnsweredOnce ==
    /\ \A m \in Answers : m.batch \in 1 .. nextBatch - 1
    /\ \A m1, m2 \in Answers : m1.batch = m2.batch => m1 = m2

\* A batch a worker works on is no other's and has no answer yet.
HeldOnce ==
    /\ \A w \in Worker : worker[w] = "busy" => holds[w] # NoBatch
    /\ \A w \in Worker : holds[w] # NoBatch =>
          /\ holds[w] \in 1 .. nextBatch - 1
          /\ \A m \in Answers : m.batch # holds[w]
    /\ \A w1, w2 \in Worker : holds[w1] = holds[w2] /\ holds[w1] # NoBatch => w1 = w2

\* While the workers load nothing is queued, held or answered.
NothingYet ==
    expected = "ready" =>
        /\ nextBatch = NumBatches + 1
        /\ Answers = {}
        /\ \A w \in Worker : holds[w] = NoBatch

\* The driver keeps only messages of the kind it awaits, and stops the workers
\* when it has as many as there are batches.
GotAwaited ==
    /\ IsFiniteSet(got)
    /\ expected = "batch" => \A m \in got : m.kind = "batch"
    /\ engine \in {"joining", "returned"} => expected = "batch" /\ AllIn

EngineInv == AnsweredOnce /\ HeldOnce /\ NothingYet /\ GotAwaited

=============================================================================
