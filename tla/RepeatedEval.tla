---------------------------- MODULE RepeatedEval ----------------------------
(***************************************************************************)
(* The repeated evaluation, runners/evaluate_repeated_avg16.py: for each   *)
(* model and each seed every question batch is computed by one of the      *)
(* workers and kept as a shard on disk; a seed's shards make a seed        *)
(* summary, the seeds' summaries an aggregate, all models' aggregates      *)
(* SUCCESS.json.  The program may be ended at any point and is started     *)
(* again by the watcher until SUCCESS.json is there; shards of earlier     *)
(* attempts are not computed again.                                        *)
(*                                                                         *)
(* An attempt is a life of the driver.  A signal to its process group      *)
(* takes driver and workers; one to the driver alone leaves the workers    *)
(* behind as orphans: they go on with what is in their queue, and hold     *)
(* their GPUs when it is empty, waiting on a queue that nobody fills.      *)
(*                                                                         *)
(* Abstractions.  A shard is known by the life that computed it; a summary *)
(* and an aggregate are the shards they were made of.  result_queue.put    *)
(* and its feeder thread are one step, after the shard is written.  Every  *)
(* life has the same arguments, as the watcher starts them.  A second LLM  *)
(* does not fit beside one that holds 90% of a GPU (external: vLLM).       *)
(***************************************************************************)
EXTENDS Integers, FiniteSets, Sequences

CONSTANTS
    Gpu,
    NumModels, NumSeeds, NumBatches,
    MaxLives,      \* bound: starts of the program
    MaxFaults,     \* bound: failures and deaths of workers
    MaxKills       \* bound: signals that end the driver

ASSUME RepeatedAssumption ==
    /\ IsFiniteSet(Gpu) /\ Gpu # {}
    /\ {NumModels, NumSeeds, NumBatches, MaxLives} \subseteq Nat \ {0}
    /\ {MaxFaults, MaxKills} \subseteq Nat

Model == 1 .. NumModels
Seed == 1 .. NumSeeds
Batch == 1 .. NumBatches
Life == 1 .. MaxLives
Job == Model \X Seed \X Batch
JobsOf(m) == {m} \X Seed \X Batch

NoJob == <<0, 0, 0>>     \* also the None that tells a worker to stop
Absent == 0              \* no shard
NoFile == <<>>           \* no summary, no aggregate

VARIABLES
    pc,            \* main and evaluate_model; "off": no driver
    life,          \* starts so far
    model, seed,   \* where the driver's loops are
    raised,        \* evaluate_model's finally is run by an exception
    got, awaited,  \* await_messages: messages counted and needed
    proc,          \* life -> GPU -> state of the worker process
    holds,         \* life -> GPU -> the job it works on
    jobQueue,      \* life -> its job_queue
    sent,          \* the current life's result_queue
    shard,         \* job -> the life whose result is on disk
    seedSummary,   \* model -> seed -> batch -> the shard it was made of
    aggregate,     \* model -> its seed summaries
    overview,      \* summary.json: the models in it
    success, failure,   \* SUCCESS.json, FAILURE.json
    faults, kills

procVars == <<proc, holds, jobQueue, sent>>
loopVars == <<life, model, seed>>
awaitVars == <<raised, got, awaited>>
fileVars == <<seedSummary, aggregate, overview, success, failure>>
boundVars == <<faults, kills>>
vars == <<pc, loopVars, awaitVars, procVars, shard, fileVars, boundVars>>

Init ==
    /\ pc = "off" /\ life = 0 /\ model = 1 /\ seed = 1
    /\ raised = FALSE /\ got = 0 /\ awaited = 0
    /\ proc = [l \in Life |-> [g \in Gpu |-> "none"]]
    /\ holds = [l \in Life |-> [g \in Gpu |-> NoJob]]
    /\ jobQueue = [l \in Life |-> <<>>]
    /\ sent = {}
    /\ shard = [j \in Job |-> Absent]
    /\ seedSummary = [m \in Model |-> [s \in Seed |-> NoFile]]
    /\ aggregate = [m \in Model |-> NoFile]
    /\ overview = {} /\ success = FALSE /\ failure = FALSE
    /\ faults = 0 /\ kills = 0

Loaded == {"idle", "busy", "written"}
Living == Loaded \cup {"loading"}

-----------------------------------------------------------------------------
(* Workers                                                                 *)

\* Messages of an orphan reach no driver.
Puts(l, kind, ok, g, j) ==
    sent' = IF l = life /\ pc # "off"
               THEN sent \cup {[kind |-> kind, ok |-> ok, from |-> g, job |-> j]}
               ELSE sent
Becomes(l, g, state) == proc' = [proc EXCEPT ![l][g] = state]

GpuTaken(l, g) == \E k \in Life \ {l} : proc[k][g] \in Loaded

Load(l, g) ==
    /\ proc[l][g] = "loading"
    /\ ~GpuTaken(l, g)
    /\ Becomes(l, g, "idle")
    /\ Puts(l, "ready", TRUE, g, NoJob)
    /\ UNCHANGED <<pc, loopVars, awaitVars, holds, jobQueue, shard, fileVars, boundVars>>

\* The worker says so and returns: exit code 0.
LoadFails(l, g) ==
    /\ proc[l][g] = "loading"
    /\ \/ GpuTaken(l, g) /\ UNCHANGED faults
       \/ faults < MaxFaults /\ faults' = faults + 1
    /\ Becomes(l, g, "returned")
    /\ Puts(l, "ready", FALSE, g, NoJob)
    /\ UNCHANGED <<pc, loopVars, awaitVars, holds, jobQueue, shard, fileVars, kills>>

TakeJob(l, g) ==
    /\ proc[l][g] = "idle" /\ jobQueue[l] # <<>>
    /\ LET j == Head(jobQueue[l]) IN
          /\ Becomes(l, g, IF j = NoJob THEN "returned" ELSE "busy")
          /\ holds' = [holds EXCEPT ![l][g] = j]
    /\ jobQueue' = [jobQueue EXCEPT ![l] = Tail(@)]
    /\ UNCHANGED <<pc, loopVars, awaitVars, sent, shard, fileVars, boundVars>>

WriteShard(l, g) ==
    /\ proc[l][g] = "busy"
    /\ shard' = [shard EXCEPT ![holds[l][g]] = l]
    /\ Becomes(l, g, "written")
    /\ UNCHANGED <<pc, loopVars, awaitVars, holds, jobQueue, sent, fileVars, boundVars>>

Answer(l, g) ==
    /\ proc[l][g] = "written"
    /\ Puts(l, "batch", TRUE, g, holds[l][g])
    /\ Becomes(l, g, "idle")
    /\ UNCHANGED <<pc, loopVars, awaitVars, holds, jobQueue, shard, fileVars, boundVars>>

\* Generating, verifying or writing raises; the worker says so and returns.
FailJob(l, g) ==
    /\ proc[l][g] = "busy"
    /\ faults < MaxFaults /\ faults' = faults + 1
    /\ Puts(l, "batch", FALSE, g, holds[l][g])
    /\ Becomes(l, g, "returned")
    /\ UNCHANGED <<pc, loopVars, awaitVars, holds, jobQueue, shard, fileVars, kills>>

\* An end without a word, with an exit code other than 0.
Die(l, g) ==
    /\ proc[l][g] \in Living
    /\ faults < MaxFaults /\ faults' = faults + 1
    /\ Becomes(l, g, "died")
    /\ UNCHANGED <<pc, loopVars, awaitVars, holds, jobQueue, sent, shard, fileVars, kills>>

Works(l, g) ==
    \/ Load(l, g) \/ LoadFails(l, g) \/ TakeJob(l, g)
    \/ WriteShard(l, g) \/ Answer(l, g) \/ FailJob(l, g)

-----------------------------------------------------------------------------
(* The driver                                                              *)

\* The watcher starts the program while there is no SUCCESS.json; FAILURE.json
\* of the attempt before is moved away.
Start ==
    /\ pc = "off" /\ ~success /\ life < MaxLives
    /\ life' = life + 1
    /\ failure' = FALSE
    /\ model' = 1
    /\ pc' = "model"
    /\ UNCHANGED <<seed, awaitVars, procVars, shard, seedSummary, aggregate, overview, success,
                   boundVars>>

\* Batches without a valid shard, in order.
Pending(m, s) ==
    SelectSeq([b \in Batch |-> <<m, s, b>>], LAMBDA j : shard[j] = Absent)

PendingExists == \E s \in Seed : Pending(model, s) # <<>>

SkipModel ==
    /\ pc = "model"
    /\ aggregate[model] # NoFile
    /\ pc' = "overview"
    /\ UNCHANGED <<loopVars, awaitVars, procVars, shard, fileVars, boundVars>>

\* Every shard is there: the summaries are made without workers.
OnlySummarize ==
    /\ pc = "model"
    /\ aggregate[model] = NoFile
    /\ ~PendingExists
    /\ pc' = "seed" /\ seed' = 1 /\ raised' = FALSE
    /\ UNCHANGED <<life, model, got, awaited, procVars, shard, fileVars, boundVars>>

StartWorkers ==
    /\ pc = "model"
    /\ aggregate[model] = NoFile
    /\ PendingExists
    /\ proc' = [proc EXCEPT ![life] = [g \in Gpu |-> "loading"]]
    /\ holds' = [holds EXCEPT ![life] = [g \in Gpu |-> NoJob]]
    /\ jobQueue' = [jobQueue EXCEPT ![life] = <<>>]
    /\ sent' = {}
    /\ got' = 0 /\ awaited' = Cardinality(Gpu)
    /\ pc' = "ready" /\ seed' = 1 /\ raised' = FALSE
    /\ UNCHANGED <<life, model, shard, fileVars, boundVars>>

\* A message of the wrong kind, or of a failure, raises.
Get ==
    /\ pc \in {"ready", "batch"} /\ got < awaited
    /\ \E m \in sent :
          /\ sent' = sent \ {m}
          /\ IF m.kind = pc /\ m.ok
                THEN got' = got + 1 /\ UNCHANGED <<pc, raised>>
                ELSE pc' = "stop" /\ raised' = TRUE /\ UNCHANGED got
    /\ UNCHANGED <<loopVars, awaited, proc, holds, jobQueue, shard, fileVars, boundVars>>

\* Mutant: worker_failure never sees the worker of one GPU.
WorkerFailure_MissesOne == \A g \in Gpu : proc[life][g] = "died"

\* Exit codes other than None and 0.
WorkerFailure == \E g \in Gpu : proc[life][g] = "died"

\* Nothing came for 15 s.
NoticeDeath ==
    /\ pc \in {"ready", "batch"} /\ got < awaited
    /\ sent = {}
    /\ WorkerFailure
    /\ pc' = "stop" /\ raised' = TRUE
    /\ UNCHANGED <<loopVars, got, awaited, procVars, shard, fileVars, boundVars>>

WorkersReady ==
    /\ pc = "ready" /\ got = awaited
    /\ pc' = "seed"
    /\ UNCHANGED <<loopVars, awaitVars, procVars, shard, fileVars, boundVars>>

QueueSeed ==
    /\ pc = "seed"
    /\ jobQueue' = [jobQueue EXCEPT ![life] = @ \o Pending(model, seed)]
    /\ got' = 0 /\ awaited' = Len(Pending(model, seed))
    /\ pc' = "batch"
    /\ UNCHANGED <<loopVars, raised, proc, holds, sent, shard, fileVars, boundVars>>

ShardsOf(m, s) == [b \in Batch |-> shard[<<m, s, b>>]]
Whole(shards) == \A b \in Batch : shards[b] # Absent

\* summarize_seed raises when a shard is missing.
SummarizeSeed ==
    /\ pc = "batch" /\ got = awaited
    /\ IF Whole(ShardsOf(model, seed))
          THEN /\ seedSummary' = [seedSummary EXCEPT ![model][seed] = ShardsOf(model, seed)]
               /\ pc' = IF seed < NumSeeds THEN "seed" ELSE "aggregate"
               /\ seed' = IF seed < NumSeeds THEN seed + 1 ELSE seed
               /\ UNCHANGED raised
          ELSE /\ pc' = "stop" /\ raised' = TRUE
               /\ UNCHANGED <<seed, seedSummary>>
    /\ UNCHANGED <<life, model, got, awaited, procVars, shard, aggregate, overview, success,
                   failure, boundVars>>

\* summarize_model reads the seed summaries back from disk.
SummarizeModel ==
    /\ pc = "aggregate"
    /\ aggregate' = [aggregate EXCEPT ![model] = seedSummary[model]]
    /\ pc' = "stop"
    /\ UNCHANGED <<loopVars, awaitVars, procVars, shard, seedSummary, overview, success,
                   failure, boundVars>>

\* stop_workers puts one None for each process and joins them ...
PutStops ==
    /\ pc = "stop"
    /\ jobQueue' = [jobQueue EXCEPT ![life] =
           IF \E g \in Gpu : proc[life][g] # "none" THEN @ \o [g \in 1 .. Cardinality(Gpu) |-> NoJob]
           ELSE @]
    /\ pc' = "joining"
    /\ UNCHANGED <<loopVars, awaitVars, proc, holds, sent, shard, fileVars, boundVars>>

\* Mutant: evaluate_model's exception is swallowed after its finally.
AfterStop_GoesOn == "overview"

AfterStop == IF raised THEN "fail" ELSE "overview"

\* ... and ends those that have not stopped in 30 s.
Joined ==
    /\ pc = "joining"
    /\ proc' = [proc EXCEPT ![life] = [g \in Gpu |-> "none"]]
    /\ holds' = [holds EXCEPT ![life] = [g \in Gpu |-> NoJob]]
    /\ jobQueue' = [jobQueue EXCEPT ![life] = <<>>]
    /\ pc' = AfterStop
    /\ UNCHANGED <<loopVars, awaitVars, sent, shard, fileVars, boundVars>>

MoreModels == model < NumModels

\* write_global_summary, after each model.
WriteOverview ==
    /\ pc = "overview"
    /\ overview' = {m \in Model : aggregate[m] # NoFile}
    /\ pc' = IF MoreModels THEN "model" ELSE "success"
    /\ model' = IF MoreModels THEN model + 1 ELSE model
    /\ UNCHANGED <<life, seed, awaitVars, procVars, shard, seedSummary, aggregate, success,
                   failure, boundVars>>

Succeed ==
    /\ pc = "success"
    /\ success' = TRUE
    /\ pc' = "off"
    /\ UNCHANGED <<loopVars, awaitVars, procVars, shard, seedSummary, aggregate, overview,
                   failure, boundVars>>

Fail ==
    /\ pc = "fail"
    /\ failure' = TRUE
    /\ pc' = "off"
    /\ UNCHANGED <<loopVars, awaitVars, procVars, shard, seedSummary, aggregate, overview,
                   success, boundVars>>

Drives ==
    \/ SkipModel \/ OnlySummarize \/ StartWorkers \/ Get \/ NoticeDeath \/ WorkersReady
    \/ QueueSeed \/ SummarizeSeed \/ SummarizeModel \/ PutStops \/ Joined
    \/ WriteOverview \/ Succeed \/ Fail

\* A signal to the process group, as pause_evaluation sends it.
KillGroup ==
    /\ pc # "off" /\ kills < MaxKills
    /\ kills' = kills + 1
    /\ pc' = "off"
    /\ proc' = [proc EXCEPT ![life] = [g \in Gpu |-> "none"]]
    /\ holds' = [holds EXCEPT ![life] = [g \in Gpu |-> NoJob]]
    /\ jobQueue' = [jobQueue EXCEPT ![life] = <<>>]
    /\ sent' = {}
    /\ UNCHANGED <<loopVars, awaitVars, shard, fileVars, faults>>

\* A signal to the driver alone.  What its own feeder thread had not yet sent
\* is lost; the workers are no daemons and stay.
KillDriver ==
    /\ pc # "off" /\ kills < MaxKills
    /\ kills' = kills + 1
    /\ pc' = "off"
    /\ \E n \in 0 .. Len(jobQueue[life]) :
          jobQueue' = [jobQueue EXCEPT ![life] = SubSeq(@, 1, n)]
    /\ sent' = {}
    /\ UNCHANGED <<loopVars, awaitVars, proc, holds, shard, fileVars, faults>>

Finished == pc = "off" /\ (success \/ life = MaxLives) /\ UNCHANGED vars

Next ==
    \/ Start \/ Drives \/ KillGroup \/ KillDriver \/ Finished
    \/ \E l \in Life, g \in Gpu : Works(l, g) \/ Die(l, g)

Spec == Init /\ [][Next]_vars

\* The watcher starts the program again, the driver and every living worker go
\* on; nothing obliges a fault or a signal to come.
Fairness ==
    /\ WF_vars(Start) /\ WF_vars(Drives)
    /\ \A l \in Life, g \in Gpu : WF_vars(Works(l, g))

FairSpec == Spec /\ Fairness

-----------------------------------------------------------------------------
(* Properties                                                              *)

Ledger == INSTANCE ShardLedger WITH
    computed <- {j \in Job : shard[j] # Absent},
    aggregated <- {m \in Model : aggregate[m] # NoFile},
    declared <- success

\* Through every signal, failure and restart, results are kept, a model is
\* aggregated only from all of its batches and success declared over all models.
ImplementsLedger == Ledger!Spec

Orphans == {l \in Life : (l < life \/ pc = "off") /\ \E g \in Gpu : proc[l][g] \in Living}

\* If no worker ever outlives its driver, the attempts end in SUCCESS.json.
\* (With an orphan they may not: it keeps its GPU for ever.)
EndsInSuccess == [](Orphans = {}) => <>success

=============================================================================
