# Verification of OPD_Forge's training and evaluation control

TLA+ models of the parts of OPD_Forge in which several threads, tasks, processes
or lives of a run work on shared state - the synchronous and the fully
asynchronous rollout pipelines, checkpointing and resumption, the serving pool
and weight synchronisation, the multi-GPU evaluations and their supervisor - and
of the index algorithms that the training relies on. TLC checks each of them on
small instances; TLAPS proves all but two of the invariants, the action properties
and the refinements for every value of the constants.

Paths below are relative to `src/`; `V/` stands for `verl/verl/`. Numbers after a
colon are lines.

## 1. The system

OPD_Forge trains small language models by on-policy distillation. It runs a
vendored copy of the verl framework (`verl/`), adds its algorithms
(`algorithms/`, parts of `utils/`), a launcher (`scripts/run_training.sh`) and a
set of evaluation programs (`utils/evaluate_*.py`, `runners/`).

    run_training.sh -> runners/*_entrypoint.py -> TaskRunner -> PPOTrainer.fit
                                                     |
         driver --mark--> ReplayBuffer <--poll thread-- TransferQueue
           |                                                ^
           +--dispatch--> agent-loop workers: prompts, sessions, teacher calls
           |                    |
           |                    +--> load balancer --> rollout replicas
           +--update actor, save checkpoint, update weights (wake up), validate

    fully asynchronous mode:
         Rollouter (feed, processor, tasks, monitor) --MessageQueue--> Trainer
              ^                                                          |
              +---- reset_staleness <---- weight synchronisation --------+

    evaluate_checkpoints.py / evaluate_models.py
         driver --job_queue--> one worker process per GPU --result_queue--> driver

    watch_repeated_avg16.py, resource_waiter.sh, eval_guard.sh
         supervise evaluate_repeated_avg16.py and yield the GPUs to training

### Components

| component | code | state it keeps | operations | status |
|---|---|---|---|---|
| synchronous rollout pipeline | `V/trainer/main_ppo_sync.py`, `V/experimental/agent_loop/agent_loop.py` | the driver's step and batch; one task per prompt and per session; the tags in the TransferQueue, their copy in the ReplayBuffer; the poll thread's snapshot; whether the replicas are awake | mark, dispatch, generate, put, resolve, poll, sample, balance, update, validate, clear, close | partly |
| batch padding | `V/trainer/ppo/padding_utils.py` | the padding samples of a batch | upsample to a multiple | partly, with the pipeline |
| checkpointing and resume | `main_ppo_sync.py` 826-943, `V/utils/checkpoint/` | shards per rank, `data.pt`, the tracker file; the list of saved paths; step and dataloader position | make room, save, register and prune, write `data.pt` and tracker, find, load | partly |
| checkpoint evaluation | `utils/evaluate_checkpoints.py` | worker processes, two queues, the merged model, the result file | merge, start, await, queue, answer, stop, write | partly |
| direct-model evaluation | `utils/evaluate_models.py` | summary in memory and on disk, a result file per model | check the directory, evaluate, record | modelled |
| repeated Avg@16 evaluation | `runners/evaluate_repeated_avg16.py` | batch shards, seed and model summaries, `SUCCESS.json`, `FAILURE.json`, workers of this and of earlier attempts | load, evaluate a shard, resume, aggregate, succeed, fail | partly |
| evaluation supervisor | `runners/watch_repeated_avg16.py`, `resource_waiter.sh`, `eval_guard.sh` | the watcher's lock, process lists, GPU state | start, pause, restart, yield to training | partly |
| model-queue evaluation runner | `runners/evaluation_entrypoint.py` | a queue of models, one worker per GPU | dispatch, collect | not modelled |
| fully asynchronous training | `V/experimental/fully_async_policy/` | staleness quota, active tasks, message queue, parameter version, saved version | feed, submit, generate, put, pause, resume, train, synchronise, save, end | partly |
| request load balancer | `V/workers/rollout/llm_server.py` | in-flight counts, the sticky table | acquire, release, add and remove servers | partly |
| weight synchronisation | `V/checkpoint_engine/`, `V/workers/rollout/vllm_rollout/` | replicas paused, weights version; chunks, buffers, buckets | abort, split, broadcast, merge, hand over, load, resume | partly |
| teacher alignment | `V/experimental/teacher_loop/teacher_manager.py`, `V/workers/utils/padding.py` | none (index algebra) | slice predictions, causal layout, pad, cut out | partly |
| OPD algorithms | `utils/fast_oa_opd.py`, `utils/oa_opd_step_selection.py`, `algorithms/` | none | probe layout; step selection; losses, advantages | partly: the discrete parts |
| sequence balancing | `V/utils/seqlen_balancing.py` | none | Karmarkar-Karp, reordering, micro-batches and back | partly |
| progress logger | `utils/progress_logger.py` | last step written | filter a stream | not modelled |
| launcher and entry points | `scripts/run_training.sh`, `runners/*_entrypoint.py` | none of their own | start processes | not modelled |
| ERSR and OA-OPD estimation runners | `tests/run_ersr_mc.py`, `finalize_ersr_mc.py`, `run_oa_opd_h20_avg128.py` | append-only shards | run, resume, finalise | not modelled |
| dataset, prompts, rewards, verifier | `utils/custom_dataset.py`, `prompts.py`, `math_*.py`, ... | none | text handling | not modelled |
| FSDP resharding | `utils/reshard_fsdp_checkpoint.py` | none | offline tensor layout, one process | not modelled |
| configurations, data | `configs/` | - | - | not modelled; the values that matter are constants |
| rest of verl | `verl/` | - | other trainers, engines, kernels | not modelled |

### How they interact

- The driver and the agent-loop workers share no memory. They meet in the
  TransferQueue (a key-value store with tags) and, on the driver's side, in the
  ReplayBuffer, which a thread refreshes with snapshots of the queue's tags. The
  driver writes the same ReplayBuffer entries directly when it dispatches and
  when it cleans up.
- The rollout replicas and the actor share the GPUs: replicas sleep from the end
  of sampling to `update_weights`. In the fully asynchronous mode they do not:
  the Trainer aborts what the replicas generate, sends them new weights and
  resumes them, and the clients ask again for what is missing.
- Rollouter and Trainer meet in a MessageQueue actor and in `reset_staleness`,
  which the Trainer calls on the Rollouter and which takes the same
  `asyncio.Lock` as the Rollouter's own coroutines.
- A saved checkpoint reaches a later life of the run only through the files and
  `latest_checkpointed_iteration.txt`; it reaches evaluation as a directory that
  is merged into a Hugging Face model.
- An evaluation's driver and workers share two multiprocessing queues. The
  driver sees a worker's death only by looking at exit codes, and looks only
  when the result queue has been silent for 15 s.
- Supervisor, evaluation and training are separate programs that see each other
  through lock files, process lists, signals and `SUCCESS.json`.

### What is hard in it, and what makes it correct

- *Rollout.* The poll thread applies a snapshot later than it took it; keys are
  cleared in one store, then removed from the other; sessions outlive their
  prompt when a sibling fails; the marker and the outputs of a prompt travel
  separately. Correct means: a batch has every output of its prompts that
  finished and nothing of other batches; nothing is used twice; what the driver
  holds stays readable; what it used is freed; the run ends.
- *Fully asynchronous training.* Five coroutines interleave at every await over
  counters they read before it; pausing, the end signal and the last save race
  with generations under way. Correct means: the bound on stale samples holds,
  the end signal really is the last thing, the last steps are saved, nobody
  waits for ever.
- *Serving and weights.* Releases are messages that arrive late, servers leave
  and return, a synchronisation aborts calls that come back; buffers are
  received into again while views of them are still being copied. Correct means:
  counts are exact, weights change only under idle engines - or, where an abort has
  failed unnoticed, under that engine only -, every engine gets exactly the weights
  that were sent.
- *Checkpoints.* A crash between any two file operations; ranks at different
  points of the same save; pruning before the new checkpoint is tracked; a save
  over what an earlier life left half written. Correct means: the tracked
  checkpoint is always whole and the next life goes on from exactly it.
- *Evaluation.* A worker dies with a batch in its hand or answers not yet sent;
  a worker that leaves looks like one that died; orphans of a killed driver go
  on writing shards and hold their GPUs. Correct means: results are whole or not
  reported, no false alarm, no wait for ever; a summary never claims more than
  there is; results of earlier attempts are kept.
- *Supervision.* Between fork and exec an evaluator has its watcher's command
  line, and its lock until it closes what it inherited; a watcher acts on a process
  list it read earlier. Correct means: one evaluator at a time and none after success,
  but for a child that nothing could show, and a pause that stops it.
- *Index algorithms.* Shifts by one between prediction and token, prompts of
  different lengths, overlapping groups, ties in a partition.

`PROJECT.json` lists the hazards one by one, at their lines, with the properties
that cover them or the reason why none does.

## 2. Modules

| module | what it is |
|---|---|
| `StepLedger` | what the rollout pipeline promises its consumers: outputs of finished prompts are consumed exactly once, with their own batch; it counts every use |
| `SyncRollout` | the pipeline in detail; `Ledger == INSTANCE StepLedger` is its refinement mapping |
| `FullyAsync` | Rollouter, MessageQueue and Trainer of the fully asynchronous mode |
| `ServingPool` | clients, load balancer, engines and weight synchronisation as requests see them |
| `WeightTransfer` | one synchronisation byte by byte, from the Trainer's chunks to the engines |
| `DurableTraining` | what checkpointing promises: a run goes on from the state it committed last |
| `CheckpointResume` | saving, rotation, crashes and resumption in detail; implements `DurableTraining` |
| `EvalEngine` | `evaluate_model`, `_await_messages`, `_stop_workers` and `_gpu_worker`: variables and actions that a caller completes |
| `CheckpointEvaluation` | `main` and `prepare_model` of `evaluate_checkpoints.py` over `EvalEngine` |
| `ModelEvaluation` | `main` of `evaluate_models.py` over `EvalEngine`, with kills and second starts |
| `ShardLedger` | what a resumable evaluation promises: results stay, nothing is aggregated or declared early |
| `RepeatedEval` | `evaluate_repeated_avg16.py` over several attempts; implements `ShardLedger` |
| `EvalSupervisor` | watchers, waiter, guard, evaluators as processes, training |
| `ProbeLayout`, `StepSelection`, `TeacherAlignment`, `SequenceBalance` | algorithms as operators, each with a reference definition |
| `Algorithms` | the state machine that applies them to cases; the loops of `ProbeLayout` and `TeacherAlignment` take a step per turn |
| `MC...` | the instances TLC checks |
| `...Proofs` | theorems of the modules they extend; `EvaluationProofs` of both evaluations, `RepeatedEvalProofs` of the repeated evaluation and its supervisor |

How they compose: `FullyAsync` takes the synchronisation as one step of the
Trainer that suspends generation, `ServingPool` opens it up into abort, load and
resume over single calls, `WeightTransfer` opens up the load. `EvalSupervisor`
takes an evaluator as something that succeeds, fails or is killed, `RepeatedEval`
is that evaluator and takes the watcher as whoever starts it again.
`EvalEngine`'s two callers share its variables and actions.

### SyncRollout

Three groups of processes take steps in any order.

- *Driver.* `pc` is the place in `fit`, `step` and `_validate`; `globalSteps`,
  `part` (training or validation batch), `curUids`, `batch` (the keys of the
  `KVBatchMeta` held, for training and for the validation nested in it),
  `valLeft`. Actions in program order: `BeginFit`, `MarkPending`,
  `AwaitDispatch`, `SampleBatch`, then for training `SleepReplicas`,
  `BalanceBatch` or `BalanceNothing`, `UpdateActor`, `UpdateWeights`, and for
  validation `FetchScores` or `FetchNothing`; then `ClearStored`,
  `RemoveBuffered`, and at the end `StopPolling`, `CloseQueue`.
- *Agent-loop workers.* Per prompt `StartPrompt`, `FinishPrompt`, `FailPrompt`;
  per session `Generate`, then `PutOutputs`, `PutNothing` or `FailSession`.
  `FailPrompt` needs one failed session only and leaves its siblings running:
  `asyncio.gather` without `return_exceptions` does so.
- *Poll thread.* `PollCheck`, `PollList` (the snapshot), one `PollAdd` per
  partition (the lock is taken once per partition).

`tq` and `rb` map keys to tags. A key is a uid and a slot: slot 0 is the prompt's
own key (its marker), slots from 1 its sessions' outputs, and for the uid drawn
by padding the padding samples. The TransferQueue is external; its `kv_put`,
`kv_clear` and `kv_list` are taken to be atomic. A tag put without
`global_steps` keeps the old entry's, because `ReplayBuffer.add` updates the
dictionary; this is why `MarkPending` has to come before the worker's marker,
and `BufferedTagsHaveStep` says that it works out. What a `BalanceBatch` puts in
the queue is a copy of a sampled tag. `used` counts uses and is for the
properties only.

`Generate` needs the replicas awake. `SleepReplicas` has no other guard, because
the code has none: sessions of a failed prompt may then find the engine asleep,
wait, and go on after `UpdateWeights`; that a request is aborted instead is
`FailSession`. An empty validation batch may be read or may raise
(`FetchNothing`): what the queue answers for no keys is not in `src/`.

Left out: the samples' contents, ReMax's baseline sampling, the critic, the old
log-probabilities and advantages (local to the driver), deaths of whole worker
actors (nothing in the code recovers from one; `sample()` then waits for ever).

### FullyAsync

The Rollouter is one asyncio loop; `proc`, `main`, `monitor` and the tasks are
its coroutines, and every `await` is a place where another may go on. `procSeen`
and `monSeen` are queue sizes that were asked for before and are used after the
call's `await`. `lock` is the one `asyncio.Lock`; `staleness`, `paused` and `event`
are the fields it protects, some of the time. Samples are counted, not named. The
Trainer collects `Required` samples, trains, and after `Trigger` local steps
synchronises (`Abort`, `Resume`), resets the staleness (`ResetBegin`,
`ResetCount`) and perhaps saves; having met the end signal (`Stop`) it
synchronises once more - when the version is not one to be validated and no local
step is pending, as `fit`'s two conditions together say - and saves whatever the
frequency (`Save`). `base` and `since` are
helpers of `RolloutNumBounded` only: what was outstanding at the last reset and
what has been submitted since.

`gather(return_exceptions=True)` swallows a failed generation: its sample is
simply missing, which `EndIsLast` therefore excludes and `TrainingEnds` does not.
Left out: validation results, metrics, profiling, the restoration of a saved
Rollouter, old-log-prob snapshots, `partial_rollout=False` (an abort then returns
a truncated sample).

### ServingPool

One action per balancer method (it is one Ray actor), per client step and per
step of a synchronisation, which is a sequence of commands in `program`: pause,
load, resume, and around a trainer-side validation wake, register, remove, sleep.
`releases` are release messages under way. A request is a conversation of
`Turns[r]` calls; an aborted call is asked again. `weights` and `seen` are versions.
Engines keep calls that reach them while paused (`pause_generation` of
vLLM >= 0.12; with older versions pausing is a no-op in this code and the model
does not apply).

An abort can fail without anybody noticing: `abort_all_requests` catches every
exception and returns it as a result (`vllm_async_server.py`, 821-823), and neither
the replica (`replica.py`, 275) nor the manager (`checkpoint_engine/base.py`, 444)
looks at results. `AbortRaises` is that path: the engine is paused or not, any part
of its requests is aborted, and the synchronisation goes on. `unaborted`
remembers the servers it happened to until they are resumed; no code keeps it,
and no guard reads it: the two properties that fail without it name it as their
exception. `Faulty` bounds the synchronisations in which it may happen.

Left out: a transfer that fails, a server process that dies, statistics, the LRU
table beyond `CacheSize` entries. Before `release_kv_cache` and `sleep` the vLLM replica
waits until its engines report that they are idle (1137 and 1184). The model does
not wait, which is what a build does whose engines never report otherwise; one that
does wait only delays `Load` and `Sleep`, or ends the training when the wait times
out, which is not modelled.

### WeightTransfer

The Trainer's rank 0 fills `send_buf` with chunks, exchanges its two buffers and
broadcasts; each worker receives into one buffer while its generators pass on
views into the other; copies of those are queued on its CUDA stream (`RunCopy`
runs one, at any later moment). A weight that spans buckets is put together in
memory of its own. Bytes are named `<<weight, i>>`, so a byte from the wrong
weight, place or generation of a buffer shows. Left out: the nixl, mooncake and
kimi engines, the shared-memory transport, LoRA per bucket, quantised reloading,
a subscriber that joins late and a process that dies (the broadcast would then
block for ever).

### CheckpointResume

`pc` is the driver's place, `rankPc` that of each rank inside
`save_checkpoint`. A rank's memory and a file hold *snapshots*: the step trained
to and the life that trained it, so that shards of two lives at the same step
can be told apart. `Prepare`, `SaveFile`, `Register` are the manager's three
phases between barriers (`ensure_checkpoint_capacity`, the three files each
renamed into place, `register_checkpoint`); `OpenData`, `WriteData`,
`OpenTracker`, `WriteTracker` are the driver's writes, split where the file is
truncated and not yet written. `Crash` may fall between any two of them and
clears everything but the disk. `StartFromScratch`, `Resume` and `RefuseStart`
are the three things a start can do; `StartAgain` starts a run that had finished.

Left out: the critic's folder, Hugging Face export, asynchronous and HDFS saves,
the epoch counter. Removing a checkpoint is one step: a crash halfway leaves
fewer files of a checkpoint the model has already removed entirely, and, for
`Keep # 1`, never one that is tracked (`TrackedIsNewest`).

### EvalEngine and its callers

`engine` is the driver's place in `evaluate_model`, `worker` the state of each
process. `unsent` is the buffer of a worker's queue feeder thread: an answer put
by a worker is on its way only after `Send`, and is lost if the process dies
before. A process that returns flushes it first (`Leave`). `GetTimesOut` and
`CheckExits` are two steps, as in the code: a message may arrive in between.
`Joined` and `Abort` end every process (join with a timeout, then terminate).

`CheckpointEvaluation` adds the merge, the result file and a `Kill` of the driver
alone. `ModelEvaluation` adds the summary in memory and on disk, one result per
model, kills and second starts. Both use the one engine, as the programs do.

Left out: configuration and discovery of checkpoints (validated before anything
starts), scoring arithmetic, I/O errors of the result writes.

### RepeatedEval

`pc`, `model`, `seed` are the driver's loops; `proc`, `holds` and `jobQueue` are
kept per *life*, because a killed driver's workers go on. A shard is known by the
life that wrote it, a summary by the shards it was made of, so that "the same
results whoever computed them" can be said. `KillGroup` is a signal to the
process group, `KillDriver` one to the driver alone. The ledger it implements is
stated over the shards present, the aggregates and `SUCCESS.json`.

Left out: the contents of a shard and its validation, configuration checks, the
arithmetic of the summaries.

### EvalSupervisor

A keeper (waiter or guard) starts watchers; a watcher takes the lock, lists the
evaluators, looks for `SUCCESS.json`, decides, and forks. `evaluator` goes through
"forked" (a copy of the watcher, with its file table - the lock included - and its
command line), "closed", "running", "ending", "gone". "closed" lies between
`CloseFds` and `Exec`: `subprocess.Popen` closes inherited descriptors in the child
(`close_fds` is its default) before `execve`, so for a moment the child has neither
the lock nor a command line that `pgrep` finds. `child` is the evaluator whose
`Popen` a watcher waits for. `missed` remembers which evaluators the waiter's list
could not contain, `unseen` the same of a watcher's list. Training jobs come and go.
Sleeps are stutters.

Left out: the waiter's test that the GPUs are free, backoff times, `--once`,
`--no-restart`, evaluators started by hand.

### The algorithms

Each is translated as operators over cases and compared with a definition that
does not use its steps: `ProbeLayout` with one separate prefix-and-probe sequence
per boundary (tokens, positions, attention, scored rows) and the ragged form the
worker uses with the dense mask; `StepSelection` with the existence of disjoint
groups at a margin, judged from the steps; `TeacherAlignment` with the pairing
"row t is about token t of this response", whatever the prompts' lengths;
`SequenceBalance` with the properties of a partition: everything exactly once, no
part empty, equal numbers of micro-batches on all ranks, loads within one
sequence of each other, results back in order.

`Algorithms` takes one case and computes its answer. The loops over branches and over
samples are steps: `LayRollout` and one `LayProbe` per boundary build the layout,
`GatherProbe` and `CutProbe` are the two loops of the worker around its forward,
`PackScores` packs a sample's scores and inputs, `CutScores` cuts a sample's rows for
the loss. What holds at every turn can then be an inductive invariant. The
partition and the selection are one step per function.

The losses and advantages themselves are arithmetic on reals and are left out.
So are top-k columns and non-causal teachers, `greedy_partition`,
`force_group_size` above 1, `num_batches_divided_by` and `min_num_micro_batch`.

## 3. Model checking

| run | constants | distinct states | question |
|---|---|---|---|
| `rollout_steps` | 2 prompts x 2 sessions, multiple 3, 2 training steps | 1,676,590 | is every batch complete, are the held keys readable, do tags keep their step, is all but late output freed? |
| `rollout_validation` | 1 prompt x 2 sessions, multiple 3, validation before training and in the step | 453,973 | does the pipeline implement `StepLedger`, does the cleanup of a padded batch free it, does the run end? |
| `rollout_two_val_batches` | 2 validation batches | - | *violated*: do cleaned-up keys stay away? |
| `checkpoint_recovery` | 2 ranks, 5 steps, saved every 2, keep 2, 3 lives | 6,778 | is the tracked checkpoint whole, does a life go on from it exactly, is retention kept, does the run finish? |
| `eval_run` | 2 workers, 3 batches, 2 checkpoints, 2 faults | 89,366 | whole results, no false alarm, nothing left, no wait for ever |
| `eval_models` | 2 workers, 2 batches, 2 models, 1 fault, 2 attempts | 9,627 | is the summary honest, are attempts kept apart? |
| `repeated_eval` | 2 GPUs, 2 models x 2 seeds x 2 batches, 3 lives, 1 fault, 1 signal | 362,219 | does it implement `ShardLedger`, do the attempts end in success? |
| `supervisor` | waiter and guard, 5 evaluators, 1 training job, 1 failure or kill | 1,109,036 | one evaluator and none after success but beside what could not be seen, complete pauses, success in the end |
| `async_pipeline` | 11 samples, steps of 2, synchronisation every 2, queue 6, 2 concurrent, 1 failure | 778,380 | the staleness bound, the end signal, the last save, the end |
| `serving` | a standalone and a hybrid server, requests of 2 calls and 1, 2 versions, aborts of the first may raise | 639,282 | exact counts, loads under engines that are idle or could not be aborted, monotone versions, progress |
| `weight_transfer` | 2 workers, 4 weights of 1 to 3 bytes, buckets of 2 | 218,950 | every engine gets exactly what was sent, both ends return |
| `algorithms` | see `MCAlgorithms` | 62,709 | each algorithm against its reference |

The passing runs fire every action of their next-state relations.

**Why these bounds.**

- *Rollout.* What can go wrong is between *this* batch and the *one before* (two
  training steps, or the validations of steps 0 and 1), between *two sessions* of a
  prompt (one failing or slower) and between *two prompts* of a batch (one still
  running). A third of any of them meets the same guards. Multiple 3 makes a
  padding of 1 or 2 samples for batches of 4, 2 or 1 outputs and none for 3.
  `MaxUid = 4` bounds the uids, and a padding draws one: in `rollout_steps` a second
  step is explored only after a first batch that needed no padding, a padded first
  batch only up to the second step's dispatch. What follows a padded batch is
  covered by `rollout_validation` (the validation inside the padded step);
  an instance of `rollout_steps` with one prompt and `MaxUid = 5` (299,863 states),
  in which padded steps follow each other, is clean as well. The
  safety properties are proved without any bound (section 5).
- *FullyAsync.* Eleven samples are two synchronisations (two steps of two samples
  each) and a remainder that makes one more local step and one sample too few for
  the next: the cases of the last save and of the end signal. A queue of six is
  `Required * Trigger + MaxConcurrent`, the smallest for which the pipeline is live;
  a pending queue of one makes the feed wait.
- *Serving.* A pool of one permanent and one visiting server is the smallest in
  which a call can be routed away, stranded and released late; two synchronisations
  let a server leave and return; `CacheSize = 1` makes two requests evict each other.
  Any number of the first synchronisation's aborts may raise, and what they leave
  running meets the second. The same instance with raising aborts in both (2,731,178
  states) or with two calls of each request (2,116,323) is clean as well, but takes
  several minutes.
- *WeightTransfer.* Sizes 1, 2, 3 with buckets of 2 are a weight smaller than a
  bucket, equal to it, larger; four weights make every combination of them within
  three buckets and more, so both buffers are reused while copies are outstanding.
- *Checkpoints.* Two ranks suffice for one being ahead of the other; saves at steps
  2, 4 and 5 are more than the two kept, and three lives allow a crash in a re-save
  over what another crash left.
- *Evaluation.* Two workers compete for three batches, so one answers twice; two
  faults let every worker break; two models show what the first leaves to the
  second. In `repeated_eval` three lives and one signal allow an orphan of the first
  to write shards under the second, and a third attempt after its failure.
- *Supervisor.* Five starts suffice for a failed or killed evaluator, a paused one, one
  started beside another and their successors; the run's liveness property would show it
  if they did not. One kill is enough to end a watcher while its child is invisible, and
  a pause can do it too.
- *Algorithms.* Every input up to the bounds, which include empty branches, steps
  that end at the last token, responses that qualify both ways, more responses than a group takes, all length ties, and
  prompts of three lengths on either side.

**Fairness.** All of it is weak fairness: no action the properties need is
disabled and enabled again for ever.

- `SyncRollout`: the driver, the poll thread and every asyncio task keep being
  scheduled, a request to an engine that is awake is answered, and a session ends -
  how it ends is not constrained, so `RunEnds` holds also when everything fails.
  This assumes that the worker actors stay alive and that no request hangs; the code
  has no timeout for either.
- `FullyAsync`: each coroutine and actor goes on (the event loop runs every ready
  coroutine, `asyncio.Lock` is first come first served); nothing makes a generation
  fail.
- `ServingPool`, `WeightTransfer`: requests are served, messages arrive, the GPUs go
  on, no process dies.
- `CheckpointResume`: a started run makes progress and a stopped one is started
  again (within `MaxLives`); no crash is ever obliged to happen, or not to.
- `CheckpointEvaluation`, `RepeatedEval`: the driver and each living worker make
  progress, and the watcher starts the program again; faults and kills are never
  fair. A worker that hangs without exiting is excluded, because the code waits for
  it without bound.
- `EvalSupervisor`: loops and watchers go on, evaluators and training jobs end.

Three liveness properties have a condition, which names what the code cannot
recover from: `EndsUnlessTorn` (a torn tracker), `EndsInSuccess` of `RepeatedEval` (an
orphan), `EndsUnlessStranded` (a stranded call). Each condition is met by every behaviour without that one event.

**Deadlock** is checked in every run but two; a finished system stutters explicitly
(`Terminated`, `Finished`, `AllDone`, `Terminating`). `serving` may really stop, with a stranded
call or when all is done, and `algorithms` stops after each computation.

## 4. What the models show

One run is violated: *cleaned-up validation keys come back*
(`rollout_two_val_batches`). A snapshot taken before `tq.kv_clear` and added after
`replay_buffer.remove` restores the removed entries. In training they carry an old
`global_steps` and are ignored from then on (`ImplementsLedger`); validation batches of
one `_validate` share theirs, so the second `sample()` returns keys that no longer exist.
Only with `val_batch_size` set to give more than one batch; the default is one.

`ImplementsLedger` of the same instance is violated too: the ledger counts uses, and the
keys that come back are used a second time.

The other limits are visible in the models as conditions of properties, guards or
assumptions:

- *Rollout.* `sample()` may return while sibling sessions of a failed prompt still run;
  the replicas are put to sleep under them and their outputs arrive late
  (`OnlyLateOutputsLeak`). Markers are never cleared, so the queue and every poll grow
  with the run.
- *Checkpoints.* With one checkpoint kept, `Register` prunes the tracked one before
  the tracker names its successor. The tracker is not replaced atomically: a crash
  between truncation and write makes every later start fail. A finished run, started
  again, trains one step more. The list of saved paths does not survive a restart, so
  checkpoints of earlier lives are never rotated (`OwnCheckpointsBounded` speaks of one
  life).
- *Evaluation.* A killed driver leaves its merged model and its workers behind. Not
  modelled: a SIGINT just after `os.replace` of a model's results and inside the `try`
  (`evaluate_models.py`, 205-228) leaves the results beside a status "failed", which
  claims less than there is.
- *Repeated evaluation.* An orphan whose queue is empty waits for ever and keeps its
  GPU, on which no later attempt can load. A model with an `aggregate.json` is skipped
  whatever configuration made it.
- *Supervisor.* The waiter pauses the evaluation only inside the loop that monitors
  its own watcher; an evaluator of the guard's watcher is not paused. And there is a
  window in which a second evaluator can be started: a watcher that is killed after its
  child has closed the inherited lock and before the child's exec leaves a child nobody
  can find. The next watcher takes the lock, lists no process and forks another, into the
  same output directory; `OneEvaluator` without its exception (`d \in unseen[...]`) is
  violated that way in 18 steps. If the first then runs to its end before the second
  watcher forks, an evaluator is started after `SUCCESS.json`. The header of
  `watch_repeated_avg16.py` (3-6: "only restarts it when no evaluator process exists and
  the SUCCESS marker is absent") does not hold in this window. Where CPython forks with
  `vfork` the parent has all signals blocked until the exec, so that only SIGKILL can hit
  it there. The two properties except exactly the evaluators that were "closed" when the
  watcher listed the processes, and nothing else.
- *Fully asynchronous training.* Between two synchronisations one sample more than
  `max_required_samples` can be submitted (`docs/advance/fully_async.md` of verl,
  133-139, gives the bound without it): the processor has one in its hand when the
  staleness is counted. `reset_staleness` counts tasks that are over and not yet reaped,
  whose samples it counts in the queue as well (or which failed), so the staleness may
  be up to `max_concurrent_samples` too high: below `Required * Trigger + MaxConcurrent`
  the Rollouter can take itself for full while the Trainer waits for samples. Local steps after the last synchronisation are neither synchronised
  nor saved. `put_sample(None)` on a full queue drops the oldest sample.
- *Serving.* A call routed to a hybrid server between its abort and its removal is
  stranded there until the next validation. A release that arrives after its server
  came back makes the count too low (`CountIsExact` says only "at most" for hybrid
  servers). An abort that raises is not noticed: the weights are loaded while the engine
  generates, so that one answer is made of two versions (`LoadsOnlyIdle` without
  `unaborted` fails in 6 steps); and with two standalone servers whose aborts raise, one
  loaded and one not yet, a request that moves from the first to the second goes back to
  the older version (`VersionsMonotone` without its exception, 12 steps).
- *Balancing.* `rearrange_micro_batches` documents `max_token_len` as the maximum sum
  per micro-batch; the number of micro-batches is computed from it, but a balanced
  partition into that number may exceed it (lengths 2, 2, 2 with 3).

## 5. Proofs

TLAPS proves, for all values of the constants, every safety invariant that a passing run
checks except two of the algorithms', the action properties, and the three refinements.
TLC checked each inductive invariant on the instances of section 3 before it was proved.

**Assumptions.** Each module that is proved about names what it assumes of its constants;
TLC evaluates the assumptions in every run. All counts are naturals, positive where the
code could not run otherwise; beyond that:

- `EvalAssumption`, `RepeatedAssumption`, `ServingAssumption`: workers, GPUs, servers and
  requests are finite sets, there is a worker, a GPU and a standalone server, no server is
  both standalone and hybrid. `CheckpointAssumption`: rank 0 is a rank.
- `FullyAsyncAssumption`: `max_required_samples` is at least the samples of one
  synchronisation and at least `max_concurrent_samples`, as the Rollouter computes them.
- `TransferAssumption`: there is a worker, the Trainer's rank is none of theirs, and both
  ends use one bucket size.
- `RolloutAssumption`, `AttemptAssumption`, `SupervisorAssumption`: ranges only, and that
  keepers are the waiter and the guard.
- `ProbeAssumption`: what `build_masked_probe_layout` raises on otherwise - a prompt, answer
  tokens each behind another token of the probe, steps that end within the response.
  `BatchAssumption`: prompts and responses are not empty and fit the widths they are padded
  to. Nothing is assumed of the other cases.

Three theorems have a hypothesis of their own, each because the model shows the
property fails without it: `Keep # 1` for the tracked checkpoint (section 4),
`ValBatches = 1` for what the driver holds (`rollout_two_val_batches`), and the
condition `Keep > 1` inside `OwnCheckpointsBounded`.

**`SyncRolloutProofs`.** Three invariants, each on top of the one before.

- `TypeCorrect`: `TypeOK` is inductive.
- `SampleComplete`, `BufferedTagsStepped`, from `CompletenessInv`. `SampleIsComplete`
  alone says nothing of the time before the sample; the invariant follows an output
  through the three copies it passes. `TagsTellTruth` holds of the queue *and* of any
  snapshot, however old; `WaitedFor` says that while the driver waits, a copy that shows
  a finished prompt's marker has its outputs too, and that the marker in the buffer keeps
  its step and is never absent; `MarkersTellTruth` and `BatchesHoldNoMarker` keep it so
  through the cleanup of earlier batches.
- `OnlyLateOutputsEverLeak`, from `LeakInv`: outputs in the queue come from sessions that
  are over (`StoredAreYielded`), open prompts belong to the batch waited for
  (`OpenAreCurrent`), and what is stored and of no failed prompt is waited for or held in
  a batch that will be cleared (`LooseAreHeld`, with `PartFits` for where the driver is
  while it works on either partition).
- `SampledKeysAlwaysStored`, `PipelineImplementsLedger`, with one validation batch, from
  `HeldInv`. The danger is a snapshot older than a cleanup. What it brings back carries an
  older step or belongs to the other partition (`StepsInOrder`, `BufferTellsTruth`), so
  nothing the driver waits for has been cleared (`CurrentAreStored`), what it holds is
  still stored (`HeldAreStored`) and not used before (`UsedInOrder`). The mapping hands the
  ledger the number of uses of each output, so a second use would be a step it does not
  allow. With that every
  step of the pipeline is a step of `StepLedger` or a stutter: `MarkPending` offers a batch,
  the actor update or the fetch of scores consumes it.

**`CheckpointResumeProofs`.**

- `CheckpointTypeCorrect`, with `ProgressInv`, because a step number stays within its type
  only if each life overruns by at most one.
- `TrackedAlwaysWhole`, for `Keep # 1`, with `CheckpointInv`. `SavedFiles` follows each
  rank through its files and gives a whole set at the second barrier; `TrackedIsNewest`
  and `TrackerBehind` say that neither pruning nor a re-save touches the tracked step. With
  `Keep = 1`, `Register` prunes the last element of the list, which is the tracked one.
- `ResumesWhatWasCommitted`, for `Keep # 1`: every step of `CheckpointResume` is a step of
  `DurableTraining` or a stutter under `RunState` and `CommittedState`. Saving stutters up
  to `OpenTracker` (`BeginCommit`) and `WriteTracker` (`EndCommit`); `Resume` is `Begin`
  because the tracked checkpoint is whole.
- `OwnCheckpointsAlwaysBounded`, from `OwnInv`: what this life wrote is in its list of
  paths, or is the step being written once room has been made, and then the list is one
  shorter than the limit; a list has no more members than its length.

**`EvaluationProofs`**, for `CheckpointEvaluation` and `ModelEvaluation`.

- `EvaluationTypeCorrect`; `EvaluationReturnsComplete` from `EngineInv`, which says where
  each batch is - queued, in one worker's hand, or in one message - so that `NumBatches`
  messages answer `NumBatches` different batches, all of them by the pigeonhole principle;
  `EvaluationLeavesNothing` from `LeftInv`, the places of `pc` at which workers can live and
  a merged model can exist.
- `EvaluationGivenUpOnlyOnFault`, from `CalmInv`, about the time before the first fault: no
  worker is about to leave while it is awaited (`CalmWorkers`), each announces itself by
  one message that is in one place (`CalmLoading`), so when as many as there are workers
  have come, none is left to come among the answers (`CalmBatches`).
- `SummaryAlwaysHonest`, `AlwaysOneAttempt`, from `MainInv`: inside the loop the summary in
  memory is the one on disk, models before the current one are completed with results of
  this attempt, those after it are pending without (`MovesInOrder`); a directory is empty
  where the loop begins (`FirstIsEmpty`).

**`RepeatedEvalProofs`**, for `RepeatedEval` and `EvalSupervisor`. `LedgerImplemented`: every step of the attempts implements
`ShardLedger`. `FilesInv` says that each file is made of whole parts that are still there,
`LoopInv` that whatever the driver's loops have passed is on disk. The second is needed because
success is declared from the loop's position, not from a look at the files.

`OneEvaluatorAlways`, `FinishedStaysFinished` and `PauseAlwaysComplete`, of the
supervisor, from `SupervisorInv`, which holds the types and three facts.
*The lock*: at most one watcher is past it (`OneHolder`), and while a forked child
has its copy, only the child's own watcher is, and it waits for that child
(`ForkedHolds`). *What a watcher saw*: when one that listed no process acts, every
evaluator there is was "closed" at its listing, and if there is a `SUCCESS.json`, one
of those has written it (`SeesTruth`) - nobody else could start one or write the file.
`StartsAreForks` says that whoever starts an evaluator is such a watcher.
*The pause*: once past `StopWatcher` the waiter has no watcher, and past the kills
no evaluator of its own but a child `pgrep` missed (`PauseStops`).

**`FullyAsyncProofs`**, from one invariant in five parts.

- `RolloutAlwaysBounded`: `QuotaInv` relates what was really submitted since the last
  synchronisation (the history `base + since`) to the counter the code compares: they
  differ by at most the sample in the processor's hand. It needs `LockInv`, that
  `reset_staleness` counts tasks while the lock keeps the processor from reaping them.
- `EndAlwaysLast`: `EndInv` follows the end signal from the processor's last task to the
  Trainer; while no generation failed, nothing is put behind it.
- `TailAlwaysSaved`: `SaveInv` relates the saved version and its samples to the current
  ones; `HandInv` says what the Trainer holds between steps.

**`ServingPoolProofs`**, from `ServingInv`.

- `CountAlwaysExact` (`CountInv`): the count of a server is the cardinality of the calls it
  holds plus the releases under way, each action moving one between the three.
- `LoadsAlwaysIdle` (`PlanInv`): what is left of a synchronisation's program keeps its order
  - stop, load, wake, sleep - and its progress is told by `paused`, `unaborted`, `asleep`
  and `todo` (`PlanInOrder`, `Waiting`, `AsleepOutside`, `PausedIsQuiet`,
  `StoppedBeforeLoad`): before the load every standalone server has been told to stop, and
  one that still generates is one whose abort raised.
- `VersionsNeverGoBack` (`VersionInv`, `Answering`): before the first load nothing has been
  generated with the new weights, while servers are loaded only those answer whose abort
  raised, and afterwards nothing is generated with older ones.

**`WeightTransferProofs`.** `DeliveredExactly`, from `TransferInv`; any ranks, any sizes of
weights, any bucket size. It follows a chunk from the Trainer's buffer through the
broadcast, the two receive buffers and the bucket being read: these four follow each
other without a gap, and each chunk lies where its metadata says, in the one memory or the
other (`TrainerInv`, `ReceiveInv`). Beyond, weights are numbered without a gap through what
is held, packed, requested and loaded (`OrderInv`). In between no byte need be in place yet:
`Coming` says that a byte is there already *or* a queued copy will write it, and that no queued
copy writes another over it, out of a buffer that stays as it is (`PackInv`). That is what
the `synchronize` calls before a bucket is reused or handed on protect.

**`AlgorithmsProofs`**, from `AlgorithmsInv`, which says at each turn of a loop what the
turns so far have established. Induction over the data becomes induction over the steps.

- `ProbesStayIndependent`, for any rollout, any set of boundaries (also equal or unordered
  ones) and any probe. `LayoutInv`: the rollout comes first, each branch starts where the
  one before it ends and has its probe's tokens and the positions after its prefix. From
  this alone follow that the worker accepts the layout (`LayoutIsAccepted`), that a row
  belongs to one branch (`OneBranch`), what a row of the rollout and of a probe sees through
  the causal segments (`RolloutSees`, `ProbeSees`), that this is what the dense mask says
  (`LayoutIsDense`) and what the sequence probed alone would have (`BranchIsAlone`).
  `ScoresInv`: the predictors of branch `i` begin at `(i - 1)` times the number of answer
  tokens, so the offset that the second loop adds up cuts each branch's own.
- `TeacherScoresStayAligned`, for any lengths. `BatchInv`: padded and unpadded the batch is
  the jagged one, and before each sample's offset lie its inputs and, one row earlier, its
  scores; a sample packed later moves neither. The student's roll by one wraps around only
  in the last row of the flat batch, which no response row is.

**Only model-checked.** Liveness: `RunEnds`, `EndsUnlessTorn`, `EvaluationEnds`,
`EndsInSuccess`, `SupervisionSucceeds`, `TrainingEnds`, `EndsUnlessStranded`,
`TransferEnds` (the provers handle neither fairness nor `ENABLED`). `SelectionIsPossible`
and `PartsAreBalanced`: what they state is computed by sorts, folds, minima and maxima over
the whole input, and what these compute for every input takes induction over the input,
whose theorems the provers cannot instantiate.
`CleanedUpKeysStayGone` is the property that fails. No module uses `RECURSIVE`.

## 6. Not modelled

- *Model-queue runner*: one worker per GPU takes models from a queue filled once;
  the driver counts messages without a timeout. It is `EvalEngine` without the
  failure handling; the hazards list says what follows from that.
- *ERSR and OA-OPD estimation runners*: resumable jobs with append-only shards, close
  in design to `RepeatedEval`, whose ledger states what they promise too.
- *Losses, advantages, kernels, engines*: tensor arithmetic on reals and third-party
  integrations, most of them not run by this repository's methods.
- *Text handling* (dataset, prompts, rewards, verifier), *progress logger*, *launcher*,
  *FSDP resharding*: sequential, without shared state; unit tests reach them.
- Within the modelled parts, what each section above names under "left out".

## 7. Plan

Modelled in the order of importance: rollout, checkpoints, evaluation, then the
repeated evaluation and its supervisor, the asynchronous mode, serving and weights,
the algorithms. Proved in the same order; each safety invariant of a component with
state is now a theorem, and so is the index algebra of `ProbeLayout` and `TeacherAlignment`.

What remains worth doing: `StepSelection` and `SequenceBalance` could be opened into steps as
the other two were, one greedy choice and one merge a step, with the spread of a partial
partition as the invariant. Of the models, the model-queue runner and the ERSR runners would
be new callers of `EvalEngine` and of `ShardLedger`.
