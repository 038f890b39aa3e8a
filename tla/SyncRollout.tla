---------------------------- MODULE SyncRollout ----------------------------
(***************************************************************************)
(* The synchronous rollout pipeline of verl/verl/trainer/main_ppo_sync.py. *)
(*                                                                         *)
(* The driver (PPOTrainer.fit, step and _validate) marks the prompts of a  *)
(* batch as running in its ReplayBuffer, hands them to the agent-loop      *)
(* workers and waits, in ReplayBuffer.sample, for the markers to leave     *)
(* "running".  Every prompt runs RolloutN sessions; a session writes its   *)
(* outputs to the TransferQueue, and the prompt writes its marker when     *)
(* asyncio.gather over the sessions returns or raises.  A polling thread   *)
(* copies the TransferQueue's tags into the ReplayBuffer, one kv_list()    *)
(* snapshot at a time.  When a batch has been used the driver clears its   *)
(* keys from the TransferQueue first and from the ReplayBuffer next.       *)
(*                                                                         *)
(* Abstractions.  A prompt's uid is a fresh number instead of a uuid4.     *)
(* The outputs of one session are put by one kv_batch_put, so one key      *)
(* <<uid, session>> stands for all its {uid}_{session}_{i} keys; the slot  *)
(* MarkerSlot is the prompt's own key, its marker.  A sample's tensors are *)
(* left out, only tags remain.  The TransferQueue is external: kv_put,     *)
(* kv_clear and kv_list are atomic.                                        *)
(***************************************************************************)
EXTENDS Integers, FiniteSets

CONSTANTS
    MaxUid,            \* bound: uids the whole run may draw
    PromptsPerBatch,   \* prompts in one batch of either data loader
    RolloutN,          \* sessions per prompt (rollout.n, val_kwargs.n)
    BatchMultiple,     \* _get_required_batch_multiple
    TotalSteps,        \* total_training_steps
    TestFreq,          \* trainer.test_freq; 0: never validate while training
    ValBeforeTrain,    \* trainer.val_before_train
    ValBatches         \* length of val_dataloader

ASSUME RolloutAssumption ==
    /\ MaxUid \in Nat \ {0}
    /\ PromptsPerBatch \in Nat \ {0}
    /\ RolloutN \in Nat \ {0}
    /\ BatchMultiple \in Nat \ {0}
    /\ TotalSteps \in Nat \ {0}
    /\ TestFreq \in Nat
    /\ ValBeforeTrain \in BOOLEAN
    /\ ValBatches \in Nat \ {0}

Uid == 1 .. MaxUid
Session == 1 .. RolloutN
MarkerSlot == 0
Slot == 0 .. RolloutN + BatchMultiple      \* sessions, or padding samples
Key == Uid \X Slot
Marker(u) == <<u, MarkerSlot>>
Partition == {"train", "val"}
Step == 0 .. TotalSteps
NoStep == -1

\* A tag, as kept by the TransferQueue and by the ReplayBuffer.  gs is the
\* "global_steps" entry, NoStep when the tag has none.
Tag == [gs : Step \cup {NoStep},
        status : {"absent", "running", "finished", "failure", "success"}]
Absent == [gs |-> NoStep, status |-> "absent"]
MarkerTag(status) == [gs |-> NoStep, status |-> status]
StepTag(gs, status) == [gs |-> gs, status |-> status]

VARIABLES
    \* the driver thread
    pc,            \* where fit/step/_validate stand
    globalSteps,   \* self.global_steps
    part,          \* partition of the batch the driver is working on
    curUids,       \* uids of that batch
    valLeft,       \* validation batches still to run
    batch,         \* the KVBatchMeta keys held, per partition
    nextUid,       \* next fresh uid
    awake,         \* rollout replicas can generate
    failed,        \* fit raised
    \* the agent-loop workers
    prompt,        \* uid -> partition, step and state of _run_prompt
    session,       \* uid, session -> state of _run_agent_loop
    \* the stores
    tq,            \* TransferQueue: key -> tag
    tqOpen,        \* tq.close() not called yet
    rb,            \* ReplayBuffer.partitions: key -> tag
    \* the polling thread
    poller,        \* idle, listing, adding, stopped, exited
    snapshot,      \* result of the last kv_list()
    toAdd,         \* its partitions not yet added
    stopSet,       \* _stop_event
    \* observation only
    used           \* key -> how often it was trained on or scored

driverVars == <<pc, globalSteps, part, curUids, valLeft, batch, nextUid,
                awake, failed>>
workerVars == <<prompt, session>>
pollVars == <<poller, snapshot, toAdd>>
vars == <<driverVars, workerVars, tq, tqOpen, rb, pollVars, stopSet, used>>

-----------------------------------------------------------------------------
(* Helpers                                                                 *)

PromptOf(k) == prompt[k[1]]

FreshPrompt == [part |-> "train", step |-> 0, status |-> "fresh"]

Stored(k) == tq[k].status # "absent"

\* Mutant: the tags replace the entry instead of updating it.
Updated_Replaced(old, new) == new

\* ReplayBuffer.add for one key: partition[key].update(tags).
Updated(old, new) ==
    [gs |-> IF new.gs = NoStep THEN old.gs ELSE new.gs,
     status |-> new.status]

\* Keys of a store set to the tags a put, add or clear gives them.
Overwrite(store, keys, tag) == [k \in Key |-> IF k \in keys THEN tag ELSE store[k]]

\* Mutant: one step too many.
IsLastStep_OffByOne(step) == step > TotalSteps

IsLastStep(step) == step >= TotalSteps

ValidatesAfter(step) ==
    /\ TestFreq > 0
    /\ IsLastStep(step) \/ step % TestFreq = 0

PadCount(keys) == (BatchMultiple - (Cardinality(keys) % BatchMultiple)) % BatchMultiple

-----------------------------------------------------------------------------
Init ==
    /\ pc = "start"
    /\ globalSteps = 0
    /\ part = "train"
    /\ curUids = {}
    /\ valLeft = 0
    /\ batch = [p \in Partition |-> {}]
    /\ nextUid = 1
    /\ awake = FALSE                      \* init_workers ends in sleep_replicas
    /\ failed = FALSE
    /\ prompt = [u \in Uid |-> FreshPrompt]
    /\ session = [u \in Uid |-> [s \in Session |-> "none"]]
    /\ tq = [k \in Key |-> Absent]
    /\ tqOpen = TRUE
    /\ rb = [k \in Key |-> Absent]
    /\ poller = "idle"
    /\ snapshot = [k \in Key |-> Absent]
    /\ toAdd = {}
    /\ stopSet = FALSE
    /\ used = [k \in Key |-> 0]

-----------------------------------------------------------------------------
(* The driver                                                              *)

\* fit: update_weights, then the validation before training or step 1.
BeginFit ==
    /\ pc = "start"
    /\ pc' = "mark"
    /\ awake' = TRUE
    /\ IF ValBeforeTrain
          THEN part' = "val" /\ valLeft' = ValBatches /\ globalSteps' = 0
          ELSE part' = "train" /\ valLeft' = 0 /\ globalSteps' = 1
    /\ UNCHANGED <<curUids, batch, nextUid, failed, workerVars, tq, tqOpen, rb,
                   pollVars, stopSet, used>>

\* AgentLoopManagerTQ.generate_sequences: draw the uids and mark them as
\* running in the replay buffer, before any worker sees them.
MarkPending ==
    LET uids == nextUid .. nextUid + PromptsPerBatch - 1 IN
    /\ pc = "mark"
    /\ uids \subseteq Uid
    /\ pc' = "dispatch"
    /\ curUids' = uids
    /\ nextUid' = nextUid + PromptsPerBatch
    /\ prompt' = [u \in Uid |->
                    IF u \in uids
                    THEN [part |-> part, step |-> globalSteps, status |-> "pending"]
                    ELSE prompt[u]]
    /\ rb' = [k \in Key |->
                IF k[1] \in uids /\ k[2] = MarkerSlot
                THEN Updated(rb[k], StepTag(globalSteps, "running"))
                ELSE rb[k]]
    /\ UNCHANGED <<globalSteps, part, valLeft, batch, awake, failed, session, tq,
                   tqOpen, pollVars, stopSet, used>>

\* ray.get over the workers' generate_sequences: every chunk is accepted.
AwaitDispatch ==
    /\ pc = "dispatch"
    /\ \A u \in curUids : prompt[u].status # "pending"
    /\ pc' = "sample"
    /\ UNCHANGED <<globalSteps, part, curUids, valLeft, batch, nextUid, awake, failed,
                   workerVars, tq, tqOpen, rb, pollVars, stopSet, used>>

\* Mutant: entries of every step are looked at.
InSample_AnyStep(k) == PromptOf(k).part = part

\* The entries ReplayBuffer.sample looks at: its partition, this global step.
InSample(k) == PromptOf(k).part = part /\ rb[k].gs = globalSteps

\* should_wait
HoldsBackSample(k) == InSample(k) /\ rb[k].status = "running"

SampleBatch ==
    /\ pc = "sample"
    /\ \A k \in Key : ~HoldsBackSample(k)
    /\ batch' = [batch EXCEPT ![part] =
                    {k \in Key : InSample(k) /\ rb[k].status = "success"}]
    /\ pc' = IF part = "train" THEN "sleep" ELSE "fetch"
    /\ UNCHANGED <<globalSteps, part, curUids, valLeft, nextUid, awake, failed,
                   workerVars, tq, tqOpen, rb, pollVars, stopSet, used>>

SleepReplicas ==
    /\ pc = "sleep"
    /\ awake' = FALSE
    /\ pc' = "balance"
    /\ UNCHANGED <<globalSteps, part, curUids, valLeft, batch, nextUid, failed,
                   workerVars, tq, tqOpen, rb, pollVars, stopSet, used>>

\* Mutant: the padding samples are in the batch but never put.
PutPadding_Forgotten(pads) == tq

PutPadding(pads) == Overwrite(tq, pads, StepTag(globalSteps, "success"))

\* _balance_batch: upsample to a multiple with padding samples under a fresh
\* uid, whose tag is a copy of a sampled one.
BalanceBatch ==
    LET pads == {<<nextUid, i>> : i \in 1 .. PadCount(batch["train"])} IN
    /\ pc = "balance"
    /\ batch["train"] # {}
    /\ pads \subseteq Key
    /\ pc' = "update"
    /\ batch' = [batch EXCEPT !["train"] = @ \cup pads]
    /\ tq' = PutPadding(pads)
    /\ IF pads = {}
          THEN UNCHANGED <<nextUid, prompt>>
          ELSE /\ nextUid' = nextUid + 1
               /\ prompt' = [prompt EXCEPT ![nextUid] =
                               [part |-> "train", step |-> globalSteps, status |-> "padding"]]
    /\ UNCHANGED <<globalSteps, part, curUids, valLeft, awake, failed, session, tqOpen,
                   rb, pollVars, stopSet, used>>

\* No sample at all: get_seqlen_balanced_partitions asserts, fit raises.
BalanceNothing ==
    /\ pc = "balance"
    /\ batch["train"] = {}
    /\ pc' = "closing"
    /\ failed' = TRUE
    /\ UNCHANGED <<globalSteps, part, curUids, valLeft, batch, nextUid, awake,
                   workerVars, tq, tqOpen, rb, pollVars, stopSet, used>>

UpdateActor ==
    /\ pc = "update"
    /\ used' = [k \in Key |-> IF k \in batch["train"] THEN used[k] + 1 ELSE used[k]]
    /\ pc' = "weights"
    /\ UNCHANGED <<globalSteps, part, curUids, valLeft, batch, nextUid, awake, failed,
                   workerVars, tq, tqOpen, rb, pollVars, stopSet>>

\* checkpoint_manager.update_weights, then the validation of this step.
UpdateWeights ==
    /\ pc = "weights"
    /\ awake' = TRUE
    /\ IF ValidatesAfter(globalSteps)
          THEN pc' = "mark" /\ part' = "val" /\ valLeft' = ValBatches
          ELSE pc' = "clear" /\ UNCHANGED <<part, valLeft>>
    /\ UNCHANGED <<globalSteps, curUids, batch, nextUid, failed, workerVars, tq, tqOpen,
                   rb, pollVars, stopSet, used>>

\* _validate: read the batch back and append its scores to the metrics.
FetchScores ==
    /\ pc = "fetch"
    /\ used' = [k \in Key |-> IF k \in batch["val"] THEN used[k] + 1 ELSE used[k]]
    /\ pc' = "clear"
    /\ UNCHANGED <<globalSteps, part, curUids, valLeft, batch, nextUid, awake, failed,
                   workerVars, tq, tqOpen, rb, pollVars, stopSet>>

\* The read of an empty batch may also raise.
FetchNothing ==
    /\ pc = "fetch"
    /\ batch["val"] = {}
    /\ pc' = "closing"
    /\ failed' = TRUE
    /\ UNCHANGED <<globalSteps, part, curUids, valLeft, batch, nextUid, awake,
                   workerVars, tq, tqOpen, rb, pollVars, stopSet, used>>

\* Mutant: the keys as sampled, without the padding added since.
CleanupKeys_WithoutPadding == {k \in batch[part] : PromptOf(k).status # "padding"}

\* batch.keys
CleanupKeys == batch[part]

\* tq.kv_clear(keys=batch.keys)
ClearStored ==
    /\ pc = "clear"
    /\ tq' = Overwrite(tq, CleanupKeys, Absent)
    /\ pc' = "remove"
    /\ UNCHANGED <<globalSteps, part, curUids, valLeft, batch, nextUid, awake, failed,
                   workerVars, tqOpen, rb, pollVars, stopSet, used>>

\* replay_buffer.remove(batch.keys) and what follows it: the next training
\* step or the end of fit; the next validation batch, the training step the
\* validation interrupted, or step 1 after the initial validation.
RemoveBuffered ==
    /\ pc = "remove"
    /\ rb' = Overwrite(rb, CleanupKeys, Absent)
    /\ batch' = [batch EXCEPT ![part] = {}]
    /\ \/ /\ part = "train"
          /\ ~IsLastStep(globalSteps)
          /\ pc' = "mark" /\ globalSteps' = globalSteps + 1
          /\ UNCHANGED <<part, valLeft>>
       \/ /\ part = "train"
          /\ IsLastStep(globalSteps)
          /\ pc' = "closing"
          /\ UNCHANGED <<globalSteps, part, valLeft>>
       \/ /\ part = "val"
          /\ valLeft > 1
          /\ pc' = "mark" /\ valLeft' = valLeft - 1
          /\ UNCHANGED <<globalSteps, part>>
       \/ /\ part = "val"
          /\ valLeft = 1
          /\ valLeft' = 0
          /\ part' = "train"
          /\ IF globalSteps = 0
                THEN pc' = "mark" /\ globalSteps' = 1
                ELSE pc' = "clear" /\ UNCHANGED globalSteps
    /\ UNCHANGED <<curUids, nextUid, awake, failed, workerVars, tq, tqOpen, pollVars,
                   stopSet, used>>

\* TaskRunner.run, finally: replay_buffer.close() sets the stop event ...
StopPolling ==
    /\ pc = "closing"
    /\ stopSet' = TRUE
    /\ pc' = "joining"
    /\ UNCHANGED <<globalSteps, part, curUids, valLeft, batch, nextUid, awake, failed,
                   workerVars, tq, tqOpen, rb, pollVars, used>>

\* ... and joins the thread with a timeout, so the queue may be closed while
\* the thread is still running.
CloseQueue ==
    /\ pc = "joining"
    /\ tqOpen' = FALSE
    /\ pc' = "ended"
    /\ UNCHANGED <<globalSteps, part, curUids, valLeft, batch, nextUid, awake, failed,
                   workerVars, tq, rb, pollVars, stopSet, used>>

Driver ==
    \/ BeginFit \/ MarkPending \/ AwaitDispatch \/ SampleBatch \/ SleepReplicas
    \/ BalanceBatch \/ BalanceNothing \/ UpdateActor \/ UpdateWeights
    \/ FetchScores \/ FetchNothing \/ ClearStored \/ RemoveBuffered
    \/ StopPolling \/ CloseQueue

-----------------------------------------------------------------------------
(* The agent-loop workers                                                  *)

\* AgentLoopWorkerTQ.generate_sequences creates the task of one prompt, and
\* _run_prompt the tasks of its sessions.
StartPrompt(u) ==
    /\ prompt[u].status = "pending"
    /\ prompt' = [prompt EXCEPT ![u].status = "running"]
    /\ session' = [session EXCEPT ![u] = [s \in Session |-> "generating"]]
    /\ UNCHANGED <<driverVars, tq, tqOpen, rb, pollVars, stopSet, used>>

\* agent_loop.run returns; the replicas must be awake to answer it.
Generate(u, s) ==
    /\ session[u][s] = "generating"
    /\ awake
    /\ session' = [session EXCEPT ![u][s] = "scoring"]
    /\ UNCHANGED <<driverVars, prompt, tq, tqOpen, rb, pollVars, stopSet, used>>

\* _agent_loop_postprocess: one kv_batch_put of all the session's outputs ...
PutOutputs(u, s) ==
    /\ session[u][s] = "scoring"
    /\ tqOpen
    /\ session' = [session EXCEPT ![u][s] = "stored"]
    /\ tq' = [tq EXCEPT ![<<u, s>>] = StepTag(prompt[u].step, "success")]
    /\ UNCHANGED <<driverVars, prompt, tqOpen, rb, pollVars, stopSet, used>>

\* ... or an early return when the agent loop produced none.
PutNothing(u, s) ==
    /\ session[u][s] = "scoring"
    /\ session' = [session EXCEPT ![u][s] = "empty"]
    /\ UNCHANGED <<driverVars, prompt, tq, tqOpen, rb, pollVars, stopSet, used>>

\* Generation, scoring or the put raises.
FailSession(u, s) ==
    /\ session[u][s] \in {"generating", "scoring"}
    /\ session' = [session EXCEPT ![u][s] = "failed"]
    /\ UNCHANGED <<driverVars, prompt, tq, tqOpen, rb, pollVars, stopSet, used>>

\* Mutant: the first session to end is enough.
AllSessionsOver_Any(u) == \E s \in Session : session[u][s] \in {"stored", "empty"}

AllSessionsOver(u) == \A s \in Session : session[u][s] \in {"stored", "empty"}

\* gather returned: every session is over.  The put updates the tags of the
\* prompt's key, which carries no global_steps.
FinishPrompt(u) ==
    /\ prompt[u].status = "running"
    /\ tqOpen
    /\ AllSessionsOver(u)
    /\ prompt' = [prompt EXCEPT ![u].status = "finished"]
    /\ tq' = [tq EXCEPT ![Marker(u)] = MarkerTag("finished")]
    /\ UNCHANGED <<driverVars, session, tqOpen, rb, pollVars, stopSet, used>>

\* Mutant: the exception is logged and no marker is put.
FailPrompt_Silent(u) ==
    /\ prompt[u].status = "running"
    /\ \E s \in Session : session[u][s] = "failed"
    /\ prompt' = [prompt EXCEPT ![u].status = "failure"]
    /\ UNCHANGED <<driverVars, session, tq, tqOpen, rb, pollVars, stopSet, used>>

\* gather raised the first exception: the other sessions keep running.
FailPrompt(u) ==
    /\ prompt[u].status = "running"
    /\ tqOpen
    /\ \E s \in Session : session[u][s] = "failed"
    /\ prompt' = [prompt EXCEPT ![u].status = "failure"]
    /\ tq' = [tq EXCEPT ![Marker(u)] = MarkerTag("failure")]
    /\ UNCHANGED <<driverVars, session, tqOpen, rb, pollVars, stopSet, used>>

Worker ==
    \E u \in Uid :
        \/ StartPrompt(u) \/ FinishPrompt(u) \/ FailPrompt(u)
        \/ \E s \in Session : Generate(u, s) \/ PutOutputs(u, s)
                              \/ PutNothing(u, s) \/ FailSession(u, s)

-----------------------------------------------------------------------------
(* The polling thread                                                      *)

PollCheck ==
    /\ poller = "idle"
    /\ poller' = IF stopSet THEN "stopped" ELSE "listing"
    /\ UNCHANGED <<driverVars, workerVars, tq, tqOpen, rb, snapshot, toAdd, stopSet, used>>

\* kv_list(); once the queue is closed it raises, and the handler ends the
\* whole process with os._exit(1) unless the thread was asked to stop.
PollList ==
    /\ poller = "listing"
    /\ IF tqOpen
          THEN poller' = "adding" /\ snapshot' = tq /\ toAdd' = Partition
          ELSE /\ poller' = IF stopSet THEN "stopped" ELSE "exited"
               /\ UNCHANGED <<snapshot, toAdd>>
    /\ UNCHANGED <<driverVars, workerVars, tq, tqOpen, rb, stopSet, used>>

\* self.add(partition_id, items), all items under the lock.
PollAdd(p) ==
    /\ poller = "adding"
    /\ p \in toAdd
    /\ rb' = [k \in Key |->
                IF PromptOf(k).part = p /\ snapshot[k].status # "absent"
                THEN Updated(rb[k], snapshot[k])
                ELSE rb[k]]
    /\ toAdd' = toAdd \ {p}
    /\ IF toAdd = {p}
          THEN poller' = "idle" /\ snapshot' = [k \in Key |-> Absent]
          ELSE UNCHANGED <<poller, snapshot>>
    /\ UNCHANGED <<driverVars, workerVars, tq, tqOpen, stopSet, used>>

Poller == PollCheck \/ PollList \/ \E p \in Partition : PollAdd(p)

-----------------------------------------------------------------------------
Terminated ==
    /\ pc = "ended"
    /\ poller \in {"stopped", "exited"}
    /\ UNCHANGED vars

Next == Driver \/ Worker \/ Poller \/ Terminated

Spec == Init /\ [][Next]_vars

\* The rollout engine has answered: the session goes on to its end.
EndSession(u, s) ==
    /\ session[u][s] = "scoring"
    /\ PutOutputs(u, s) \/ PutNothing(u, s) \/ FailSession(u, s)

\* The driver thread, the polling thread and every agent-loop task keep being
\* scheduled, and the rollout engine answers every request while it is awake.
\* Which way a session ends (outputs, none, an exception) is left open.
Fairness ==
    /\ WF_vars(Driver)
    /\ WF_vars(Poller)
    /\ \A u \in Uid :
          /\ WF_vars(StartPrompt(u))
          /\ WF_vars(FinishPrompt(u) \/ FailPrompt(u))
          /\ \A s \in Session :
                /\ WF_vars(Generate(u, s))
                /\ WF_vars(EndSession(u, s))

FairSpec == Spec /\ Fairness

-----------------------------------------------------------------------------
(* Properties                                                              *)

PromptStatus == {"fresh", "pending", "running", "finished", "failure", "padding"}
SessionStatus == {"none", "generating", "scoring", "stored", "empty", "failed"}
DriverPc == {"start", "mark", "dispatch", "sample", "sleep", "balance", "update",
             "weights", "fetch", "clear", "remove", "closing", "joining", "ended"}

\* Every variable ranges over the values the code can give it.
TypeOK ==
    /\ pc \in DriverPc
    /\ globalSteps \in Step
    /\ part \in Partition
    /\ curUids \in SUBSET Uid
    /\ valLeft \in 0 .. ValBatches
    /\ batch \in [Partition -> SUBSET Key]
    /\ nextUid \in 1 .. MaxUid + 1
    /\ awake \in BOOLEAN
    /\ failed \in BOOLEAN
    /\ prompt \in [Uid -> [part : Partition, step : Step, status : PromptStatus]]
    /\ session \in [Uid -> [Session -> SessionStatus]]
    /\ tq \in [Key -> Tag]
    /\ tqOpen \in BOOLEAN
    /\ rb \in [Key -> Tag]
    /\ poller \in {"idle", "listing", "adding", "stopped", "exited"}
    /\ snapshot \in [Key -> Tag]
    /\ toAdd \in SUBSET Partition
    /\ stopSet \in BOOLEAN
    /\ used \in [Key -> Nat]

\* The batch sample() returned and that has not been used or cleared yet.
JustSampled == pc \in {"sleep", "balance", "update", "fetch"}

\* When sample() returns, no output of a finished prompt is missing from the
\* batch: the prompt's marker is put after its sessions' outputs, and a
\* snapshot with the marker has the outputs too.
SampleIsComplete ==
    JustSampled =>
        \A u \in curUids, s \in Session :
            prompt[u].status = "finished" /\ session[u][s] = "stored"
                => <<u, s>> \in batch[part]

\* Every key of a batch the driver holds is in the TransferQueue until the
\* driver itself clears it: no read of the batch meets a missing key.
SampledKeysStored ==
    \A p \in Partition, k \in Key :
        k \in batch[p] /\ ~(pc = "remove" /\ part = p) => Stored(k)

\* sample() reads tag["global_steps"] of every entry of its partition: each
\* one has it, though the workers' markers are put without.
BufferedTagsHaveStep ==
    \A k \in Key : rb[k].status # "absent" => rb[k].gs # NoStep

\* The cleanup after a batch frees what it read: besides markers, only late
\* outputs of failed prompts stay in the TransferQueue.
OnlyLateOutputsLeak ==
    \A k \in Key :
        /\ Stored(k)
        /\ k[2] # MarkerSlot
        /\ k[1] \notin curUids
        /\ k \notin batch["train"]
        => PromptOf(k).status = "failure"

\* fit returns or raises, so every sample() in it returns, whatever fails: no
\* prompt is left without a marker and no replica asleep for ever.
RunEnds == <>(pc = "ended")

\* What step 5 of _validate, "cleanup transfer queue and replay buffer", is for:
\* no key cleaned up after one validation batch is sampled again as part of a
\* later one.
CleanedUpKeysStayGone ==
    pc = "fetch" => \A k \in batch["val"] : used[k] = 0

-----------------------------------------------------------------------------
(* The inductive invariant behind SampleIsComplete and BufferedTagsHaveStep *)

\* The driver has dispatched a batch and waits for it.
Waiting == pc \in {"dispatch", "sample"}
Dispatched == {"pending", "running", "finished", "failure"}
Resolved == {"finished", "failure"}

\* Uids not drawn yet are fresh, and sessions run for started prompts only.
PromptsInOrder ==
    \A u \in Uid :
        /\ u >= nextUid => prompt[u].status = "fresh"
        /\ prompt[u].status \in {"fresh", "pending", "padding"}
              => \A s \in Session : session[u][s] = "none"
        /\ prompt[u].status = "finished" => AllSessionsOver(u)

\* What a copy of the queue may hold: under a uid the marker of a resolved
\* prompt, under a session the outputs of a prompt in use.
TagsTellTruth(store) ==
    \A u \in Uid :
        /\ \/ store[Marker(u)] = Absent
           \/ /\ prompt[u].status \in Resolved
              /\ store[Marker(u)] = MarkerTag(prompt[u].status)
        /\ \A i \in Slot \ {MarkerSlot} :
              \/ store[<<u, i>>] = Absent
              \/ /\ prompt[u].status # "fresh"
                 /\ store[<<u, i>>] = StepTag(prompt[u].step, "success")

\* The buffer's markers: never removed, never ahead of the prompt.
MarkersTellTruth ==
    \A u \in Uid :
        /\ rb[Marker(u)].status \in {"absent", "running", "finished", "failure"}
        /\ rb[Marker(u)].status \in Resolved => prompt[u].status = rb[Marker(u)].status
        /\ prompt[u].status \in Dispatched => rb[Marker(u)].gs # NoStep

BatchesHoldNoMarker ==
    \A p \in Partition : \A k \in batch[p] : k[2] # MarkerSlot

\* While the driver waits, a store that shows a finished prompt's marker has
\* every output of that prompt.
OutputsBeforeMarker(store, u) ==
    store[Marker(u)].status = "finished" =>
        \A s \in Session :
            session[u][s] = "stored" => store[<<u, s>>] = StepTag(prompt[u].step, "success")

WaitedFor ==
    Waiting => \A u \in curUids :
        /\ prompt[u].part = part
        /\ prompt[u].step = globalSteps
        /\ prompt[u].status \in Dispatched
        /\ rb[Marker(u)].gs = globalSteps
        /\ rb[Marker(u)].status # "absent"
        /\ \A s \in Session :
              session[u][s] = "stored" => tq[<<u, s>>] = StepTag(prompt[u].step, "success")
        /\ OutputsBeforeMarker(snapshot, u)
        /\ OutputsBeforeMarker(rb, u)

SampledAreResolved ==
    JustSampled => \A u \in curUids : prompt[u].status \in Resolved

CompletenessInv ==
    /\ TypeOK
    /\ PromptsInOrder
    /\ TagsTellTruth(tq)
    /\ TagsTellTruth(snapshot)
    /\ MarkersTellTruth
    /\ BatchesHoldNoMarker
    /\ WaitedFor
    /\ SampledAreResolved
    /\ SampleIsComplete
    /\ BufferedTagsHaveStep

-----------------------------------------------------------------------------
(* Refinement: the pipeline implements StepLedger.  Padding samples are not *)
(* outputs of any prompt, and a batch is consumed at the actor update or    *)
(* when its scores are read.                                                *)

AwaitingUse ==
    pc \in {"dispatch", "sample", "sleep", "balance", "update", "fetch"}

LedgerResult(u) ==
    CASE prompt[u].status \in {"fresh", "padding"} -> "fresh"
      [] prompt[u].status \in {"pending", "running"} -> "open"
      [] OTHER -> prompt[u].status

\* How often an output was consumed: a second time is a second step.
UsesOf(k) == IF PromptOf(k).status = "padding" THEN 0 ELSE used[k]

Ledger == INSTANCE StepLedger WITH
    current  <- IF AwaitingUse THEN curUids ELSE {},
    result   <- [u \in Uid |-> LedgerResult(u)],
    outputs  <- [u \in Uid |-> {s \in Session : session[u][s] = "stored"}],
    consumed <- [k \in Uid \X Session |-> UsesOf(k)]

\* Consumers get every output of a finished prompt exactly once, in the batch
\* of its own step, whatever the queue, the poll and the replay buffer do.
ImplementsLedger == Ledger!LedgerSpec

=============================================================================
