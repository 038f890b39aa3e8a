----------------------------- MODULE FullyAsync -----------------------------
(***************************************************************************)
(* The fully asynchronous training mode: a Rollouter that generates sample *)
(* by sample, a MessageQueue actor, and a Trainer that takes its batches   *)
(* from the queue and now and then gives the Rollouter new weights.        *)
(*                                                                         *)
(*   verl/experimental/fully_async_policy/fully_async_rollouter.py         *)
(*   verl/experimental/fully_async_policy/fully_async_trainer.py           *)
(*   verl/experimental/fully_async_policy/message_queue.py                 *)
(*                                                                         *)
(* The Rollouter is one asyncio loop: the feed, the processor, the tasks   *)
(* that generate, the monitor, the main coroutine and the reset that the   *)
(* Trainer calls interleave at every await and share one asyncio.Lock.     *)
(*                                                                         *)
(* Samples are counted, not named: the code never tells two apart.  An     *)
(* abort suspends generation (partial_rollout, the default): the client    *)
(* asks again for what is missing.  Metrics, validation and profiling are  *)
(* left out.                                                               *)
(***************************************************************************)
EXTENDS Naturals, FiniteSets, Sequences

CONSTANTS
    Required,          \* required_samples: what one training step takes
    Trigger,           \* trigger_parameter_sync_step
    MaxRequired,       \* max_required_samples, and max_queue_size
    MaxConcurrent,     \* max_concurrent_samples
    Total,             \* total_rollout_steps: how many samples are fed
    PendingMax,        \* maxsize of pending_queue
    TestFreq,          \* trainer.test_freq
    SaveFreq,          \* trainer.save_freq
    MaxFails           \* bound: how many generations may raise

ASSUME FullyAsyncAssumption ==
    /\ {Required, Trigger, MaxConcurrent, Total, PendingMax} \subseteq Nat \ {0}
    /\ MaxRequired \in Nat /\ MaxRequired >= Required * Trigger
    /\ MaxConcurrent <= MaxRequired
    /\ TestFreq \in Nat \ {0}
    /\ SaveFreq \in Nat
    /\ MaxFails \in Nat

VARIABLES
    fed,          \* samples the feed has put, the end signal included
    pending,      \* how many of them are still in pending_queue
    proc,         \* where the processor coroutine stands
    procSeen,     \* the queue size it was told
    finishing,    \* the processor has met the end signal
    paused,       \* self.paused
    event,        \* self._resume_event is set
    staleness,    \* self.staleness_samples
    lock,         \* who holds self.lock
    tasks,        \* how many tasks stand where
    fails,        \* generations that raised so far
    main,         \* where _streaming_generation_main stands
    monitor,      \* where the monitor loop stands
    monSeen,      \* the queue size it was told
    queue,        \* the MessageQueue's samples, oldest first
    trainer,      \* where the Trainer stands
    hand,         \* samples it has collected for the next step
    trained,      \* samples it has trained on
    localStep,    \* local_trigger_step
    version,      \* current_param_version
    saved,        \* the last checkpoint: its version, the samples behind it
    stopping,     \* the Trainer has met the end signal
    serving,      \* the replicas generate (they are not aborted)
    counted,      \* len(active_tasks) as reset_staleness read it
    base,         \* helper: samples outstanding at the last reset
    since         \* helper: samples submitted since

feedVars    == <<fed, pending>>
procVars    == <<proc, procSeen, finishing>>
pauseVars   == <<paused, event>>
taskVars    == <<tasks, fails>>
monVars     == <<monitor, monSeen>>
trainVars   == <<trainer, hand, trained, localStep, version, saved, stopping,
                 serving, counted>>
quotaVars   == <<base, since>>

vars == <<feedVars, procVars, pauseVars, staleness, lock, taskVars, main,
          monVars, queue, trainVars, quotaVars>>

(***************************************************************************)
(* The tasks.  A task is in active_tasks until the processor takes it out, *)
(* also when it is over.                                                   *)
(***************************************************************************)
Stage == {"generating", "ready", "stored", "done", "failed"}

Over   == tasks.done + tasks.failed
Active == tasks.generating + tasks.ready + tasks.stored + Over

Move(from, to) == [tasks EXCEPT ![from] = @ - 1, ![to] = @ + 1]

\* samples that were submitted and that the Trainer has not taken
Samples(q)  == Cardinality({i \in DOMAIN q : q[i] # "end"})
Outstanding == tasks.generating + tasks.ready + Samples(queue)

Init ==
    /\ fed = 0 /\ pending = 0
    /\ proc = "top" /\ procSeen = 0 /\ finishing = FALSE
    /\ paused = FALSE /\ event = TRUE
    /\ staleness = 0
    /\ lock = "free"
    /\ tasks = [s \in Stage |-> 0]
    /\ fails = 0
    /\ main = "wait"
    /\ monitor = "idle" /\ monSeen = 0
    /\ queue = <<>>
    /\ trainer = "collect" /\ hand = 0 /\ trained = 0
    /\ localStep = 1 /\ version = 0
    /\ saved = [version |-> 0, trained |-> 0]
    /\ stopping = FALSE
    /\ serving = TRUE
    /\ counted = 0
    /\ base = 0 /\ since = 0

-----------------------------------------------------------------------------
(***************************************************************************)
(* The MessageQueue: a full queue drops its oldest sample for a new one.   *)
(***************************************************************************)
PutSample(x) ==
    queue' = Append(IF Len(queue) >= MaxRequired THEN Tail(queue) ELSE queue, x)

(***************************************************************************)
(* _feed_samples: the samples, then None; it blocks on a full              *)
(* pending_queue and is cancelled when the main coroutine gives up.        *)
(***************************************************************************)
Feed ==
    /\ main = "wait"
    /\ fed < Total + 1
    /\ pending < PendingMax
    /\ fed' = fed + 1
    /\ pending' = pending + 1
    /\ UNCHANGED <<procVars, pauseVars, staleness, lock, taskVars, main,
                   monVars, queue, trainVars, quotaVars>>

NextIsEnd == fed = Total + 1 /\ pending = 1

-----------------------------------------------------------------------------
(***************************************************************************)
(* _process_single_sample_streaming.  Its generation goes on only while    *)
(* the replicas serve.                                                     *)
(***************************************************************************)
Generate ==
    /\ serving
    /\ tasks.generating > 0
    /\ tasks' = Move("generating", "ready")
    /\ UNCHANGED <<feedVars, procVars, pauseVars, staleness, lock, fails, main,
                   monVars, queue, trainVars, quotaVars>>

FailTask ==
    /\ tasks.generating > 0
    /\ fails < MaxFails
    /\ fails' = fails + 1
    /\ tasks' = Move("generating", "failed")
    /\ UNCHANGED <<feedVars, procVars, pauseVars, staleness, lock, main,
                   monVars, queue, trainVars, quotaVars>>

Store ==
    /\ tasks.ready > 0
    /\ PutSample("sample")
    /\ tasks' = Move("ready", "stored")
    /\ UNCHANGED <<feedVars, procVars, pauseVars, staleness, lock, fails, main,
                   monVars, trainVars, quotaVars>>

TaskReturns ==
    /\ tasks.stored > 0
    /\ tasks' = Move("stored", "done")
    /\ UNCHANGED <<feedVars, procVars, pauseVars, staleness, lock, fails, main,
                   monVars, queue, trainVars, quotaVars>>

-----------------------------------------------------------------------------
(***************************************************************************)
(* _processor_worker, one action from await to await.                      *)
(***************************************************************************)
\* Mutant: only a full queue pauses.
ShouldPause_QueueOnly(size) == size >= MaxRequired

ShouldPause(size) == size >= MaxRequired \/ staleness >= MaxRequired

ProcAsk ==
    /\ proc = "top"
    /\ procSeen' = Len(queue)
    /\ proc' = "asked"
    /\ UNCHANGED <<feedVars, finishing, pauseVars, staleness, lock, taskVars,
                   main, monVars, queue, trainVars, quotaVars>>

ProcDecide ==
    /\ proc = "asked"
    /\ proc' = IF paused \/ ShouldPause(procSeen) THEN "pausing" ELSE "getting"
    /\ procSeen' = 0
    /\ UNCHANGED <<feedVars, finishing, pauseVars, staleness, lock, taskVars,
                   main, monVars, queue, trainVars, quotaVars>>

ProcPause ==
    /\ proc = "pausing"
    /\ lock = "free"
    /\ paused' = TRUE
    /\ event' = FALSE
    /\ proc' = "draining"
    /\ UNCHANGED <<feedVars, procSeen, finishing, staleness, lock, taskVars,
                   main, monVars, queue, trainVars, quotaVars>>

\* takes some finished tasks out of active_tasks; a failed one raises
ProcDrain ==
    /\ proc = "draining"
    /\ lock = "free"
    /\ \E d \in 0 .. tasks.done, f \in 0 .. tasks.failed :
         /\ d + f > 0
         /\ tasks' = [tasks EXCEPT !.done = @ - d, !.failed = @ - f]
         /\ proc' = IF f > 0 THEN "raised" ELSE "draining"
    /\ UNCHANGED <<feedVars, procSeen, finishing, pauseVars, staleness, lock,
                   fails, main, monVars, queue, trainVars, quotaVars>>

ProcResume ==
    /\ proc = "draining"
    /\ event
    /\ proc' = "top"
    /\ UNCHANGED <<feedVars, procSeen, finishing, pauseVars, staleness, lock,
                   taskVars, main, monVars, queue, trainVars, quotaVars>>

\* the sample counts as stale from here on, but belongs to no task yet
ProcGet ==
    /\ proc = "getting"
    /\ pending > 0
    /\ pending' = pending - 1
    /\ staleness' = staleness + 1
    /\ finishing' = NextIsEnd
    /\ proc' = "limit"
    /\ UNCHANGED <<fed, procSeen, pauseVars, lock, taskVars, main, monVars,
                   queue, trainVars, quotaVars>>

\* Mutant: the end signal ends the processor, whatever still runs.
MustWait_NotAtEnd == ~finishing /\ Active >= MaxConcurrent

\* at the end every task is awaited, before that only when there are too many
MustWait == IF finishing THEN Active > 0 ELSE Active >= MaxConcurrent

ProcLock ==
    /\ proc = "limit" /\ MustWait
    /\ lock = "free"
    /\ lock' = "processor"
    /\ proc' = "reaping"
    /\ UNCHANGED <<feedVars, procSeen, finishing, pauseVars, staleness,
                   taskVars, main, monVars, queue, trainVars, quotaVars>>

\* asyncio.wait returns holding the lock: every finished task goes
ProcReap ==
    /\ proc = "reaping"
    /\ Over > 0
    /\ tasks' = [tasks EXCEPT !.done = 0, !.failed = 0]
    /\ lock' = "free"
    /\ proc' = IF tasks.failed > 0 THEN "raised" ELSE "limit"
    /\ UNCHANGED <<feedVars, procSeen, finishing, pauseVars, staleness, fails,
                   main, monVars, queue, trainVars, quotaVars>>

ProcSubmit ==
    /\ proc = "limit" /\ ~finishing /\ ~MustWait
    /\ paused => event
    /\ lock = "free"
    /\ tasks' = [tasks EXCEPT !.generating = @ + 1]
    /\ since' = since + 1
    /\ proc' = "top"
    /\ UNCHANGED <<feedVars, procSeen, finishing, pauseVars, staleness, lock,
                   fails, main, monVars, queue, trainVars, base>>

ProcEnd ==
    /\ proc = "limit" /\ finishing /\ ~MustWait
    /\ proc' = "ended"
    /\ UNCHANGED <<feedVars, procSeen, finishing, pauseVars, staleness, lock,
                   taskVars, main, monVars, queue, trainVars, quotaVars>>

(***************************************************************************)
(* _streaming_generation_main: when the processor is over, for whichever   *)
(* reason, the Trainer gets None and the Rollouter stops running.          *)
(***************************************************************************)
MainPutsEnd ==
    /\ main = "wait"
    /\ proc \in {"ended", "raised"}
    /\ PutSample("end")
    /\ main' = "ending"
    /\ UNCHANGED <<feedVars, procVars, pauseVars, staleness, lock, taskVars,
                   monVars, trainVars, quotaVars>>

MainStops ==
    /\ main = "ending"
    /\ lock = "free"
    /\ main' = "over"
    /\ UNCHANGED <<feedVars, procVars, pauseVars, staleness, lock, taskVars,
                   monVars, queue, trainVars, quotaVars>>

(***************************************************************************)
(* _async_monitor_loop: wakes a paused Rollouter that need not pause.      *)
(***************************************************************************)
MonitorAsk ==
    /\ monitor = "idle"
    /\ main # "over"
    /\ paused
    /\ monSeen' = Len(queue)
    /\ monitor' = "asked"
    /\ UNCHANGED <<feedVars, procVars, pauseVars, staleness, lock, taskVars,
                   main, queue, trainVars, quotaVars>>

MonitorDecide ==
    /\ monitor = "asked"
    /\ monitor' = IF ShouldPause(monSeen) THEN "idle" ELSE "resuming"
    /\ monSeen' = 0
    /\ UNCHANGED <<feedVars, procVars, pauseVars, staleness, lock, taskVars,
                   main, queue, trainVars, quotaVars>>

MonitorResume ==
    /\ monitor = "resuming"
    /\ lock = "free"
    /\ paused' = FALSE
    /\ event' = TRUE
    /\ monitor' = "idle"
    /\ UNCHANGED <<feedVars, procVars, staleness, lock, taskVars, main,
                   monSeen, queue, trainVars, quotaVars>>

-----------------------------------------------------------------------------
(***************************************************************************)
(* The Trainer.  _get_samples_from_queue takes samples one by one, waiting *)
(* on an empty queue; None ends the training, whatever is in hand.         *)
(***************************************************************************)
Take ==
    /\ trainer = "collect"
    /\ queue # <<>>
    /\ queue' = Tail(queue)
    /\ IF Head(queue) = "end"
       THEN trainer' = "stop" /\ UNCHANGED hand
       ELSE /\ hand' = hand + 1
            /\ trainer' = IF hand + 1 = Required THEN "train" ELSE "collect"
    /\ UNCHANGED <<feedVars, procVars, pauseVars, staleness, lock, taskVars,
                   main, monVars, trained, localStep, version, saved, stopping,
                   serving, counted, quotaVars>>

\* fit_step up to _fit_update_weights, which acts on a new version only
Train ==
    /\ trainer = "train"
    /\ hand' = 0
    /\ trained' = trained + Required
    /\ IF localStep < Trigger
       THEN /\ localStep' = localStep + 1
            /\ trainer' = "save"
            /\ UNCHANGED version
       ELSE /\ localStep' = 1
            /\ version' = version + 1
            /\ trainer' = "abort"
    /\ UNCHANGED <<feedVars, procVars, pauseVars, staleness, lock, taskVars,
                   main, monVars, queue, saved, stopping, serving, counted,
                   quotaVars>>

\* update_weights aborts what the replicas generate
Abort ==
    /\ trainer = "abort"
    /\ serving' = FALSE
    /\ trainer' = "resume"
    /\ UNCHANGED <<feedVars, procVars, pauseVars, staleness, lock, taskVars,
                   main, monVars, queue, hand, trained, localStep, version,
                   saved, stopping, counted, quotaVars>>

Resume ==
    /\ trainer = "resume"
    /\ serving' = TRUE
    /\ trainer' = "reset"
    /\ UNCHANGED <<feedVars, procVars, pauseVars, staleness, lock, taskVars,
                   main, monVars, queue, hand, trained, localStep, version,
                   saved, stopping, counted, quotaVars>>

\* Mutant: paused is cleared, but nobody waiting is told.
ResetBegin_Untold ==
    /\ trainer = "reset"
    /\ lock = "free"
    /\ lock' = "reset"
    /\ paused' = FALSE
    /\ counted' = Active
    /\ trainer' = "counting"
    /\ UNCHANGED <<feedVars, procVars, event, staleness, taskVars, main, monVars,
                   queue, hand, trained, localStep, version, saved, stopping,
                   serving, quotaVars>>

\* reset_staleness reads len(active_tasks), then awaits the queue's size
ResetBegin ==
    /\ trainer = "reset"
    /\ lock = "free"
    /\ lock' = "reset"
    /\ paused' = FALSE
    /\ event' = TRUE
    /\ counted' = Active
    /\ trainer' = "counting"
    /\ UNCHANGED <<feedVars, procVars, staleness, taskVars, main, monVars,
                   queue, hand, trained, localStep, version, saved, stopping,
                   serving, quotaVars>>

ResetCount ==
    /\ trainer = "counting"
    /\ staleness' = counted + Len(queue)
    /\ lock' = "free"
    /\ base' = Outstanding
    /\ since' = 0
    /\ trainer' = "save"
    /\ counted' = 0
    /\ UNCHANGED <<feedVars, procVars, pauseVars, taskVars, main, monVars,
                   queue, hand, trained, localStep, version, saved, stopping,
                   serving>>

\* Mutant: the last save is not forced.
Save_NotForced ==
    /\ trainer = "save"
    /\ saved' = IF version # saved.version /\ SaveFreq > 0 /\ version % SaveFreq = 0
                THEN [version |-> version, trained |-> trained]
                ELSE saved
    /\ trainer' = IF stopping THEN "over" ELSE "collect"
    /\ UNCHANGED <<feedVars, procVars, pauseVars, staleness, lock, taskVars,
                   main, monVars, queue, hand, trained, localStep, version,
                   stopping, serving, counted, quotaVars>>

\* _fit_save_checkpoint; forced at the end
Save ==
    /\ trainer = "save"
    /\ saved' = IF /\ version # saved.version
                   /\ SaveFreq > 0
                   /\ stopping \/ version % SaveFreq = 0
                THEN [version |-> version, trained |-> trained]
                ELSE saved
    /\ trainer' = IF stopping THEN "over" ELSE "collect"
    /\ UNCHANGED <<feedVars, procVars, pauseVars, staleness, lock, taskVars,
                   main, monVars, queue, hand, trained, localStep, version,
                   stopping, serving, counted, quotaVars>>

\* fit, after TrainingStopException; the update needs localStep = 1 as well
Stop ==
    /\ trainer = "stop"
    /\ stopping' = TRUE
    /\ trainer' = IF version % TestFreq # 0 /\ localStep = 1
                  THEN "abort" ELSE "save"
    /\ UNCHANGED <<feedVars, procVars, pauseVars, staleness, lock, taskVars,
                   main, monVars, queue, hand, trained, localStep, version,
                   saved, serving, counted, quotaVars>>

Ended == trainer = "over" /\ main = "over"

Tasks == Generate \/ Store \/ TaskReturns

Processor ==
    \/ ProcAsk \/ ProcDecide \/ ProcPause \/ ProcDrain \/ ProcResume \/ ProcGet
    \/ ProcLock \/ ProcReap \/ ProcSubmit \/ ProcEnd

Main == MainPutsEnd \/ MainStops

Monitor == MonitorAsk \/ MonitorDecide \/ MonitorResume

Trainer ==
    \/ Take \/ Train \/ Abort \/ Resume \/ ResetBegin \/ ResetCount \/ Save
    \/ Stop

Next ==
    \/ Feed \/ Tasks \/ FailTask \/ Processor \/ Main \/ Monitor \/ Trainer
    \/ Ended /\ UNCHANGED vars

Spec == Init /\ [][Next]_vars

(***************************************************************************)
(* Each coroutine and each actor goes on: the loop runs every ready        *)
(* coroutine, asyncio.Lock is handed out first come first served, and no   *)
(* generation lasts for ever.  Nothing makes a generation fail.            *)
(***************************************************************************)
Fairness ==
    /\ WF_vars(Feed)
    /\ WF_vars(Generate) /\ WF_vars(Store) /\ WF_vars(TaskReturns)
    /\ WF_vars(Processor)
    /\ WF_vars(Main)
    /\ WF_vars(Monitor)
    /\ WF_vars(Trainer)

FairSpec == Spec /\ Fairness

-----------------------------------------------------------------------------
\* Between two synchronisations the Rollouter submits no more than
\* max_required_samples less what was left over (docs/advance/fully_async.md),
\* and one more: the sample the processor had taken off the pending queue but
\* not yet submitted when reset_staleness counted.
RolloutNumBounded == base + since <= MaxRequired + 1

\* None is the last thing the queue gets when no generation failed: the
\* Trainer stops with nothing behind it, neither in the queue nor with a task,
\* and what is left in its hand is less than a training step.
EndIsLast ==
    (stopping /\ fails = 0) =>
        Outstanding = 0 /\ Active = 0 /\ pending = 0 /\ hand < Required

\* Every step but those since the last synchronisation is in the checkpoint
\* the Trainer leaves behind: fit forces a save, and that save is skipped only
\* when the version in it was saved already.
TailIsSaved ==
    (trainer = "over" /\ SaveFreq > 0) =>
        trained - saved.trained <= (Trigger - 1) * Required

\* The training ends: no pause is left without a wake-up, no synchronisation
\* waits for a lock for ever, no Trainer for samples that nobody submits, also
\* when a generation raises.
TrainingEnds ==
    MaxRequired >= Required * Trigger + MaxConcurrent => <>Ended
=============================================================================
