--------------------------- MODULE EvalSupervisor ---------------------------
(***************************************************************************)
(* The programs that keep the repeated evaluation running and yield the    *)
(* GPUs to training:                                                       *)
(*   watch_repeated_avg16.py  starts the evaluator again when none runs;   *)
(*   resource_waiter.sh       runs a watcher while no training is active,  *)
(*                            and pauses the evaluation when one is;       *)
(*   eval_guard.sh            runs a watcher again when it has ended.      *)
(* They see each other through the watcher's advisory lock, the process    *)
(* table, signals and SUCCESS.json.                                        *)
(*                                                                         *)
(* Waiter and guard each start watchers one after the other; a watcher is  *)
(* named after who started it.  Evaluators are numbered; each goes through *)
(* "forked" (a copy of its watcher, with the watcher's file table and      *)
(* command line), "closed" (in a session of its own, and without the       *)
(* inherited files: Popen's close_fds), "running", "ending" (SUCCESS is    *)
(* written, it failed or got a signal) and "gone".  What an evaluator      *)
(* computes is RepeatedEval's; here it succeeds, fails or is ended.        *)
(*                                                                         *)
(* Abstractions.  Sleeps are stutters.  A process that has left /proc and  *)
(* one that is not matched by pgrep are the same.  setsid is in effect     *)
(* before the waiter's first look at its watcher.  --once, --no-restart    *)
(* and evaluators started by hand are left out.                            *)
(***************************************************************************)
EXTENDS Integers

CONSTANTS
    Keeper,          \* who starts watchers: a subset of {"waiter", "guard"}
    MaxStarts,       \* bound: evaluators
    MaxTrainings,    \* bound: training jobs
    MaxMishaps       \* bound: evaluators that fail, and watchers and evaluators ended
                     \* from outside

ASSUME SupervisorAssumption ==
    /\ Keeper \subseteq {"waiter", "guard"}
    /\ {MaxStarts, MaxTrainings, MaxMishaps} \subseteq Nat

Evaluator == 1 .. MaxStarts

VARIABLES
    keeper,      \* "waiter", "guard" -> where its loop is
    watcher,     \* keeper -> where the watcher it started is
    sawPids,     \* keeper -> its watcher's evaluator_pids()
    evaluator,   \* evaluator -> its state
    child,       \* keeper -> the evaluator its watchers forked last, 0 for none
    forkedBy,    \* evaluator -> the watcher that started it
    unseen,      \* keeper -> those "closed" when its watcher listed processes
    missed,      \* not yet visible when the waiter listed evaluators
    succeeded,   \* SUCCESS.json
    training,    \* a training job is active
    trainings, mishaps

bounded == <<missed, trainings, mishaps>>
looked == <<sawPids, unseen>>
forks == <<child, forkedBy>>
supervisorVars == <<keeper, watcher, looked, evaluator, forks, succeeded, training, bounded>>

SupervisorInit ==
    /\ keeper = [k \in Keeper |-> "top"]
    /\ watcher = [k \in Keeper |-> "none"]
    /\ sawPids = [k \in Keeper |-> FALSE]
    /\ unseen = [k \in Keeper |-> {}]
    /\ child = [k \in Keeper |-> 0]
    /\ evaluator = [e \in Evaluator |-> "unborn"]
    /\ forkedBy = [e \in Evaluator |-> "nobody"]
    /\ missed = {}
    /\ succeeded = FALSE
    /\ training \in BOOLEAN
    /\ trainings = 0 /\ mishaps = 0

\* What evaluator_pids and pgrep find: the command line is the evaluator's
\* from exec on.
Visible(e) == evaluator[e] \in {"running", "ending"}
Running == {e \in Evaluator : Visible(e)}

-----------------------------------------------------------------------------
(* The watcher: main and inspect_once                                      *)

\* inspect_once is over, with what it saw.
Forgets(k) ==
    /\ sawPids' = [sawPids EXCEPT ![k] = FALSE]
    /\ unseen' = [unseen EXCEPT ![k] = {}]

WatcherGoes(k, from, to) ==
    /\ watcher[k] = from
    /\ watcher' = [watcher EXCEPT ![k] = to]

\* Mutant: the lock's descriptor is not inherited by a forked child.
LockHeld_ByWatcherOnly == \E k \in Keeper : watcher[k] \notin {"none", "lock"}

\* The lock belongs to the open file, which a forked child shares until it
\* closes what it inherited, shortly before exec.
LockHeld ==
    \/ \E k \in Keeper : watcher[k] \notin {"none", "lock"}
    \/ \E e \in Evaluator : evaluator[e] = "forked"

\* flock(LOCK_EX | LOCK_NB), or SystemExit.
TakeLock(k) ==
    /\ WatcherGoes(k, "lock", IF LockHeld THEN "none" ELSE "list")
    /\ UNCHANGED <<keeper, looked, evaluator, forks, succeeded, training, bounded>>

ListPids(k) ==
    /\ WatcherGoes(k, "list", "check")
    /\ sawPids' = [sawPids EXCEPT ![k] = Running # {}]
    /\ unseen' = [unseen EXCEPT ![k] = {e \in Evaluator : evaluator[e] = "closed"}]
    /\ UNCHANGED <<keeper, evaluator, forks, succeeded, training, bounded>>

\* Mutant: only the process list decides.
CheckSuccess_Omitted(k) ==
    /\ WatcherGoes(k, "check", "decide")
    /\ UNCHANGED <<keeper, looked, evaluator, forks, succeeded, training, bounded>>

\* COMPLETE ends the watcher.
CheckSuccess(k) ==
    /\ WatcherGoes(k, "check", IF succeeded THEN "none" ELSE "decide")
    /\ UNCHANGED <<keeper, looked, evaluator, forks, succeeded, training, bounded>>

Healthy(k) ==
    /\ WatcherGoes(k, "decide", "asleep")
    /\ sawPids[k]
    /\ Forgets(k)
    /\ UNCHANGED <<keeper, evaluator, forks, succeeded, training, bounded>>

\* start_evaluator: Popen forks ...
Fork(k) ==
    /\ ~sawPids[k]
    /\ \E e \in Evaluator :
          /\ evaluator[e] = "unborn"
          /\ \A d \in 1 .. e - 1 : evaluator[d] # "unborn"
          /\ evaluator' = [evaluator EXCEPT ![e] = "forked"]
          /\ forkedBy' = [forkedBy EXCEPT ![e] = k]
          /\ child' = [child EXCEPT ![k] = e]
    /\ WatcherGoes(k, "decide", "starting")
    /\ Forgets(k)
    /\ UNCHANGED <<keeper, succeeded, training, bounded>>

\* ... and returns when the child has become the evaluator.
Started(k) ==
    /\ WatcherGoes(k, "starting", "asleep")
    /\ evaluator[child[k]] \notin {"forked", "closed"}
    /\ UNCHANGED <<keeper, looked, evaluator, forks, succeeded, training, bounded>>

WakeUp(k) ==
    /\ WatcherGoes(k, "asleep", "list")
    /\ UNCHANGED <<keeper, looked, evaluator, forks, succeeded, training, bounded>>

Watches(k) ==
    \/ TakeLock(k) \/ ListPids(k) \/ CheckSuccess(k) \/ Healthy(k) \/ Fork(k) \/ Started(k)
    \/ WakeUp(k)

-----------------------------------------------------------------------------
(* Evaluators                                                              *)

EvaluatorGoes(e, from, to) ==
    /\ evaluator[e] = from
    /\ evaluator' = [evaluator EXCEPT ![e] = to]

\* The child gives up what it inherited, the lock's descriptor included ...
CloseFds(e) ==
    /\ EvaluatorGoes(e, "forked", "closed")
    /\ UNCHANGED <<keeper, watcher, looked, forks, succeeded, training, bounded>>

\* ... and only then gets the evaluator's command line.
Exec(e) ==
    /\ EvaluatorGoes(e, "closed", "running")
    /\ UNCHANGED <<keeper, watcher, looked, forks, succeeded, training, bounded>>

\* SUCCESS.json is written before the process ends.
SucceedEvaluation(e) ==
    /\ EvaluatorGoes(e, "running", "ending")
    /\ succeeded' = TRUE
    /\ UNCHANGED <<keeper, watcher, looked, forks, training, bounded>>

FailEvaluation(e) ==
    /\ mishaps < MaxMishaps /\ mishaps' = mishaps + 1
    /\ EvaluatorGoes(e, "running", "ending")
    /\ UNCHANGED <<keeper, watcher, looked, forks, succeeded, training, missed, trainings>>

End(e) ==
    /\ EvaluatorGoes(e, "ending", "gone")
    /\ UNCHANGED <<keeper, watcher, looked, forks, succeeded, training, bounded>>

-----------------------------------------------------------------------------
(* The loops of resource_waiter.sh and eval_guard.sh                       *)

KeeperGoes(k, from, to) ==
    /\ keeper[k] = from
    /\ keeper' = [keeper EXCEPT ![k] = to]

\* while [[ ! -f "$success_path" ]]
Top(k) ==
    /\ KeeperGoes(k, "top", IF succeeded THEN "done" ELSE "ask")
    /\ UNCHANGED <<watcher, looked, evaluator, forks, succeeded, training, bounded>>

\* training_is_active, or the guard's pgrep
Ask(k) ==
    /\ KeeperGoes(k, "ask", IF training THEN "yield" ELSE "launch")
    /\ UNCHANGED <<watcher, looked, evaluator, forks, succeeded, training, bounded>>

Yield(k) ==
    /\ KeeperGoes(k, "yield", "top")
    /\ UNCHANGED <<watcher, looked, evaluator, forks, succeeded, training, bounded>>

Launch(k) ==
    /\ KeeperGoes(k, "launch", "monitor")
    /\ watcher' = [watcher EXCEPT ![k] = "lock"]
    /\ UNCHANGED <<looked, evaluator, forks, succeeded, training, bounded>>

\* The watcher has ended: the guard's setsid --wait returns, and the waiter's
\* kill -0 fails.
WatcherEnded(k) ==
    /\ watcher[k] = "none"
    /\ KeeperGoes(k, "monitor", "between")
    /\ UNCHANGED <<watcher, looked, evaluator, forks, succeeded, training, bounded>>

\* Mutant: a keeper ends with its first watcher.
Between_Ends(k) ==
    /\ KeeperGoes(k, "between", "done")
    /\ UNCHANGED <<watcher, looked, evaluator, forks, succeeded, training, bounded>>

\* After a watcher: break on success, else sleep and loop.
Between(k) ==
    /\ KeeperGoes(k, "between", IF succeeded THEN "done" ELSE "top")
    /\ UNCHANGED <<watcher, looked, evaluator, forks, succeeded, training, bounded>>

\* The waiter looks for training while its watcher is alive.
WatcherAlive ==
    /\ watcher["waiter"] # "none"
    /\ KeeperGoes("waiter", "monitor", "look")
    /\ UNCHANGED <<watcher, looked, evaluator, forks, succeeded, training, bounded>>

\* Mutant: the evaluators are stopped before the watcher.
FirstStopped_Evaluators == "evaluators"

\* What pause_evaluation stops first.
FirstStopped == "watcher"

Look ==
    /\ KeeperGoes("waiter", "look",
                  IF ~training THEN "monitor"
                  ELSE IF FirstStopped = "watcher" THEN "stopWatcher" ELSE "stopEvaluators")
    /\ UNCHANGED <<watcher, looked, evaluator, forks, succeeded, training, bounded>>

\* kill -TERM of the watcher's group, which a child leaves (setsid) at some point
\* before it closes the inherited files.
StopWatcher ==
    /\ KeeperGoes("waiter", "stopWatcher",
                  IF FirstStopped = "watcher" THEN "stopEvaluators" ELSE "waitGone")
    /\ watcher' = [watcher EXCEPT !["waiter"] = "none"]
    /\ \E hit \in SUBSET {e \in Evaluator : evaluator[e] = "forked" /\ forkedBy[e] = "waiter"} :
          evaluator' = [e \in Evaluator |-> IF e \in hit THEN "gone" ELSE evaluator[e]]
    /\ Forgets("waiter")
    /\ UNCHANGED <<forks, succeeded, training, bounded>>

\* kill -TERM of the group of every evaluator pgrep finds.
StopEvaluators ==
    /\ KeeperGoes("waiter", "stopEvaluators",
                  IF FirstStopped = "watcher" THEN "waitGone" ELSE "stopWatcher")
    /\ evaluator' = [e \in Evaluator |-> IF Visible(e) THEN "ending" ELSE evaluator[e]]
    /\ missed' = {e \in Evaluator : evaluator[e] \in {"forked", "closed"}}
    /\ UNCHANGED <<watcher, looked, forks, succeeded, training, trainings, mishaps>>

\* For 30 s: is any evaluator left?
AllGone ==
    /\ Running = {}
    /\ KeeperGoes("waiter", "waitGone", "paused")
    /\ UNCHANGED <<watcher, looked, evaluator, forks, succeeded, training, bounded>>

\* After 30 s: kill -KILL of the groups of those pgrep finds then.
KillRest ==
    /\ KeeperGoes("waiter", "waitGone", "paused")
    /\ evaluator' = [e \in Evaluator |-> IF Visible(e) THEN "gone" ELSE evaluator[e]]
    /\ UNCHANGED <<watcher, looked, forks, succeeded, training, bounded>>

Paused ==
    /\ KeeperGoes("waiter", "paused", "between")
    /\ UNCHANGED <<watcher, looked, evaluator, forks, succeeded, training, bounded>>

Pauses == Look \/ StopWatcher \/ StopEvaluators \/ AllGone \/ KillRest \/ Paused

Keeps(k) ==
    \/ Top(k) \/ Ask(k) \/ Yield(k) \/ Launch(k) \/ WatcherEnded(k) \/ Between(k)
    \/ k = "waiter" /\ (WatcherAlive \/ Pauses)

-----------------------------------------------------------------------------
(* From outside                                                            *)

TrainingStarts ==
    /\ ~training /\ trainings < MaxTrainings
    /\ training' = TRUE /\ trainings' = trainings + 1
    /\ UNCHANGED <<keeper, watcher, looked, evaluator, forks, succeeded, missed, mishaps>>

TrainingEnds ==
    /\ training
    /\ training' = FALSE
    /\ UNCHANGED <<keeper, watcher, looked, evaluator, forks, succeeded, bounded>>

\* A task-local cleanup.
KillWatcher(k) ==
    /\ watcher[k] # "none"
    /\ mishaps < MaxMishaps /\ mishaps' = mishaps + 1
    /\ watcher' = [watcher EXCEPT ![k] = "none"]
    /\ Forgets(k)
    /\ UNCHANGED <<keeper, evaluator, forks, succeeded, training, missed, trainings>>

KillEvaluator(e) ==
    /\ Visible(e)
    /\ mishaps < MaxMishaps /\ mishaps' = mishaps + 1
    /\ evaluator' = [evaluator EXCEPT ![e] = "gone"]
    /\ UNCHANGED <<keeper, watcher, looked, forks, succeeded, training, missed, trainings>>

AllDone == (\A k \in Keeper : keeper[k] = "done") /\ UNCHANGED supervisorVars

SupervisorNext ==
    \/ TrainingStarts \/ TrainingEnds \/ AllDone
    \/ \E k \in Keeper : Keeps(k) \/ Watches(k) \/ KillWatcher(k)
    \/ \E e \in Evaluator :
          \/ CloseFds(e) \/ Exec(e) \/ SucceedEvaluation(e) \/ FailEvaluation(e) \/ End(e)
          \/ KillEvaluator(e)

SupervisorSpec == SupervisorInit /\ [][SupervisorNext]_supervisorVars

\* Loops and watchers go on, an evaluator ends one way or the other, and so does
\* a training job.
SupervisorFairness ==
    /\ \A k \in Keeper : WF_supervisorVars(Keeps(k)) /\ WF_supervisorVars(Watches(k))
    /\ \A e \in Evaluator :
          WF_supervisorVars(CloseFds(e) \/ Exec(e) \/ SucceedEvaluation(e)
                            \/ FailEvaluation(e) \/ End(e))
    /\ WF_supervisorVars(TrainingEnds)

SupervisorFairSpec == SupervisorSpec /\ SupervisorFairness

-----------------------------------------------------------------------------
(* Properties                                                              *)

Alive(e) == evaluator[e] \in {"forked", "closed", "running", "ending"}
Starts(e) == evaluator[e] = "unborn" /\ evaluator'[e] = "forked"

\* Whoever keeps watchers, and whichever of them are killed, an evaluator is
\* started beside another in one case only: the other was between close and exec,
\* with neither the lock nor the command line, when the new one's watcher listed
\* the processes.  (Its own watcher was ended there.)  A child that still has the
\* lock, one that is visible and one whose watcher lives keep it from happening.
OneEvaluator ==
    [][\A e \in Evaluator : Starts(e) =>
         \A d \in Evaluator : Alive(d) => d \in unseen[forkedBy'[e]]]_supervisorVars

\* A finished evaluation is not started again: a watcher that saw no process
\* looks for SUCCESS.json after that, not before.  Only a child it could not see
\* may have run to its end since.
NeverRestartsFinished ==
    [][\A e \in Evaluator : Starts(e) /\ succeeded =>
         \E d \in unseen[forkedBy'[e]] : evaluator[d] \in {"ending", "gone"}]_supervisorVars

\* When pause_evaluation returns, the only evaluators left are another keeper's,
\* or one that a stopped watcher had just forked and pgrep could not yet see.
PauseIsComplete ==
    "waiter" \in Keeper =>
        (keeper["waiter"] = "paused" =>
            \A e \in Evaluator : evaluator[e] \in {"forked", "closed", "running"} =>
                forkedBy[e] # "waiter" \/ e \in missed)

\* If training, failures and cleanups come to an end, so does the evaluation,
\* with success.
SupervisionSucceeds == <>succeeded

=============================================================================
