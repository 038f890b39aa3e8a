-------------------------- MODULE CheckpointResume --------------------------
(***************************************************************************)
(* Saving, retention and resumption of checkpoints: _save_checkpoint and   *)
(* _load_checkpoint of verl/verl/trainer/main_ppo_sync.py with the FSDP    *)
(* checkpoint manager of verl/verl/utils/checkpoint.                       *)
(*                                                                         *)
(* The ranks save their shards concurrently between barriers, one file at  *)
(* a time, each published by an atomic rename; rank 0 prunes older         *)
(* checkpoints before and after.  The driver then writes the dataloader    *)
(* state and last the tracker file, both in place.  A crash may come       *)
(* between any two steps, and takes every process with it.                 *)
(*                                                                         *)
(* Abstractions.  What a rank holds in a part of its state (model,         *)
(* optimizer, extra) is a snapshot: the step it was trained to and the     *)
(* life (incarnation of the run) that trained it.  Pruning is one step;    *)
(* it removes global_step_N/actor only, so the folder N itself, which      *)
(* find_latest_ckpt_path tests, is always there.  The critic, the HF       *)
(* export and async_save are left out, as are epochs: total_training_steps *)
(* is set and total_epochs never reached, as in configs/base.yaml.         *)
(***************************************************************************)
EXTENDS Integers, Sequences, FiniteSets

CONSTANTS
    Rank,          \* FSDP ranks
    Rank0,         \* the one that prunes
    TotalSteps,    \* total_training_steps
    SaveFreq,      \* trainer.save_freq
    Keep,          \* max_actor_ckpt_to_keep; 0: None, keep all
    MaxLives       \* bound: how often the run is started

ASSUME CheckpointAssumption ==
    /\ Rank0 \in Rank
    /\ TotalSteps \in Nat \ {0}
    /\ SaveFreq \in Nat \ {0}
    /\ Keep \in Nat
    /\ MaxLives \in Nat \ {0}

MaxStep == TotalSteps + MaxLives - 1
Step == 1 .. MaxStep
Life == 0 .. MaxLives
File == {"model", "optim", "extra"}
Snapshot == [step : 0 .. MaxStep, life : Life]
Initial == [step |-> 0, life |-> 0]     \* the pretrained model; never saved
NoFile == Initial

Missing == -2       \* a file that does not exist
Torn == -1          \* a file opened for writing and not written

VARIABLES
    pc,        \* the driver
    step,      \* self.global_steps
    mem,       \* rank -> part of its state -> snapshot
    drawn,     \* batches drawn from the train dataloader
    rankPc,    \* rank -> progress of its save_checkpoint
    prev,      \* rank 0's previous_saved_paths
    files,     \* checkpoint -> rank -> file -> snapshot
    data,      \* checkpoint -> its data.pt
    tracker,   \* latest_checkpointed_iteration.txt
    life       \* starts of the run so far

memory == <<step, mem, drawn, prev>>
disk == <<files, data, tracker>>
vars == <<pc, memory, rankPc, disk, life>>

Everywhere(snapshot) == [r \in Rank |-> [f \in File |-> snapshot]]

-----------------------------------------------------------------------------
Init ==
    /\ pc = "down"
    /\ step = 0
    /\ mem = Everywhere(Initial)
    /\ drawn = 0
    /\ rankPc = [r \in Rank |-> "idle"]
    /\ prev = <<>>
    /\ files = [n \in Step |-> Everywhere(NoFile)]
    /\ data = [n \in Step |-> Missing]
    /\ tracker = Missing
    /\ life = 0

-----------------------------------------------------------------------------
(* Starting: find_latest_ckpt_path and _load_checkpoint                    *)

Loadable(n) ==
    /\ \A r \in Rank, f \in File : files[n][r][f] # NoFile
    /\ data[n] # Torn

\* Mutant: the dataloader starts over.
ResumePosition_Zero(n) == 0

\* Without a data.pt the dataloader starts from scratch.
ResumePosition(n) == IF data[n] = Missing THEN 0 ELSE data[n]

StartFromScratch ==
    /\ pc = "down"
    /\ life < MaxLives
    /\ tracker = Missing
    /\ pc' = "train"
    /\ step' = 1
    /\ mem' = Everywhere(Initial)
    /\ drawn' = 0
    /\ life' = life + 1
    /\ UNCHANGED <<rankPc, prev, disk>>

\* Every rank loads its three files; the first step is the one after.
Resume(n) ==
    /\ pc = "down"
    /\ life < MaxLives
    /\ tracker = n
    /\ Loadable(n)
    /\ pc' = "train"
    /\ step' = n + 1
    /\ mem' = files[n]
    /\ drawn' = ResumePosition(n)
    /\ life' = life + 1
    /\ UNCHANGED <<rankPc, prev, disk>>

\* int("") of an empty tracker raises, as does loading a file that is not
\* there or not whole; so will every later start.
RefuseStart ==
    /\ pc = "down"
    /\ life < MaxLives
    /\ tracker = Torn \/ \E n \in Step : tracker = n /\ ~Loadable(n)
    /\ pc' = "refused"
    /\ life' = life + 1
    /\ UNCHANGED <<memory, rankPc, disk>>

-----------------------------------------------------------------------------
(* Training                                                                *)

\* Mutant: one step too many.
IsLastStep_OffByOne == step > TotalSteps

IsLastStep == step >= TotalSteps

SaveDue == IsLastStep \/ step % SaveFreq = 0

\* One step on the next batch, on all ranks together; then the save.
TrainStep ==
    /\ pc = "train"
    /\ mem' = Everywhere([step |-> step, life |-> life])
    /\ drawn' = drawn + 1
    /\ IF SaveDue
          THEN pc' = "save" /\ rankPc' = [r \in Rank |-> "begin"]
          ELSE pc' = "next" /\ UNCHANGED rankPc
    /\ UNCHANGED <<step, prev, disk, life>>

\* global_steps += 1; fit returns after the last step.
NextStep ==
    /\ pc = "next"
    /\ pc' = IF IsLastStep THEN "done" ELSE "train"
    /\ step' = step + 1
    /\ UNCHANGED <<mem, drawn, prev, rankPc, disk, life>>

-----------------------------------------------------------------------------
(* Saving: FSDPCheckpointManager.save_checkpoint on every rank             *)

\* The k oldest of the paths are removed, with every shard in them.
Oldest(paths, k) == {paths[i] : i \in 1 .. k}
Without(removed) ==
    [n \in Step |-> IF n \in removed THEN Everywhere(NoFile) ELSE files[n]]

\* Mutant: the room is made after the save only.
CapacityExcess_None == 0

\* Mutant: one path too many is removed.
CapacityExcess_OneMore ==
    IF Keep > 1 /\ Len(prev) >= Keep - 1 THEN Len(prev) - Keep + 2 ELSE 0

\* ensure_checkpoint_capacity; nothing for max_ckpt_to_keep None or 1.
CapacityExcess == IF Keep > 1 /\ Len(prev) >= Keep THEN Len(prev) - Keep + 1 ELSE 0

\* Rank 0 makes room; every rank makes the folder.
Prepare(r) ==
    /\ rankPc[r] = "begin"
    /\ IF r = Rank0
          THEN /\ files' = Without(Oldest(prev, CapacityExcess))
               /\ prev' = SubSeq(prev, CapacityExcess + 1, Len(prev))
          ELSE UNCHANGED <<files, prev>>
    /\ rankPc' = [rankPc EXCEPT ![r] = "model"]
    /\ UNCHANGED <<pc, step, mem, drawn, data, tracker, life>>

\* After the first barrier, model, optim and extra state one after the other,
\* each renamed into place, over an older life's if there is one.
SaveFile(r, f) ==
    /\ rankPc[r] = f
    /\ \A q \in Rank : rankPc[q] # "begin"
    /\ files' = [files EXCEPT ![step][r][f] = mem[r][f]]
    /\ rankPc' = [rankPc EXCEPT ![r] =
                    CASE f = "model" -> "optim"
                      [] f = "optim" -> "extra"
                      [] f = "extra" -> "written"]
    /\ UNCHANGED <<pc, memory, data, tracker, life>>

RetentionExcess(paths) == IF Keep > 0 /\ Len(paths) > Keep THEN Len(paths) - Keep ELSE 0

\* Mutant: no barrier; rank 0 goes on when its own files are written.
AllWritten_Rank0 == rankPc[Rank0] = "written"

AllWritten == \A r \in Rank : rankPc[r] = "written"

\* After the last barrier rank 0 does register_checkpoint, and the driver's
\* call returns.
Register ==
    LET paths == Append(prev, step) IN
    /\ pc = "save"
    /\ AllWritten
    /\ prev' = SubSeq(paths, RetentionExcess(paths) + 1, Len(paths))
    /\ files' = Without(Oldest(paths, RetentionExcess(paths)))
    /\ rankPc' = [r \in Rank |-> "idle"]
    /\ pc' = "data"
    /\ UNCHANGED <<step, mem, drawn, data, tracker, life>>

\* torch.save(train_dataloader.state_dict(), "data.pt"), in place.
OpenData ==
    /\ pc = "data"
    /\ data' = [data EXCEPT ![step] = Torn]
    /\ pc' = "dataOpen"
    /\ UNCHANGED <<memory, rankPc, files, tracker, life>>

WriteData ==
    /\ pc = "dataOpen"
    /\ data' = [data EXCEPT ![step] = drawn]
    /\ pc' = "tracker"
    /\ UNCHANGED <<memory, rankPc, files, tracker, life>>

\* with open(tracker, "w") as f: f.write(str(self.global_steps))
OpenTracker ==
    /\ pc = "tracker"
    /\ tracker' = Torn
    /\ pc' = "trackerOpen"
    /\ UNCHANGED <<memory, rankPc, files, data, life>>

WriteTracker ==
    /\ pc = "trackerOpen"
    /\ tracker' = step
    /\ pc' = "next"
    /\ UNCHANGED <<memory, rankPc, files, data, life>>

-----------------------------------------------------------------------------
(* Crashes, and starting a run that had finished                           *)

Stop ==
    /\ life < MaxLives
    /\ pc' = "down"
    /\ step' = 0
    /\ mem' = Everywhere(Initial)
    /\ drawn' = 0
    /\ prev' = <<>>
    /\ rankPc' = [r \in Rank |-> "idle"]
    /\ UNCHANGED <<disk, life>>

Crash == pc \notin {"down", "done", "refused"} /\ Stop
StartAgain == pc = "done" /\ Stop

Start == StartFromScratch \/ RefuseStart \/ \E n \in Step : Resume(n)
Save ==
    \/ \E r \in Rank : Prepare(r) \/ \E f \in File : SaveFile(r, f)
    \/ Register \/ OpenData \/ WriteData \/ OpenTracker \/ WriteTracker
Progress == Start \/ TrainStep \/ NextStep \/ Save

Terminated == pc \in {"done", "refused"} /\ UNCHANGED vars

Next == Progress \/ Crash \/ StartAgain \/ Terminated

Spec == Init /\ [][Next]_vars

\* A started run keeps being scheduled, and one that is down is started again
\* as long as the bound on its lives allows; nothing makes it crash.
FairSpec == Spec /\ WF_vars(Progress)

-----------------------------------------------------------------------------
(* Properties                                                              *)

Position == {Missing, Torn} \cup 0 .. MaxStep
DriverPc == {"down", "refused", "train", "next", "save", "data", "dataOpen", "tracker",
             "trackerOpen", "done"}

\* Every variable ranges over the values the code can give it; no life trains
\* more than one step beyond the last.
TypeOK ==
    /\ pc \in DriverPc
    /\ step \in 0 .. MaxStep + 1
    /\ mem \in [Rank -> [File -> Snapshot]]
    /\ drawn \in 0 .. MaxStep
    /\ rankPc \in [Rank -> {"idle", "begin", "model", "optim", "extra", "written"}]
    /\ prev \in Seq(Step)
    /\ files \in [Step -> [Rank -> [File -> Snapshot]]]
    /\ data \in [Step -> Position]
    /\ tracker \in {Missing, Torn} \cup Step
    /\ life \in Life

\* The checkpoint the tracker names is whole: every rank's three files are
\* there, all of one life's training to that very step, and its data.pt is at
\* that step's batch.
WholeCheckpoint(n) ==
    /\ \E l \in Life \ {0} :
          \A r \in Rank, f \in File : files[n][r][f] = [step |-> n, life |-> l]
    /\ data[n] = n

TrackedIsWhole == tracker \in Step => WholeCheckpoint(tracker)

\* While a run lives it never has more than max_ckpt_to_keep of its own
\* checkpoints on disk, not even in the middle of a save.
OwnCheckpointsBounded ==
    Keep > 1 /\ pc # "down" =>
        Cardinality({n \in Step : \E r \in Rank, f \in File : files[n][r][f].life = life
                                                            /\ life > 0}) <= Keep

\* A run started again and again finishes, unless a crash came between
\* opening and writing the tracker.
EndsUnlessTorn == <>(pc = "done" \/ (pc = "refused" /\ tracker = Torn))

-----------------------------------------------------------------------------
(* The inductive invariant behind TypeOK and TrackedIsWhole                 *)

Saving == {"save", "data", "dataOpen", "tracker", "trackerOpen"}
Saved == Saving \ {"save"}

\* How far a life can have trained, and what the dataloader then has drawn.
StepsBounded ==
    /\ pc = "train" => step \in 1 .. TotalSteps + life - 1 /\ drawn = step - 1
    /\ pc \in Saving \cup {"next"} =>
          /\ step \in 1 .. TotalSteps + life - 1
          /\ drawn = step
          /\ mem = Everywhere([step |-> step, life |-> life])
    /\ pc \in {"tracker", "trackerOpen"} => data[step] = step
    /\ tracker \in Step => tracker <= TotalSteps + life - 1 /\ data[tracker] = tracker
    /\ pc # "down" => life > 0

\* The ranks are in a save exactly while the driver waits for them.
RanksInStep ==
    /\ pc = "save" => \A r \in Rank : rankPc[r] # "idle"
    /\ pc # "save" => rankPc = [r \in Rank |-> "idle"]

\* A save that has come to some point has written what comes before it.
SavedFiles ==
    LET now == [step |-> step, life |-> life] IN
    /\ pc = "save" => \A r \in Rank :
          /\ rankPc[r] \in {"optim", "extra", "written"} => files[step][r]["model"] = now
          /\ rankPc[r] \in {"extra", "written"} => files[step][r]["optim"] = now
          /\ rankPc[r] = "written" => files[step][r]["extra"] = now
    /\ pc \in Saved => files[step] = Everywhere(now)

\* The tracker is behind the step being trained until that step is saved.
TrackerBehind ==
    tracker \in Step =>
        /\ pc = "train" \/ pc \in Saving => tracker < step
        /\ pc = "next" => tracker <= step

\* rank 0's list holds earlier steps, and the tracked one only at its end.
TrackedIsNewest ==
    /\ pc = "down" => prev = <<>>
    /\ pc \in {"train", "save"} => \A i \in 1 .. Len(prev) : prev[i] < step
    /\ pc \in Saved => \A i \in 1 .. Len(prev) - 1 : prev[i] < step
    /\ pc \in Saved \cup {"next"} => \A i \in 1 .. Len(prev) : prev[i] <= step
    /\ pc \in {"train", "save", "next"} => \A i \in 1 .. Len(prev) - 1 : prev[i] # tracker

\* All ranks and the dataloader hold one state whenever a step may begin.
OneState ==
    /\ pc \in {"train", "done"} =>
          /\ drawn = step - 1
          /\ \E l \in Life : mem = Everywhere([step |-> step - 1, life |-> l])
    /\ pc = "trackerOpen" => tracker = Torn

ProgressInv == StepsBounded /\ RanksInStep /\ TrackerBehind
CheckpointInv == SavedFiles /\ TrackedIsNewest /\ TrackedIsWhole

-----------------------------------------------------------------------------
(* Refinement: a run is a value that is trained, committed and, after a     *)
(* crash, taken up again where it was committed.                            *)

Live == pc \notin {"down", "refused"}

Mixed == [step |-> -1, life |-> -1]

\* What all ranks and the dataloader agree the run has been trained to.
CommonState ==
    LET s == mem[Rank0]["model"] IN
    IF mem = Everywhere(s) /\ drawn = s.step THEN s ELSE Mixed

RunState == IF Live THEN CommonState ELSE Initial
CommittedState ==
    CASE tracker = Missing -> Initial
      [] tracker = Torn -> Mixed
      [] OTHER -> files[tracker][Rank0]["model"]

Durable == INSTANCE DurableTraining WITH
    Unreadable <- Mixed,
    running    <- Live,
    current    <- RunState,
    committed  <- CommittedState

ImplementsDurable == Durable!DurableSpec

=============================================================================
