----------------------- MODULE CheckpointResumeProofs ------------------------
(***************************************************************************)
(* Machine-checked proofs about CheckpointResume: its types for every      *)
(* retention limit, the tracked checkpoint whole for every limit but one   *)
(* (with which it is not), and that saving, crashing and resuming implement*)
(* DurableTraining: each step of the ranks and the driver is one of its    *)
(* steps or changes nothing it sees.                                       *)
(***************************************************************************)
EXTENDS CheckpointResume, FiniteSetTheorems, TLAPS

-----------------------------------------------------------------------------
(* Types                                                                   *)

TypedProgress == TypeOK /\ ProgressInv

LEMMA Constants ==
    /\ \A l \in Life : l > 0 => TotalSteps + l - 1 \in Step
    /\ MaxStep \in Nat /\ MaxStep >= 1
    /\ Missing \notin Step /\ Torn \notin Step
    /\ Initial \in Snapshot
    /\ \A n \in Step, l \in Life : [step |-> n, life |-> l] \in Snapshot
BY CheckpointAssumption DEF MaxStep, Step, Life, Missing, Torn, Initial, Snapshot

LEMMA EverywhereTyped ==
    ASSUME NEW s \in Snapshot
    PROVE  Everywhere(s) \in [Rank -> [File -> Snapshot]]
BY DEF Everywhere

\* How many paths a rotation removes, and what of the list is left.
LEMMA ExcessBounds ==
    ASSUME NEW paths \in Seq(Step)
    PROVE  /\ RetentionExcess(paths) \in 0 .. Len(paths)
           /\ Keep # 1 /\ paths # <<>> => RetentionExcess(paths) <= Len(paths) - 1
           /\ Keep = 1 \/ RetentionExcess(paths) = 0 \/ RetentionExcess(paths) <= Len(paths) - 2
BY CheckpointAssumption DEF RetentionExcess

LEMMA CapacityBounds ==
    ASSUME TypeOK
    PROVE  /\ CapacityExcess \in 0 .. Len(prev)
           /\ CapacityExcess = 0 \/ CapacityExcess <= Len(prev) - 1
BY CheckpointAssumption DEF CapacityExcess, TypeOK

LEMMA RestOfPaths ==
    ASSUME NEW paths \in Seq(Step), NEW k \in 0 .. Len(paths)
    PROVE  /\ SubSeq(paths, k + 1, Len(paths)) \in Seq(Step)
           /\ Len(SubSeq(paths, k + 1, Len(paths))) = Len(paths) - k
           /\ \A i \in 1 .. Len(paths) - k :
                 SubSeq(paths, k + 1, Len(paths))[i] = paths[i + k]
OBVIOUS

LEMMA WithoutTyped ==
    ASSUME TypeOK, NEW removed
    PROVE  /\ Without(removed) \in [Step -> [Rank -> [File -> Snapshot]]]
           /\ \A n \in Step \ removed : Without(removed)[n] = files[n]
BY Constants, EverywhereTyped DEF Without, TypeOK, NoFile

-----------------------------------------------------------------------------
(* Types, and how far a life trains                                        *)

LEMMA InitTypedProgress == Init => TypedProgress
<1> SUFFICES ASSUME Init PROVE TypedProgress
  OBVIOUS
<1>1. TypeOK
  BY Constants, EverywhereTyped, CheckpointAssumption
  DEF Init, TypeOK, DriverPc, Position, Life, NoFile
<1>2. StepsBounded /\ RanksInStep /\ TrackerBehind
  BY Constants DEF Init, StepsBounded, RanksInStep, TrackerBehind, Saving, Saved
<1> QED BY <1>1, <1>2 DEF TypedProgress, ProgressInv

LEMMA StartTyped == TypedProgress /\ Start => TypedProgress'
<1> SUFFICES ASSUME TypedProgress, Start PROVE TypedProgress'
  OBVIOUS
<1> USE CheckpointAssumption DEF TypedProgress, TypeOK, ProgressInv, DriverPc, disk, memory
<1>1. CASE StartFromScratch
  <2>1. TypeOK'
    BY <1>1, Constants, EverywhereTyped DEF StartFromScratch, Life
  <2>2. StepsBounded' /\ RanksInStep' /\ TrackerBehind'
    BY <1>1, Constants DEF StartFromScratch, StepsBounded, RanksInStep, TrackerBehind,
                           Saving, Saved, Life
  <2> QED BY <2>1, <2>2
<1>2. CASE RefuseStart
  <2>1. TypeOK'
    BY <1>2 DEF RefuseStart, Life
  <2>2. StepsBounded' /\ RanksInStep' /\ TrackerBehind'
    BY <1>2, Constants DEF RefuseStart, StepsBounded, RanksInStep, TrackerBehind,
                           Saving, Saved, Life, Step
  <2> QED BY <2>1, <2>2
<1>3. ASSUME NEW n \in Step, Resume(n) PROVE TypedProgress'
  <2>1. data[n] = n /\ n <= TotalSteps + life - 1
    BY <1>3 DEF Resume, StepsBounded
  <2>2. ResumePosition(n) = n
    BY <2>1, Constants DEF ResumePosition
  <2>3. n + 1 \in 1 .. TotalSteps + life' - 1 /\ life' \in Life /\ life' > 0
    BY <1>3, <2>1 DEF Resume, Life, Step, MaxStep
  <2>4. n + 1 \in Step
    BY <2>3, Constants DEF Step
  <2>5. TypeOK'
    BY <1>3, <2>2, <2>3, <2>4, Constants DEF Resume, Step
  <2>6. StepsBounded'
    BY <1>3, <2>1, <2>2, <2>3 DEF Resume, StepsBounded, Saving, Saved, Step, Life
  <2>7. RanksInStep' /\ TrackerBehind'
    BY <1>3, Constants DEF Resume, RanksInStep, TrackerBehind, Saving, Step
  <2> QED BY <2>5, <2>6, <2>7
<1> QED BY <1>1, <1>2, <1>3 DEF Start

LEMMA TrainTyped == TypedProgress /\ (TrainStep \/ NextStep) => TypedProgress'
<1> SUFFICES ASSUME TypedProgress, TrainStep \/ NextStep PROVE TypedProgress'
  OBVIOUS
<1> USE CheckpointAssumption DEF TypedProgress, TypeOK, ProgressInv, DriverPc, disk
<1>1. CASE TrainStep
  <2>1. step \in 1 .. TotalSteps + life - 1 /\ drawn = step - 1 /\ step \in Step /\ life > 0
    BY <1>1, Constants DEF TrainStep, StepsBounded, Step
  <2>2. mem' = Everywhere([step |-> step, life |-> life]) /\ drawn' = step
    BY <1>1, <2>1 DEF TrainStep, Step
  <2>3. mem' \in [Rank -> [File -> Snapshot]]
    BY <2>1, <2>2, Constants, EverywhereTyped
  <2>4. rankPc' \in [Rank -> {"idle", "begin", "model", "optim", "extra", "written"}]
    BY <1>1 DEF TrainStep
  <2>5. TypeOK'
    BY <1>1, <2>1, <2>2, <2>3, <2>4 DEF TrainStep, Step, MaxStep
  <2>6. StepsBounded' /\ TrackerBehind'
    BY <1>1, <2>1, <2>2 DEF TrainStep, StepsBounded, TrackerBehind, Saving, Saved, Step
  <2>7. RanksInStep'
    BY <1>1 DEF TrainStep, RanksInStep
  <2> QED BY <2>5, <2>6, <2>7
<1>2. CASE NextStep
  <2>1. step \in 1 .. TotalSteps + life - 1 /\ drawn = step /\ step \in Step /\ life > 0
    BY <1>2, Constants DEF NextStep, StepsBounded, Step
  <2>2. pc' = "train" => step' \in 1 .. TotalSteps + life - 1
    BY <1>2, <2>1 DEF NextStep, IsLastStep, Life, Step, MaxStep
  <2>3. TypeOK'
    BY <1>2, <2>1 DEF NextStep, Step, MaxStep
  <2>4. StepsBounded' /\ TrackerBehind'
    BY <1>2, <2>1, <2>2 DEF NextStep, StepsBounded, TrackerBehind, Saving, Saved, Step
  <2>5. RanksInStep'
    BY <1>2 DEF NextStep, RanksInStep
  <2> QED BY <2>3, <2>4, <2>5
<1> QED BY <1>1, <1>2

LEMMA SaveTyped == TypedProgress /\ Save => TypedProgress'
<1> SUFFICES ASSUME TypedProgress, Save PROVE TypedProgress'
  OBVIOUS
<1> USE CheckpointAssumption DEF TypedProgress, TypeOK, ProgressInv, DriverPc, memory
<1>1. ASSUME NEW r \in Rank, Prepare(r) PROVE TypedProgress'
  <2>1. pc = "save"
    BY <1>1 DEF Prepare, RanksInStep
  <2>2. /\ SubSeq(prev, CapacityExcess + 1, Len(prev)) \in Seq(Step)
        /\ Without(Oldest(prev, CapacityExcess)) \in [Step -> [Rank -> [File -> Snapshot]]]
    BY CapacityBounds, RestOfPaths, WithoutTyped
  <2>3. TypeOK'
    BY <1>1, <2>2 DEF Prepare
  <2>4. RanksInStep'
    BY <1>1, <2>1 DEF Prepare, RanksInStep
  <2>5. StepsBounded' /\ TrackerBehind'
    BY <1>1 DEF Prepare, StepsBounded, TrackerBehind
  <2> QED BY <2>3, <2>4, <2>5
<1>2. ASSUME NEW r \in Rank, NEW f \in File, SaveFile(r, f) PROVE TypedProgress'
  <2>1. pc = "save" /\ f \in {"model", "optim", "extra"}
    BY <1>2 DEF SaveFile, RanksInStep, File
  <2>2. step \in Step
    BY <2>1, Constants DEF StepsBounded, Saving, Step
  <2>3. files' \in [Step -> [Rank -> [File -> Snapshot]]]
    BY <1>2, <2>2 DEF SaveFile
  <2>4. /\ rankPc' \in [Rank -> {"idle", "begin", "model", "optim", "extra", "written"}]
        /\ \A q \in Rank : rankPc'[q] = rankPc[q] \/ rankPc'[q] \in {"optim", "extra", "written"}
    BY <1>2, <2>1 DEF SaveFile
  <2>5. TypeOK'
    BY <1>2, <2>3, <2>4 DEF SaveFile
  <2>6. RanksInStep'
    BY <1>2, <2>1, <2>4 DEF SaveFile, RanksInStep
  <2>7. StepsBounded' /\ TrackerBehind'
    BY <1>2 DEF SaveFile, StepsBounded, TrackerBehind
  <2> QED BY <2>5, <2>6, <2>7
<1>3. CASE Register
  <2>1. step \in Step
    BY <1>3, Constants DEF Register, StepsBounded, Saving, Step
  <2>2. Append(prev, step) \in Seq(Step)
    BY <2>1
  <2>3. prev' \in Seq(Step) /\ files' \in [Step -> [Rank -> [File -> Snapshot]]]
    BY <1>3, <2>2, ExcessBounds, RestOfPaths, WithoutTyped DEF Register
  <2>4. TypeOK'
    BY <1>3, <2>3 DEF Register
  <2>5. StepsBounded' /\ TrackerBehind' /\ RanksInStep'
    BY <1>3 DEF Register, StepsBounded, TrackerBehind, RanksInStep, Saving, Saved
  <2> QED BY <2>4, <2>5
<1>4. CASE OpenData \/ WriteData
  <2>1. step \in Step /\ drawn = step
    BY <1>4, Constants DEF OpenData, WriteData, StepsBounded, Saving, Saved, Step
  <2>2. data' \in [Step -> Position]
    <3>1. Torn \in Position /\ drawn \in Position
      BY DEF Position
    <3> QED BY <1>4, <2>1, <3>1 DEF OpenData, WriteData
  <2>3. TypeOK'
    BY <1>4, <2>2 DEF OpenData, WriteData
  <2>4. tracker \in Step => tracker # step
    BY <1>4, <2>1 DEF OpenData, WriteData, TrackerBehind, Saving, Step
  <2>5. StepsBounded'
    BY <1>4, <2>1, <2>4 DEF OpenData, WriteData, StepsBounded, Saving, Saved
  <2>6. TrackerBehind'
    BY <1>4, <2>1, <2>4 DEF OpenData, WriteData, TrackerBehind, Saving
  <2>7. RanksInStep'
    BY <1>4, <2>1 DEF OpenData, WriteData, RanksInStep, Saved
  <2> QED BY <2>3, <2>5, <2>6, <2>7
<1>5. CASE OpenTracker
  <2>1. TypeOK'
    BY <1>5 DEF OpenTracker
  <2>2. StepsBounded' /\ TrackerBehind' /\ RanksInStep'
    BY <1>5, Constants
    DEF OpenTracker, StepsBounded, TrackerBehind, RanksInStep, Saving, Saved
  <2> QED BY <2>1, <2>2
<1>6. CASE WriteTracker
  <2>1. step \in Step /\ step \in 1 .. TotalSteps + life - 1 /\ data[step] = step
    BY <1>6, Constants DEF WriteTracker, StepsBounded, Saving, Saved, Step
  <2>2. TypeOK'
    BY <1>6, <2>1 DEF WriteTracker
  <2>3. StepsBounded' /\ TrackerBehind' /\ RanksInStep'
    BY <1>6, <2>1
    DEF WriteTracker, StepsBounded, TrackerBehind, RanksInStep, Saving, Saved
  <2> QED BY <2>2, <2>3
<1> QED BY <1>1, <1>2, <1>3, <1>4, <1>5, <1>6 DEF Save

LEMMA HaltTyped == TypedProgress /\ (Crash \/ StartAgain) => TypedProgress'
<1> SUFFICES ASSUME TypedProgress, Stop PROVE TypedProgress'
  BY DEF Crash, StartAgain
<1> USE CheckpointAssumption DEF TypedProgress, TypeOK, ProgressInv, DriverPc, disk
<1>1. TypeOK'
  BY Constants, EverywhereTyped DEF Stop
<1>2. StepsBounded' /\ TrackerBehind' /\ RanksInStep'
  BY DEF Stop, StepsBounded, TrackerBehind, RanksInStep, Saving, Saved
<1> QED BY <1>1, <1>2

LEMMA NextTypedProgress == TypedProgress /\ [Next]_vars => TypedProgress'
<1> SUFFICES ASSUME TypedProgress, [Next]_vars PROVE TypedProgress'
  OBVIOUS
<1>1. CASE UNCHANGED vars
  BY <1>1 DEF vars, memory, disk, TypedProgress, TypeOK, ProgressInv, StepsBounded,
              RanksInStep, TrackerBehind
<1>2. CASE Progress
  BY <1>2, StartTyped, TrainTyped, SaveTyped DEF Progress
<1>3. CASE Crash \/ StartAgain
  BY <1>3, HaltTyped
<1> QED BY <1>1, <1>2, <1>3 DEF Next, Terminated

\* The state of a training run that is saved, crashed and resumed at any point
\* stays within its types, whatever max_ckpt_to_keep is; in particular no life
\* of the run trains more than one step beyond the last.
THEOREM CheckpointTypeCorrect == Spec => []TypeOK
<1>1. Spec => []TypedProgress
  BY InitTypedProgress, NextTypedProgress, PTL DEF Spec
<1>2. TypedProgress => TypeOK
  BY DEF TypedProgress
<1> QED BY <1>1, <1>2, PTL

-----------------------------------------------------------------------------
(* The tracked checkpoint is whole                                         *)

WholeInv == TypedProgress /\ CheckpointInv

\* The tracked checkpoint stays whole if no step touches it.
LEMMA TrackedUntouched ==
    ASSUME WholeInv, tracker' = tracker,
           tracker \in Step => files'[tracker] = files[tracker] /\ data'[tracker] = data[tracker]
    PROVE  TrackedIsWhole'
BY DEF WholeInv, CheckpointInv, TrackedIsWhole, WholeCheckpoint

LEMMA OldestSpares ==
    ASSUME NEW paths \in Seq(Step), NEW k \in 0 .. Len(paths), NEW n,
           \A i \in 1 .. k : paths[i] # n
    PROVE  n \notin Oldest(paths, k)
BY DEF Oldest

LEMMA InitWhole == Init => CheckpointInv
<1> SUFFICES ASSUME Init PROVE CheckpointInv
  OBVIOUS
<1>1. SavedFiles /\ TrackedIsNewest
  BY DEF Init, SavedFiles, TrackedIsNewest, Saving, Saved
<1>2. TrackedIsWhole
  BY Constants DEF Init, TrackedIsWhole
<1> QED BY <1>1, <1>2 DEF CheckpointInv

LEMMA StartWhole == WholeInv /\ Start => CheckpointInv'
<1> SUFFICES ASSUME WholeInv, Start PROVE CheckpointInv'
  OBVIOUS
<1>1. pc = "down" /\ pc' \in {"train", "refused"} /\ UNCHANGED <<prev, disk>> /\ prev = <<>>
  BY DEF Start, StartFromScratch, RefuseStart, Resume, memory, WholeInv, CheckpointInv,
         TrackedIsNewest
<1>2. SavedFiles'
  BY <1>1 DEF SavedFiles, Saving, Saved
<1>3. TrackedIsNewest'
  BY <1>1 DEF TrackedIsNewest, Saving, Saved
<1>4. TrackedIsWhole'
  BY <1>1, TrackedUntouched DEF disk
<1> QED BY <1>2, <1>3, <1>4 DEF CheckpointInv

LEMMA TrainWhole == WholeInv /\ (TrainStep \/ NextStep) => CheckpointInv'
<1> SUFFICES ASSUME WholeInv, TrainStep \/ NextStep PROVE CheckpointInv'
  OBVIOUS
<1> USE DEF WholeInv, CheckpointInv
<1>1. UNCHANGED <<prev, files, data, tracker>>
  BY DEF TrainStep, NextStep, disk
<1>2. prev \in Seq(Step) /\ Len(prev) \in Nat /\ \A i \in 1 .. Len(prev) : prev[i] \in Int
  <2>1. prev \in Seq(Step) /\ Step \subseteq Int
    BY Constants DEF TypedProgress, TypeOK, Step
  <2>2. Len(prev) \in Nat /\ \A i \in 1 .. Len(prev) : prev[i] \in Step
    BY <2>1
  <2> QED BY <2>1, <2>2
<1>3. CASE TrainStep
  <2>1. SavedFiles'
    BY <1>3 DEF TrainStep, SavedFiles, Saving, Saved
  <2>2. step \in Int
    BY <1>3 DEF TypedProgress, TypeOK
  <2>3. TrackedIsNewest'
    BY <1>1, <1>2, <1>3, <2>2 DEF TrainStep, TrackedIsNewest, Saving, Saved
  <2> QED BY <1>1, <2>1, <2>3, TrackedUntouched
<1>4. CASE NextStep
  <2>1. SavedFiles'
    BY <1>4 DEF NextStep, SavedFiles, Saving, Saved
  <2>2. step \in Int
    BY <1>4 DEF TypedProgress, TypeOK
  <2>3. TrackedIsNewest'
    BY <1>1, <1>2, <1>4, <2>2 DEF NextStep, TrackedIsNewest, Saving, Saved
  <2> QED BY <1>1, <2>1, <2>3, TrackedUntouched
<1> QED BY <1>3, <1>4

-----------------------------------------------------------------------------
(* The steps of a save                                                     *)

LEMMA SavingFacts ==
    ASSUME WholeInv, pc \in Saving
    PROVE  /\ step \in Step /\ life \in Life \ {0}
           /\ mem = Everywhere([step |-> step, life |-> life])
           /\ drawn = step
           /\ pc # "trackerOpen" /\ tracker \in Step => tracker # step
           /\ prev \in Seq(Step)
BY Constants
DEF WholeInv, TypedProgress, TypeOK, ProgressInv, StepsBounded, TrackerBehind, Saving, Step, Life

LEMMA PrepareWhole ==
    ASSUME WholeInv, NEW r \in Rank, Prepare(r)
    PROVE  /\ CheckpointInv'
           /\ tracker \in Step => files'[tracker] = files[tracker]
<1> USE DEF WholeInv, CheckpointInv
<1>1. pc = "save" /\ pc' = "save" /\ pc \in Saving
  BY DEF Prepare, TypedProgress, ProgressInv, RanksInStep, Saving
<1>2. UNCHANGED <<step, mem, life, data, tracker>>
  BY DEF Prepare
<1> DEFINE k == CapacityExcess
<1>3. k \in 0 .. Len(prev) /\ (k = 0 \/ k <= Len(prev) - 1)
  BY CapacityBounds DEF TypedProgress
<1>4. /\ \A i \in 1 .. Len(prev) : prev[i] < step
      /\ \A i \in 1 .. Len(prev) - 1 : prev[i] # tracker
  BY <1>1 DEF TrackedIsNewest
<1>5. step \notin Oldest(prev, k) /\ tracker \notin Oldest(prev, k)
  <2>1. \A i \in 1 .. k : prev[i] # step /\ prev[i] # tracker
    BY <1>1, <1>3, <1>4, SavingFacts DEF Step
  <2> QED BY <1>1, <1>3, <2>1, OldestSpares, SavingFacts
<1>6. /\ files'[step] = files[step]
      /\ tracker \in Step => files'[tracker] = files[tracker]
  BY <1>1, <1>5, WithoutTyped, SavingFacts DEF Prepare, TypedProgress
<1>7. SavedFiles'
  <2>1. \A q \in Rank : rankPc'[q] = rankPc[q] \/ rankPc'[q] = "model"
    BY DEF Prepare, TypedProgress, TypeOK
  <2> QED BY <1>1, <1>2, <1>6, <2>1 DEF SavedFiles, Saved
<1>8. TrackedIsNewest'
  <2>1. CASE r = Rank0
    <3>1. /\ Len(prev') = Len(prev) - k
          /\ \A i \in 1 .. Len(prev) - k : prev'[i] = prev[i + k]
      BY <1>1, <1>3, <2>1, RestOfPaths, SavingFacts DEF Prepare
    <3>2. k \in Nat /\ Len(prev) \in Nat
      BY <1>1, <1>3, SavingFacts
    <3>3. \A i \in 1 .. Len(prev) - k : i + k \in 1 .. Len(prev)
      BY <3>2
    <3>4. \A i \in 1 .. Len(prev) - k : prev'[i] < step
      BY <1>4, <3>1, <3>3
    <3>5. \A i \in 1 .. Len(prev) - k - 1 : i \in 1 .. Len(prev) - k /\ i + k \in 1 .. Len(prev) - 1
      BY <3>2
    <3>6. \A i \in 1 .. Len(prev') - 1 : prev'[i] # tracker
      BY <1>4, <3>1, <3>5
    <3> QED BY <1>1, <1>2, <3>1, <3>4, <3>6 DEF TrackedIsNewest, Saved
  <2>2. CASE r # Rank0
    BY <1>1, <1>2, <2>2 DEF Prepare, TrackedIsNewest
  <2> QED BY <2>1, <2>2
<1>9. TrackedIsWhole'
  BY <1>2, <1>6, TrackedUntouched
<1> QED BY <1>6, <1>7, <1>8, <1>9

LEMMA SaveFileWhole ==
    ASSUME WholeInv, NEW r \in Rank, NEW f \in File, SaveFile(r, f)
    PROVE  /\ CheckpointInv'
           /\ tracker \in Step => files'[tracker] = files[tracker]
<1> USE DEF WholeInv, CheckpointInv
<1> DEFINE now == [step |-> step, life |-> life]
<1>1. pc = "save" /\ pc' = "save" /\ pc \in Saving /\ f \in {"model", "optim", "extra"}
  BY DEF SaveFile, TypedProgress, ProgressInv, RanksInStep, Saving, File
<1>2. UNCHANGED <<step, mem, life, prev, data, tracker>>
  BY DEF SaveFile, memory
<1>3. mem[r][f] = now
  BY <1>1, SavingFacts DEF Everywhere
<1>4. /\ files'[step][r][f] = now
      /\ \A q \in Rank, g \in File : <<q, g>> # <<r, f>> => files'[step][q][g] = files[step][q][g]
      /\ \A n \in Step : n # step => files'[n] = files[n]
  BY <1>1, <1>3, SavingFacts DEF SaveFile, TypedProgress, TypeOK
<1>5. SavedFiles'
  <2> SUFFICES ASSUME NEW q \in Rank
               PROVE  /\ rankPc'[q] \in {"optim", "extra", "written"} =>
                            files'[step][q]["model"] = now
                      /\ rankPc'[q] \in {"extra", "written"} => files'[step][q]["optim"] = now
                      /\ rankPc'[q] = "written" => files'[step][q]["extra"] = now
    BY <1>1, <1>2 DEF SavedFiles, Saved
  <2>1. {"model", "optim", "extra"} = File
    BY DEF File
  <2>2. CASE q # r
    <3>1. rankPc'[q] = rankPc[q]
      BY <2>2 DEF SaveFile, TypedProgress, TypeOK
    <3>2. \A g \in File : files'[step][q][g] = files[step][q][g]
      BY <1>4, <2>2
    <3> QED BY <1>1, <2>1, <3>1, <3>2 DEF SavedFiles
  <2>3. CASE q = r
    <3>1. rankPc[r] = f /\ rankPc'[r] = CASE f = "model" -> "optim"
                                          [] f = "optim" -> "extra"
                                          [] f = "extra" -> "written"
      BY DEF SaveFile, TypedProgress, TypeOK
    <3>2. \A g \in File : files'[step][r][g] = IF g = f THEN now ELSE files[step][r][g]
      BY <1>4
    <3> QED BY <1>1, <2>1, <2>3, <3>1, <3>2 DEF SavedFiles
  <2> QED BY <2>2, <2>3
<1>6. TrackedIsNewest'
  BY <1>1, <1>2 DEF TrackedIsNewest
<1>7. TrackedIsWhole'
  BY <1>1, <1>2, <1>4, SavingFacts, TrackedUntouched
<1> QED BY <1>1, <1>4, SavingFacts, <1>5, <1>6, <1>7

LEMMA RegisterWhole ==
    ASSUME Keep # 1, WholeInv, Register
    PROVE  /\ CheckpointInv'
           /\ tracker \in Step => files'[tracker] = files[tracker]
<1> USE DEF WholeInv, CheckpointInv
<1> DEFINE now == [step |-> step, life |-> life]
           paths == Append(prev, step)
           k == RetentionExcess(paths)
<1>1. pc = "save" /\ pc' = "data" /\ pc \in Saving
  BY DEF Register, Saving
<1>2. UNCHANGED <<step, life, data, tracker>>
  BY DEF Register
<1>3. /\ paths \in Seq(Step) /\ Len(paths) = Len(prev) + 1 /\ Len(prev) \in Nat
      /\ paths[Len(paths)] = step
      /\ \A i \in 1 .. Len(prev) : paths[i] = prev[i]
  BY <1>1, SavingFacts
<1>4. k \in 0 .. Len(paths) /\ (k = 0 \/ k <= Len(prev) - 1)
  <2>1. k \in 0 .. Len(paths) /\ (k = 0 \/ k <= Len(paths) - 2)
    BY <1>3, ExcessBounds
  <2> QED BY <1>3, <2>1
<1>5. /\ \A i \in 1 .. Len(prev) : prev[i] < step
      /\ \A i \in 1 .. Len(prev) - 1 : prev[i] # tracker
  BY <1>1 DEF TrackedIsNewest
<1>6. step \notin Oldest(paths, k) /\ tracker \notin Oldest(paths, k)
  <2>1. \A i \in 1 .. k : paths[i] # step /\ paths[i] # tracker
    BY <1>1, <1>3, <1>4, <1>5, SavingFacts DEF Step
  <2> QED BY <1>3, <1>4, <2>1, OldestSpares
<1>7. /\ files'[step] = files[step]
      /\ tracker \in Step => files'[tracker] = files[tracker]
  BY <1>1, <1>6, WithoutTyped, SavingFacts DEF Register, TypedProgress
<1>8. files[step] = Everywhere(now)
  <2>1. \A r \in Rank : rankPc[r] = "written"
    BY DEF Register, AllWritten
  <2>2. \A r \in Rank, f \in File : files[step][r][f] = now
    BY <1>1, <2>1 DEF SavedFiles, File
  <2>3. files[step] \in [Rank -> [File -> Snapshot]]
    BY <1>1, SavingFacts DEF TypedProgress, TypeOK
  <2> QED BY <2>2, <2>3 DEF Everywhere
<1>9. SavedFiles'
  BY <1>1, <1>2, <1>7, <1>8 DEF SavedFiles, Saved
<1>10. TrackedIsNewest'
  <2>1. /\ Len(prev') = Len(paths) - k
        /\ \A i \in 1 .. Len(paths) - k : prev'[i] = paths[i + k]
    BY <1>3, <1>4, RestOfPaths DEF Register
  <2>2. /\ \A i \in 1 .. Len(prev') - 1 : prev'[i] < step
        /\ \A i \in 1 .. Len(prev') : prev'[i] <= step
    <3>1. step \in Int /\ k \in Int /\ Len(paths) \in Int
      BY <1>1, <1>3, <1>4, SavingFacts DEF Step
    <3>2. ASSUME NEW i \in 1 .. Len(prev')
          PROVE  /\ prev'[i] <= step
                 /\ i # Len(prev') => prev'[i] < step
      <4>1. prev'[i] = paths[i + k] /\ i + k \in 1 .. Len(paths)
        BY <1>4, <2>1, <3>1, <3>2
      <4>2. CASE i + k = Len(paths)
        BY <1>3, <2>1, <3>1, <4>1, <4>2
      <4>3. CASE i + k # Len(paths)
        <5>1. i + k \in 1 .. Len(prev)
          BY <1>3, <4>1, <4>3
        <5>2. paths[i + k] = prev[i + k] /\ prev[i + k] < step
          BY <1>3, <1>5, <5>1
        <5>3. prev[i + k] \in Step
          BY <1>1, <5>1, SavingFacts
        <5> QED BY <1>3, <2>1, <3>1, <4>1, <4>3, <5>2, <5>3 DEF Step
      <4> QED BY <4>2, <4>3
    <3>3. Len(prev') \in Int
      BY <2>1, <3>1
    <3> QED BY <3>2, <3>3
  <2> QED BY <1>1, <1>2, <2>2 DEF TrackedIsNewest, Saving, Saved
<1>11. TrackedIsWhole'
  BY <1>2, <1>7, TrackedUntouched
<1> QED BY <1>7, <1>9, <1>10, <1>11

LEMMA DriverSaveWhole ==
    ASSUME WholeInv, OpenData \/ WriteData \/ OpenTracker \/ WriteTracker
    PROVE  CheckpointInv'
<1> USE DEF WholeInv, CheckpointInv
<1>1. /\ pc \in Saved /\ pc \in Saving /\ pc' \in Saved \cup {"next"}
      /\ UNCHANGED <<step, life, prev, files>>
  BY DEF OpenData, WriteData, OpenTracker, WriteTracker, Saving, Saved, memory
<1>2. SavedFiles'
  BY <1>1 DEF SavedFiles, Saving, Saved
<1>3. CASE OpenData \/ WriteData
  <2>1. TrackedIsNewest'
    BY <1>1, <1>3 DEF OpenData, WriteData, TrackedIsNewest, Saving, Saved
  <2>2. tracker \in Step => data'[tracker] = data[tracker]
    BY <1>1, <1>3, SavingFacts DEF OpenData, WriteData, TypedProgress, TypeOK
  <2> QED BY <1>1, <1>2, <1>3, <2>1, <2>2, TrackedUntouched DEF OpenData, WriteData
<1>4. CASE OpenTracker
  <2>1. TrackedIsNewest'
    BY <1>1, <1>4 DEF OpenTracker, TrackedIsNewest, Saving, Saved
  <2>2. TrackedIsWhole'
    BY <1>4, Constants DEF OpenTracker, TrackedIsWhole
  <2> QED BY <1>2, <2>1, <2>2
<1>5. CASE WriteTracker
  <2>1. /\ tracker' = step /\ data[step] = step /\ UNCHANGED data
        /\ files[step] = Everywhere([step |-> step, life |-> life])
    BY <1>1, <1>5 DEF WriteTracker, TypedProgress, ProgressInv, StepsBounded, SavedFiles
  <2>2. TrackedIsWhole'
    BY <1>1, <2>1, SavingFacts DEF TrackedIsWhole, WholeCheckpoint, Everywhere
  <2>3. /\ \A i \in 1 .. Len(prev) - 1 : prev[i] < step
        /\ \A i \in 1 .. Len(prev) : prev[i] <= step
    BY <1>1 DEF TrackedIsNewest
  <2>4. \A i \in 1 .. Len(prev) - 1 : prev[i] # step
    BY <1>1, <2>3, SavingFacts DEF Step
  <2>5. TrackedIsNewest'
    BY <1>1, <1>5, <2>1, <2>3, <2>4 DEF WriteTracker, TrackedIsNewest, Saving, Saved
  <2> QED BY <1>2, <2>2, <2>5
<1> QED BY <1>3, <1>4, <1>5

LEMMA HaltWhole == WholeInv /\ (Crash \/ StartAgain) => CheckpointInv'
<1> SUFFICES ASSUME WholeInv, Stop PROVE CheckpointInv'
  BY DEF Crash, StartAgain
<1>1. pc' = "down" /\ prev' = <<>> /\ UNCHANGED <<files, data, tracker>>
  BY DEF Stop, disk
<1>2. SavedFiles' /\ TrackedIsNewest'
  BY <1>1 DEF SavedFiles, TrackedIsNewest, Saving, Saved
<1> QED BY <1>1, <1>2, TrackedUntouched DEF CheckpointInv

LEMMA NextWhole == Keep # 1 /\ WholeInv /\ [Next]_vars => CheckpointInv'
<1> SUFFICES ASSUME Keep # 1, WholeInv, [Next]_vars PROVE CheckpointInv'
  OBVIOUS
<1>1. CASE UNCHANGED vars
  BY <1>1 DEF vars, memory, disk, WholeInv, CheckpointInv, SavedFiles, TrackedIsNewest,
              TrackedIsWhole, WholeCheckpoint
<1>2. CASE Start \/ TrainStep \/ NextStep
  BY <1>2, StartWhole, TrainWhole
<1>3. CASE Save
  BY <1>3, PrepareWhole, SaveFileWhole, RegisterWhole, DriverSaveWhole DEF Save
<1>4. CASE Crash \/ StartAgain
  BY <1>4, HaltWhole
<1> QED BY <1>1, <1>2, <1>3, <1>4 DEF Next, Progress, Terminated

\* Unless max_ckpt_to_keep is 1, at every moment, whatever crashed before and
\* however many checkpoints are kept, the checkpoint that
\* latest_checkpointed_iteration.txt names is whole: all shards of all ranks,
\* from one life, at that step, and its dataloader state with them.
THEOREM TrackedAlwaysWhole == Keep # 1 /\ Spec => []TrackedIsWhole
<1>1. Spec => []TypedProgress
  BY InitTypedProgress, NextTypedProgress, PTL DEF Spec
<1>2. Init => CheckpointInv
  BY InitWhole
<1>3. Keep # 1 /\ TypedProgress /\ CheckpointInv /\ [Next]_vars => CheckpointInv'
  BY NextWhole DEF WholeInv
<1>4. CheckpointInv => TrackedIsWhole
  BY DEF CheckpointInv
<1>5. ASSUME Keep # 1 PROVE Spec => []TrackedIsWhole
  <2>1. TypedProgress /\ CheckpointInv /\ [Next]_vars => CheckpointInv'
    BY <1>3, <1>5
  <2> QED BY <1>1, <1>2, <1>4, <2>1, PTL DEF Spec
<1> QED BY <1>5

-----------------------------------------------------------------------------
(* Refinement of DurableTraining                                           *)

DurableInv == WholeInv /\ OneState

-----------------------------------------------------------------------------
(* The run always holds one state when it trains or commits                *)

LEMMA InitOneState == Init => OneState
BY DEF Init, OneState

LEMMA NextOneState == DurableInv /\ [Next]_vars => OneState'
<1> SUFFICES ASSUME DurableInv, [Next]_vars PROVE OneState'
  OBVIOUS
<1> USE DEF DurableInv, WholeInv, TypedProgress, ProgressInv, CheckpointInv
<1>1. CASE UNCHANGED vars
  BY <1>1 DEF vars, memory, disk, OneState
<1>2. CASE StartFromScratch
  <2>1. /\ pc' = "train" /\ drawn' = step' - 1
        /\ 0 \in Life /\ mem' = Everywhere([step |-> step' - 1, life |-> 0])
    BY <1>2, CheckpointAssumption DEF StartFromScratch, Initial, Life
  <2> QED BY <2>1 DEF OneState
<1>3. CASE RefuseStart
  BY <1>3 DEF RefuseStart, OneState
<1>4. ASSUME NEW n \in Step, Resume(n) PROVE OneState'
  <2>1. PICK l \in Life : \A r \in Rank, f \in File : files[n][r][f] = [step |-> n, life |-> l]
    BY <1>4 DEF Resume, TrackedIsWhole, WholeCheckpoint
  <2>2. files[n] = Everywhere([step |-> n, life |-> l])
    BY <2>1 DEF TypeOK, Everywhere
  <2>3. data[n] = n /\ n \in Int
    BY <1>4 DEF Resume, StepsBounded, Step
  <2>4. drawn' = n /\ step' - 1 = n /\ mem' = Everywhere([step |-> n, life |-> l])
    BY <1>4, <2>2, <2>3, Constants DEF Resume, ResumePosition
  <2> QED BY <1>4, <2>4 DEF Resume, OneState
<1>5. CASE TrainStep
  BY <1>5 DEF TrainStep, OneState
<1>6. CASE NextStep
  <2>1. drawn' = step' - 1 /\ mem' = Everywhere([step |-> step' - 1, life |-> life])
    BY <1>6 DEF NextStep, StepsBounded, TypeOK
  <2> QED BY <1>6, <2>1 DEF NextStep, OneState, TypeOK
<1>7. CASE Save
  <2>1. pc \in Saving /\ pc' \in Saving \cup {"next"}
    <3>1. ASSUME NEW r \in Rank, Prepare(r) \/ \E f \in File : SaveFile(r, f)
          PROVE  pc = "save" /\ pc' = "save"
      BY <3>1 DEF Prepare, SaveFile, RanksInStep, File
    <3>2. CASE Register \/ OpenData \/ WriteData \/ OpenTracker \/ WriteTracker
      BY <3>2 DEF Register, OpenData, WriteData, OpenTracker, WriteTracker, Saving
    <3> QED BY <1>7, <3>1, <3>2 DEF Save, Saving
  <2>2. pc' = "trackerOpen" => tracker' = Torn
    BY <1>7 DEF Save, Prepare, SaveFile, Register, OpenData, WriteData, OpenTracker,
                WriteTracker, RanksInStep, OneState
  <2> QED BY <2>1, <2>2 DEF OneState, Saving
<1>8. CASE Crash \/ StartAgain
  BY <1>8 DEF Crash, StartAgain, Stop, OneState
<1> QED BY <1>1, <1>2, <1>3, <1>4, <1>5, <1>6, <1>7, <1>8 DEF Next, Progress, Start, Terminated

-----------------------------------------------------------------------------
(* Steps                                                                   *)

LEMMA HeldState ==
    ASSUME NEW s \in Snapshot, mem = Everywhere(s), drawn = s.step
    PROVE  CommonState = s
BY CheckpointAssumption DEF CommonState, Everywhere, File

LEMMA Distinct ==
    /\ Missing # Torn /\ Mixed \notin Snapshot
    /\ \A n \in Step : n # Missing /\ n # Torn
BY Constants DEF Missing, Torn, Mixed, Snapshot

\* What the abstract variables are at each point of a run.
AbstractState ==
    /\ pc \in {"down", "refused"} => ~Live /\ RunState = Initial
    /\ pc \in {"train", "done"} =>
          Live /\ \E l \in Life : RunState = [step |-> step - 1, life |-> l]
    /\ pc \in Saving \cup {"next"} =>
          Live /\ RunState = [step |-> step, life |-> life]
    /\ tracker = Missing => CommittedState = Initial
    /\ tracker = Torn => CommittedState = Mixed
    /\ tracker \in Step => \E l \in Life :
          /\ files[tracker] = Everywhere([step |-> tracker, life |-> l])
          /\ CommittedState = [step |-> tracker, life |-> l]

LEMMA AbstractStateHolds == DurableInv => AbstractState
<1> SUFFICES ASSUME DurableInv PROVE AbstractState
  OBVIOUS
<1> USE DEF DurableInv, WholeInv, TypedProgress, ProgressInv, CheckpointInv
<1>1. pc \in {"down", "refused"} => ~Live /\ RunState = Initial
  BY DEF Live, RunState
<1>2. ASSUME pc \in {"train", "done"}
      PROVE  Live /\ \E l \in Life : RunState = [step |-> step - 1, life |-> l]
  <2>1. PICK l \in Life : mem = Everywhere([step |-> step - 1, life |-> l])
    BY <1>2 DEF OneState
  <2>2. step - 1 \in 0 .. MaxStep
    BY <1>2, Constants DEF OneState, TypeOK
  <2>3. CommonState = [step |-> step - 1, life |-> l]
    BY <1>2, <2>1, <2>2, HeldState DEF OneState, Snapshot
  <2> QED BY <1>2, <2>3 DEF Live, RunState
<1>3. ASSUME pc \in Saving \cup {"next"}
      PROVE  Live /\ RunState = [step |-> step, life |-> life]
  <2>1. [step |-> step, life |-> life] \in Snapshot
    BY <1>3, Constants DEF StepsBounded, TypeOK, Step, Saving
  <2>2. CommonState = [step |-> step, life |-> life]
    BY <1>3, <2>1, HeldState DEF StepsBounded
  <2> QED BY <1>3, <2>2 DEF Live, RunState, Saving
<1>4. tracker = Missing => CommittedState = Initial
  BY Distinct DEF CommittedState
<1>5. tracker = Torn => CommittedState = Mixed
  BY Distinct DEF CommittedState
<1>6. ASSUME tracker \in Step
      PROVE  \E l \in Life : /\ files[tracker] = Everywhere([step |-> tracker, life |-> l])
                             /\ CommittedState = [step |-> tracker, life |-> l]
  <2>1. PICK l \in Life : \A r \in Rank, f \in File :
                             files[tracker][r][f] = [step |-> tracker, life |-> l]
    BY <1>6 DEF TrackedIsWhole, WholeCheckpoint
  <2>2. files[tracker] = Everywhere([step |-> tracker, life |-> l])
    BY <1>6, <2>1 DEF TypeOK, Everywhere
  <2>3. CommittedState = [step |-> tracker, life |-> l]
    BY <1>6, <2>1, Distinct, CheckpointAssumption DEF CommittedState, File
  <2> QED BY <2>2, <2>3
<1> QED BY <1>1, <1>2, <1>3, <1>4, <1>5, <1>6 DEF AbstractState

LEMMA AbstractStateStays == DurableInv' => AbstractState'
BY AbstractStateHolds, PTL

LEMMA InitDurable == Init => Durable!DurableInit
BY Distinct DEF Init, Durable!DurableInit, Live, RunState, CommittedState

LEMMA StartDurable == DurableInv /\ DurableInv' /\ Start => [Durable!DurableNext]_Durable!durableVars
<1> SUFFICES ASSUME DurableInv, DurableInv', Start
             PROVE  Durable!Begin \/ UNCHANGED <<Live, RunState, CommittedState>>
  BY DEF Durable!DurableNext, Durable!durableVars
<1>1. pc = "down" /\ UNCHANGED <<files, tracker>>
  BY DEF Start, StartFromScratch, RefuseStart, Resume, disk
<1>2. ~Live /\ RunState = Initial /\ UNCHANGED CommittedState
  BY <1>1, AbstractStateHolds DEF CommittedState, AbstractState
<1>3. CASE StartFromScratch
  <2>1. mem' = Everywhere(Initial) /\ drawn' = Initial.step /\ Live'
    BY <1>3 DEF StartFromScratch, Initial, Live
  <2>2. RunState' = Initial
    BY <2>1, CheckpointAssumption DEF RunState, CommonState, Everywhere, File
  <2>3. CommittedState = Initial /\ CommittedState # Mixed
    BY <1>3, AbstractStateHolds, Distinct, Constants DEF AbstractState, StartFromScratch
  <2> QED BY <1>2, <2>1, <2>2, <2>3 DEF Durable!Begin
<1>4. CASE RefuseStart
  <2>1. ~Live' /\ RunState' = Initial
    BY <1>4 DEF RefuseStart, Live, RunState
  <2>2. UNCHANGED Live
    BY <1>4 DEF RefuseStart, Live
  <2> QED BY <1>2, <2>1, <2>2
<1>5. ASSUME NEW n \in Step, Resume(n) PROVE Durable!Begin
  <2>1. PICK l \in Life : /\ files[n] = Everywhere([step |-> n, life |-> l])
                          /\ CommittedState = [step |-> n, life |-> l]
    BY <1>5, AbstractStateHolds DEF Resume, AbstractState
  <2>2. mem' = Everywhere([step |-> n, life |-> l]) /\ drawn' = n /\ Live'
    <3>1. data[n] = n
      BY <1>5 DEF Resume, DurableInv, WholeInv, TypedProgress, ProgressInv, StepsBounded
    <3> QED BY <1>5, <2>1, <3>1, Constants DEF Resume, ResumePosition, Live
  <2>3. RunState' = [step |-> n, life |-> l]
    BY <2>2, CheckpointAssumption DEF RunState, CommonState, Everywhere, File
  <2>4. CommittedState # Mixed
    BY <2>1, Distinct, Constants
  <2> QED BY <1>2, <2>1, <2>2, <2>3, <2>4 DEF Durable!Begin
<1> QED BY <1>3, <1>4, <1>5 DEF Start

LEMMA TrainDurable ==
    DurableInv /\ DurableInv' /\ (TrainStep \/ NextStep)
        => [Durable!DurableNext]_Durable!durableVars
<1> SUFFICES ASSUME DurableInv, DurableInv', TrainStep \/ NextStep
             PROVE  Durable!Train \/ UNCHANGED <<Live, RunState, CommittedState>>
  BY DEF Durable!DurableNext, Durable!durableVars
<1>1. UNCHANGED CommittedState
  BY DEF TrainStep, NextStep, disk, CommittedState
<1>2. CASE TrainStep
  <2>1. PICK l \in Life : Live /\ RunState = [step |-> step - 1, life |-> l]
    BY <1>2, AbstractStateHolds DEF TrainStep, AbstractState
  <2>2. Live' /\ RunState' = [step |-> step, life |-> life]
    <3>1. pc' \in Saving \cup {"next"} /\ UNCHANGED <<step, life>>
      BY <1>2 DEF TrainStep, Saving
    <3>2. Live' /\ RunState' = [step |-> step', life |-> life']
      BY <3>1, AbstractStateStays DEF AbstractState
    <3> QED BY <3>1, <3>2
  <2>3. step \in Int /\ step >= 1
    BY <1>2 DEF DurableInv, WholeInv, TypedProgress, ProgressInv, StepsBounded, TrainStep, TypeOK
  <2>4. RunState # Mixed /\ RunState' # Mixed
    BY <2>1, <2>2, <2>3 DEF Mixed
  <2>5. RunState'.step = RunState.step + 1
    BY <2>1, <2>2, <2>3
  <2> QED BY <1>1, <2>1, <2>2, <2>4, <2>5 DEF Durable!Train
<1>3. CASE NextStep
  BY <1>1, <1>3 DEF NextStep, Live, RunState, CommonState
<1> QED BY <1>2, <1>3

LEMMA TrackedKept ==
    ASSUME Keep # 1, WholeInv, Save, UNCHANGED tracker, tracker \in Step
    PROVE  files'[tracker] = files[tracker]
BY PrepareWhole, SaveFileWhole, RegisterWhole
DEF Save, OpenData, WriteData, OpenTracker, WriteTracker

LEMMA SaveDurable ==
    Keep # 1 /\ DurableInv /\ DurableInv' /\ Save => [Durable!DurableNext]_Durable!durableVars
<1> SUFFICES ASSUME Keep # 1, DurableInv, DurableInv', Save
             PROVE  \/ Durable!BeginCommit \/ Durable!EndCommit
                    \/ UNCHANGED <<Live, RunState, CommittedState>>
  BY DEF Durable!DurableNext, Durable!durableVars
<1>1. /\ pc \in Saving /\ pc' \in Saving \cup {"next"}
      /\ UNCHANGED <<step, mem, drawn, life>>
  <2>1. ASSUME NEW r \in Rank, Prepare(r) \/ \E f \in File : SaveFile(r, f)
        PROVE  pc = "save" /\ pc' = "save" /\ UNCHANGED <<step, mem, drawn, life>>
    BY <2>1 DEF Prepare, SaveFile, RanksInStep, File, memory, DurableInv, WholeInv,
                TypedProgress, ProgressInv
  <2>2. CASE Register \/ OpenData \/ WriteData \/ OpenTracker \/ WriteTracker
    BY <2>2 DEF Register, OpenData, WriteData, OpenTracker, WriteTracker, Saving, memory
  <2> QED BY <2>1, <2>2 DEF Save, Saving
<1>2. Live /\ Live' /\ UNCHANGED RunState /\ RunState = [step |-> step, life |-> life]
  BY <1>1, AbstractStateHolds DEF Live, RunState, CommonState, Saving, AbstractState
<1>3. CASE UNCHANGED tracker
  <2>1. CASE tracker \in Step
    <3>1. PICK l \in Life : CommittedState = [step |-> tracker, life |-> l]
      BY <2>1, AbstractStateHolds DEF AbstractState
    <3>2. files'[tracker] = files[tracker]
      BY <1>3, <2>1, TrackedKept DEF DurableInv
    <3> QED BY <1>2, <1>3, <2>1, <3>2, Distinct DEF CommittedState
  <2>2. CASE tracker \in {Missing, Torn}
    BY <1>2, <1>3, <2>2, AbstractStateHolds, AbstractStateStays DEF AbstractState
  <2> QED BY <2>1, <2>2 DEF DurableInv, WholeInv, TypedProgress, TypeOK
<1>4. CASE OpenTracker
  <2>1. CommittedState' = Mixed
    BY <1>4, AbstractStateStays DEF OpenTracker, AbstractState
  <2>2. CASE tracker = Torn
    BY <1>2, <2>1, <2>2, AbstractStateHolds DEF AbstractState
  <2>3. CASE tracker # Torn
    <3>1. step \in Int /\ step >= 1
      BY <1>1, SavingFacts DEF DurableInv, Step
    <3>2. CommittedState.step < step
      <4>1. CASE tracker = Missing
        BY <3>1, <4>1, AbstractStateHolds DEF Initial, AbstractState
      <4>2. CASE tracker \in Step
        <5>1. tracker < step
          BY <1>4, <4>2 DEF OpenTracker, DurableInv, WholeInv, TypedProgress, ProgressInv,
                            TrackerBehind, Saving
        <5>2. PICK l \in Life : CommittedState = [step |-> tracker, life |-> l]
          BY <4>2, AbstractStateHolds DEF AbstractState
        <5>3. CommittedState.step = tracker
          BY <5>2
        <5> QED BY <5>1, <5>3
      <4> QED BY <2>3, <4>1, <4>2 DEF DurableInv, WholeInv, TypedProgress, TypeOK
    <3>3. RunState.step > CommittedState.step
      BY <1>2, <3>1, <3>2
    <3> QED BY <1>2, <2>1, <3>3 DEF Durable!BeginCommit
  <2> QED BY <2>2, <2>3
<1>5. CASE WriteTracker
  <2>1. CommittedState = Mixed
    BY <1>5, AbstractStateHolds DEF WriteTracker, DurableInv, OneState, AbstractState
  <2>2. tracker' = step /\ UNCHANGED files /\ step \in Step
    BY <1>1, <1>5, SavingFacts DEF WriteTracker, DurableInv
  <2>3. files[step] = Everywhere([step |-> step, life |-> life])
    BY <1>5 DEF WriteTracker, DurableInv, WholeInv, CheckpointInv, SavedFiles, Saving, Saved
  <2>4. CommittedState' = [step |-> step, life |-> life]
    BY <2>2, <2>3, Distinct, CheckpointAssumption DEF CommittedState, Everywhere, File
  <2> QED BY <1>2, <2>1, <2>4 DEF Durable!EndCommit
<1> QED BY <1>3, <1>4, <1>5 DEF Save, Prepare, SaveFile, Register, OpenData, WriteData

LEMMA HaltDurable ==
    DurableInv /\ DurableInv' /\ (Crash \/ StartAgain)
        => [Durable!DurableNext]_Durable!durableVars
<1> SUFFICES ASSUME DurableInv, DurableInv', Crash \/ StartAgain PROVE Durable!Halt
  BY DEF Durable!DurableNext
<1>1. Live /\ ~Live' /\ UNCHANGED <<files, tracker>>
  BY DEF Crash, StartAgain, Stop, Live, disk
<1>2. RunState' = Initial /\ UNCHANGED CommittedState
  BY <1>1 DEF RunState, CommittedState
<1> QED BY <1>1, <1>2 DEF Durable!Halt

LEMMA NextDurable ==
    Keep # 1 /\ DurableInv /\ DurableInv' /\ [Next]_vars
        => [Durable!DurableNext]_Durable!durableVars
<1> SUFFICES ASSUME Keep # 1, DurableInv, DurableInv', [Next]_vars
             PROVE  [Durable!DurableNext]_Durable!durableVars
  OBVIOUS
<1>1. CASE UNCHANGED vars
  BY <1>1 DEF vars, memory, disk, Durable!durableVars, Live, RunState, CommonState,
              CommittedState
<1>2. CASE Start
  BY <1>2, StartDurable
<1>3. CASE TrainStep \/ NextStep
  BY <1>3, TrainDurable
<1>4. CASE Save
  BY <1>4, SaveDurable
<1>5. CASE Crash \/ StartAgain
  BY <1>5, HaltDurable
<1> QED BY <1>1, <1>2, <1>3, <1>4, <1>5 DEF Next, Progress, Terminated

\* Unless max_ckpt_to_keep is 1, saving, pruning, crashing and resuming, with
\* any number of ranks and any save_freq, implement a run that always goes on
\* from exactly the state it committed last: no rank and no dataloader ever
\* resumes from another step or another life than the rest.
THEOREM ResumesWhatWasCommitted == Keep # 1 /\ Spec => ImplementsDurable
<1>1. Spec => []TypedProgress
  BY InitTypedProgress, NextTypedProgress, PTL DEF Spec
<1>2. ASSUME Keep # 1 PROVE Spec => ImplementsDurable
  <2>1. Init => CheckpointInv /\ OneState
    BY InitWhole, InitOneState
  <2>2. TypedProgress /\ CheckpointInv /\ OneState /\ [Next]_vars
            => CheckpointInv' /\ OneState'
    BY <1>2, NextWhole, NextOneState DEF DurableInv, WholeInv
  <2>3. Spec => []DurableInv
    BY <1>1, <2>1, <2>2, PTL DEF Spec, DurableInv, WholeInv
  <2>4. DurableInv /\ DurableInv' /\ [Next]_vars => [Durable!DurableNext]_Durable!durableVars
    BY <1>2, NextDurable
  <2> QED BY <2>3, <2>4, InitDurable, PTL DEF Spec, ImplementsDurable, Durable!DurableSpec
<1> QED BY <1>2

-----------------------------------------------------------------------------
(* How many checkpoints a life keeps                                       *)

Own == {n \in Step : \E r \in Rank, f \in File : files[n][r][f].life = life /\ life > 0}

Listed(paths) == {paths[i] : i \in 1 .. Len(paths)}

\* Rank 0 has made room for the step that is being saved.
RoomMade == pc = "save" /\ rankPc[Rank0] # "begin"

\* What a life has on disk is in rank 0's list, but for the step being saved, and
\* the list is short enough to take that one.
OwnInv ==
    /\ \A n \in Step, r \in Rank, f \in File : files[n][r][f].life <= life
    /\ pc = "down" => prev = <<>>
    /\ Keep > 1 /\ pc # "down" =>
          /\ Len(prev) <= Keep
          /\ RoomMade => Len(prev) <= Keep - 1
          /\ \A n \in Own : n \in Listed(prev) \/ (RoomMade /\ n = step)

LEMMA ListedBound ==
    ASSUME NEW paths \in Seq(Step)
    PROVE  IsFiniteSet(Listed(paths)) /\ Cardinality(Listed(paths)) <= Len(paths)
<1>. DEFINE f == [i \in 1 .. Len(paths) |-> paths[i]]
<1>1. Len(paths) \in Nat
  OBVIOUS
<1>2. f \in Surjection(1 .. Len(paths), Listed(paths))
  <2>1. f \in [1 .. Len(paths) -> Listed(paths)]
    BY DEF Listed
  <2>2. \A n \in Listed(paths) : \E i \in 1 .. Len(paths) : f[i] = n
    BY DEF Listed
  <2>. QED
    BY <2>1, <2>2 DEF Surjection
<1>3. IsFiniteSet(1 .. Len(paths)) /\ Cardinality(1 .. Len(paths)) = Len(paths)
  <2>1. 1 \in Int /\ Len(paths) \in Int
        /\ (IF 1 > Len(paths) THEN 0 ELSE Len(paths) - 1 + 1) = Len(paths)
    BY <1>1
  <2>. QED
    BY <2>1, FS_Interval, Zenon
<1>4. IsFiniteSet(Listed(paths)) /\ Cardinality(Listed(paths)) <= Cardinality(1 .. Len(paths))
  BY <1>2, <1>3, FS_Surjection, Zenon
<1>. QED
  BY <1>3, <1>4, Zenon

\* What a rotation does not remove it keeps in the list.
LEMMA RestListed ==
    ASSUME NEW paths \in Seq(Step), NEW k \in 0 .. Len(paths), NEW n \in Listed(paths),
           n \notin Oldest(paths, k)
    PROVE  n \in Listed(SubSeq(paths, k + 1, Len(paths)))
<1>1. PICK i \in 1 .. Len(paths) : n = paths[i]
  BY DEF Listed
<1>2. i > k
  BY <1>1 DEF Oldest
<1>3. i - k \in 1 .. Len(paths) - k /\ SubSeq(paths, k + 1, Len(paths))[i - k] = n
  BY <1>1, <1>2, RestOfPaths
<1>. QED
  BY <1>3, RestOfPaths DEF Listed

LEMMA OwnIs ==
    \A n : n \in Own <=>
        n \in Step /\ life > 0 /\ \E r \in Rank, f \in File : files[n][r][f].life = life
BY DEF Own

LEMMA OwnWillBe ==
    \A n : n \in Own' <=>
        n \in Step /\ life' > 0 /\ \E r \in Rank, f \in File : files'[n][r][f].life = life'
BY DEF Own

LEMMA RoomForAll == TypeOK /\ OwnInv => OwnCheckpointsBounded
<1> SUFFICES ASSUME TypeOK, OwnInv, Keep > 1, pc # "down" PROVE Cardinality(Own) <= Keep
  BY DEF OwnCheckpointsBounded, Own
<1>1. /\ IsFiniteSet(Listed(prev)) /\ Cardinality(Listed(prev)) <= Len(prev) /\ Len(prev) \in Nat
      /\ Cardinality(Listed(prev)) \in Nat
  BY ListedBound, FS_CardinalityType DEF TypeOK
<1>2. CASE RoomMade
  <2>1. Own \in SUBSET (Listed(prev) \cup {step}) /\ Len(prev) <= Keep - 1
    BY <1>2 DEF OwnInv
  <2>2. /\ IsFiniteSet(Listed(prev) \cup {step})
        /\ Cardinality(Listed(prev) \cup {step}) <= Cardinality(Listed(prev)) + 1
    BY <1>1, FS_AddElement
  <2>3. Cardinality(Listed(prev) \cup {step}) \in Nat /\ Cardinality(Own) \in Nat
    BY <2>1, <2>2, FS_Subset, FS_CardinalityType
  <2>4. Cardinality(Own) <= Cardinality(Listed(prev) \cup {step})
    BY <2>1, <2>2, FS_Subset
  <2>. QED
    BY <1>1, <2>1, <2>2, <2>3, <2>4, CheckpointAssumption
<1>3. CASE ~RoomMade
  <2>1. Own \in SUBSET Listed(prev) /\ Len(prev) <= Keep
    BY <1>3 DEF OwnInv
  <2>2. Cardinality(Own) <= Cardinality(Listed(prev)) /\ Cardinality(Own) \in Nat
    BY <1>1, <2>1, FS_Subset, FS_CardinalityType
  <2>. QED
    BY <1>1, <2>1, <2>2, CheckpointAssumption
<1>. QED
  BY <1>2, <1>3

\* Files that a rotation leaves were there before it.
LEMMA WithoutOwn ==
    ASSUME TypeOK, OwnInv, NEW removed, files' = Without(removed), life' = life
    PROVE  /\ Own' \subseteq Own
           /\ \A n \in Own' : n \notin removed
           /\ \A n \in Step, r \in Rank, f \in File : files'[n][r][f].life <= life
<1>1. \A n \in Step, r \in Rank, f \in File :
        files'[n][r][f] = IF n \in removed THEN NoFile ELSE files[n][r][f]
  BY DEF Without, Everywhere
<1>2. NoFile.life = 0 /\ life \in Nat
  BY CheckpointAssumption DEF NoFile, Initial, TypeOK, Life
<1>. QED
  BY <1>1, <1>2, OwnIs, OwnWillBe DEF OwnInv

LEMMA SaveKeepsOwn == TypedProgress /\ OwnInv /\ Save => OwnInv'
<1> SUFFICES ASSUME TypedProgress, OwnInv, Save PROVE OwnInv'
  OBVIOUS
<1>. USE CheckpointAssumption DEF TypedProgress
<1>t. TypeOK /\ prev \in Seq(Step) /\ Len(prev) \in Nat /\ Keep \in Nat
  BY DEF TypeOK
<1>0. pc # "down" /\ pc' # "down" /\ life' = life /\ step' = step
  BY DEF Save, Prepare, SaveFile, Register, OpenData, WriteData, OpenTracker, WriteTracker,
         memory, ProgressInv, RanksInStep, File
<1>1. ASSUME NEW r \in Rank, Prepare(r) PROVE OwnInv'
  <2>1. pc = "save" /\ pc' = pc /\ rankPc[r] = "begin" /\ rankPc' = [rankPc EXCEPT ![r] = "model"]
    BY <1>1 DEF Prepare, ProgressInv, RanksInStep
  <2>2. CASE r = Rank0
    <3>. DEFINE k == CapacityExcess
    <3>1. /\ files' = Without(Oldest(prev, k)) /\ prev' = SubSeq(prev, k + 1, Len(prev))
      BY <1>1, <2>2 DEF Prepare
    <3>2. k \in 0 .. Len(prev)
      BY <1>t, CapacityBounds
    <3>3. Len(prev') = Len(prev) - k
      BY <1>t, <3>1, <3>2, RestOfPaths
    <3>4. Keep > 1 => Len(prev') <= Keep - 1
      BY <1>t, <3>2, <3>3 DEF CapacityExcess
    <3>5. ~RoomMade /\ RoomMade'
      BY <1>t, <2>1, <2>2 DEF RoomMade, TypeOK
    <3>. HIDE DEF k
    <3>6. /\ Own' \subseteq Own
          /\ \A n \in Own' : n \notin Oldest(prev, k)
          /\ \A n \in Step, q \in Rank, f \in File : files'[n][q][f].life <= life
      BY <1>t, <1>0, <3>1, WithoutOwn
    <3>7. Keep > 1 => \A n \in Own' : n \in Listed(prev')
      BY <1>t, <1>0, <3>1, <3>2, <3>5, <3>6, RestListed DEF OwnInv
    <3>. QED
      BY <1>t, <1>0, <3>4, <3>6, <3>7 DEF OwnInv
  <2>3. CASE r # Rank0
    <3>1. UNCHANGED <<files, prev, step>>
      BY <1>1, <2>3 DEF Prepare
    <3>2. RoomMade' <=> RoomMade
      BY <1>t, <2>1, <2>3 DEF RoomMade, TypeOK
    <3>3. Own' = Own /\ Listed(prev') = Listed(prev)
      BY <1>0, <3>1 DEF Own, Listed
    <3>. QED
      BY <1>0, <3>1, <3>2, <3>3 DEF OwnInv
  <2>. QED
    BY <2>2, <2>3
<1>2. ASSUME NEW r \in Rank, NEW f \in File, SaveFile(r, f) PROVE OwnInv'
  <2>1. /\ pc = "save" /\ pc' = pc /\ prev' = prev /\ rankPc[Rank0] # "begin"
        /\ rankPc' = [rankPc EXCEPT ![r] = CASE f = "model" -> "optim"
                                             [] f = "optim" -> "extra"
                                             [] f = "extra" -> "written"]
    BY <1>2 DEF SaveFile, ProgressInv, RanksInStep, File, memory
  <2>2. step \in Step /\ mem[r][f] = [step |-> step, life |-> life]
    <3>1. step \in 1 .. TotalSteps + life - 1 /\ mem = Everywhere([step |-> step, life |-> life])
      BY <2>1 DEF ProgressInv, StepsBounded, Saving
    <3>. QED
      BY <1>t, <3>1 DEF TypeOK, Life, Step, MaxStep, Everywhere
  <2>3. RoomMade /\ RoomMade'
    BY <1>t, <2>1 DEF RoomMade, File, TypeOK
  <2>4. files' = [files EXCEPT ![step][r][f] = mem[r][f]]
    BY <1>2 DEF SaveFile
  <2>5. \A n \in Step, q \in Rank, g \in File :
          files'[n][q][g] = IF n = step /\ q = r /\ g = f THEN mem[r][f] ELSE files[n][q][g]
    BY <1>t, <2>2, <2>4 DEF TypeOK
  <2>6. \A n \in Own' : n \in Own \/ n = step
    BY <1>0, <2>5, OwnIs, OwnWillBe
  <2>7. \A n \in Step, q \in Rank, g \in File : files'[n][q][g].life <= life
    <3>1. life <= life /\ mem[r][f].life = life
      BY <1>t, <2>2 DEF TypeOK, Life
    <3>. QED
      BY <2>5, <3>1 DEF OwnInv
  <2>8. Listed(prev') = Listed(prev)
    BY <2>1
  <2>. QED
    BY <1>0, <2>1, <2>3, <2>6, <2>7, <2>8 DEF OwnInv
<1>3. CASE Register
  <2>. DEFINE paths == Append(prev, step)
              k == RetentionExcess(paths)
  <2>1. /\ pc = "save" /\ pc' = "data" /\ files' = Without(Oldest(paths, k))
        /\ prev' = SubSeq(paths, k + 1, Len(paths)) /\ \A r \in Rank : rankPc[r] = "written"
    BY <1>3 DEF Register, AllWritten
  <2>2. step \in Step
    <3>1. step \in 1 .. TotalSteps + life - 1
      BY <2>1 DEF ProgressInv, StepsBounded, Saving
    <3>. QED
      BY <1>t, <3>1 DEF TypeOK, Life, Step, MaxStep
  <2>3. paths \in Seq(Step) /\ Len(paths) = Len(prev) + 1
    BY <1>t, <2>2
  <2>4. k \in 0 .. Len(paths)
    BY <2>3, ExcessBounds
  <2>5. Len(prev') = Len(paths) - k
    BY <2>1, <2>3, <2>4, RestOfPaths
  <2>6. Keep > 1 => Len(prev') <= Keep
    BY <1>t, <2>3, <2>5 DEF RetentionExcess
  <2>7. \A n : n \in Listed(prev) \/ n = step => n \in Listed(paths)
    <3>1. \A i \in 1 .. Len(prev) : i \in 1 .. Len(paths) /\ paths[i] = prev[i]
      BY <1>t, <2>2
    <3>2. Len(paths) \in 1 .. Len(paths) /\ paths[Len(paths)] = step
      BY <1>t, <2>2
    <3>. HIDE DEF paths
    <3>. QED
      BY <3>1, <3>2 DEF Listed
  <2>8. ~RoomMade'
    BY <2>1 DEF RoomMade
  <2>. HIDE DEF paths, k
  <2>9. /\ Own' \subseteq Own
        /\ \A n \in Own' : n \notin Oldest(paths, k)
        /\ \A n \in Step, q \in Rank, f \in File : files'[n][q][f].life <= life
    BY <1>t, <1>0, <2>1, WithoutOwn
  <2>10. Keep > 1 => \A n \in Own' : n \in Listed(paths)
    BY <1>0, <2>7, <2>9 DEF OwnInv
  <2>11. Keep > 1 => \A n \in Own' : n \in Listed(prev')
    BY <2>1, <2>3, <2>4, <2>9, <2>10, RestListed
  <2>. QED
    BY <1>0, <2>6, <2>8, <2>9, <2>11 DEF OwnInv
<1>4. CASE OpenData \/ WriteData \/ OpenTracker \/ WriteTracker
  <2>1. UNCHANGED <<files, prev>> /\ pc # "save" /\ pc' # "save"
    BY <1>4 DEF OpenData, WriteData, OpenTracker, WriteTracker, memory
  <2>2. ~RoomMade /\ ~RoomMade' /\ Own' = Own /\ Listed(prev') = Listed(prev)
    BY <1>0, <2>1 DEF RoomMade, Own, Listed
  <2>. QED
    BY <1>0, <2>1, <2>2 DEF OwnInv
<1>. QED
  BY <1>1, <1>2, <1>3, <1>4 DEF Save

LEMMA NextOwnInv == TypedProgress /\ OwnInv /\ [Next]_vars => OwnInv'
<1> SUFFICES ASSUME TypedProgress, OwnInv, [Next]_vars PROVE OwnInv'
  OBVIOUS
<1>. USE CheckpointAssumption DEF TypedProgress
<1>t. TypeOK /\ life \in Nat /\ Keep \in Nat
  BY DEF TypeOK, Life
<1>1. CASE UNCHANGED vars
  BY <1>1 DEF vars, memory, disk, OwnInv, Own, RoomMade, Listed
<1>2. CASE Start
  <2>1. /\ pc = "down" /\ pc' # "save" /\ pc' # "down" /\ life' = life + 1 /\ UNCHANGED <<files, prev>>
    BY <1>2 DEF Start, StartFromScratch, RefuseStart, Resume, disk, memory
  <2>2. \A n \in Step, r \in Rank, f \in File :
          files'[n][r][f].life <= life' /\ files'[n][r][f].life # life'
    <3>1. \A n \in Step, r \in Rank, f \in File : files[n][r][f].life \in Nat
      BY <1>t DEF TypeOK, Snapshot, Life
    <3>. QED
      BY <1>t, <2>1, <3>1 DEF OwnInv
  <2>3. Own' = {}
    BY <2>2, OwnWillBe
  <2>4. prev' = <<>> /\ Len(prev') = 0
    BY <2>1 DEF OwnInv
  <2>. QED
    BY <1>t, <2>1, <2>2, <2>3, <2>4 DEF OwnInv, RoomMade
<1>3. CASE TrainStep \/ NextStep
  <2>1. /\ UNCHANGED <<files, prev, life>> /\ pc # "down" /\ pc' # "down" /\ pc # "save"
        /\ pc' = "save" => rankPc'[Rank0] = "begin"
    BY <1>3 DEF TrainStep, NextStep, disk
  <2>2. ~RoomMade /\ ~RoomMade' /\ Own' = Own /\ Listed(prev') = Listed(prev)
    BY <2>1 DEF RoomMade, Own, Listed
  <2>. QED
    BY <2>1, <2>2 DEF OwnInv
<1>4. CASE Save
  BY <1>4, SaveKeepsOwn
<1>5. CASE Crash \/ StartAgain
  BY <1>5 DEF Crash, StartAgain, Stop, disk, OwnInv
<1>. QED
  BY <1>1, <1>2, <1>3, <1>4, <1>5 DEF Next, Progress, Terminated

\* While a run lives it never has more than max_ckpt_to_keep checkpoints of its own
\* on disk, for every limit above one: rank 0 makes room before any rank writes.
THEOREM OwnCheckpointsAlwaysBounded == Spec => []OwnCheckpointsBounded
<1>1. Init => OwnInv
  BY CheckpointAssumption, Constants DEF Init, OwnInv, Everywhere, NoFile, Initial
<1>2. TypedProgress /\ OwnInv => OwnCheckpointsBounded
  BY RoomForAll DEF TypedProgress
<1>. QED
  BY <1>1, <1>2, InitTypedProgress, NextTypedProgress, NextOwnInv, PTL DEF Spec

=============================================================================
