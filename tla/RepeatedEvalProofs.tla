-------------------------- MODULE RepeatedEvalProofs --------------------------
(***************************************************************************)
(* Machine-checked proofs about the repeated evaluation and about what     *)
(* keeps it running.                                                       *)
(*                                                                         *)
(* RepeatedEval, with any number of models, seeds, batches, workers,       *)
(* attempts, faults and signals, implements the ledger of what a resumable *)
(* evaluation promises.  EvalSupervisor, with any number of starts,        *)
(* training jobs, failures and cleanups, starts no evaluator beside one    *)
(* that can be seen or has the lock, none after success but for one that   *)
(* could not be seen, and has a pause that stops what it can see.          *)
(***************************************************************************)
EXTENDS RepeatedEval, EvalSupervisor, FiniteSetTheorems, SequenceTheorems, TLAPS

-----------------------------------------------------------------------------
(* RepeatedEval: the inductive invariant                                   *)

SeedFile == [Batch -> Life]

EvalTypeOK ==
    /\ pc \in {"off", "model", "ready", "seed", "batch", "aggregate", "stop", "joining", "fail",
               "overview", "success"}
    /\ model \in Model /\ seed \in Seed
    /\ raised \in BOOLEAN
    /\ shard \in [Job -> Life \cup {Absent}]
    /\ seedSummary \in [Model -> [Seed -> {NoFile} \cup SeedFile]]
    /\ aggregate \in [Model -> {NoFile} \cup [Seed -> SeedFile]]
    /\ success \in BOOLEAN

\* What is on disk has been made of whole parts that are still there.
FilesInv ==
    /\ \A m \in Model, s \in Seed : seedSummary[m][s] # NoFile =>
          \A b \in Batch : shard[<<m, s, b>>] # Absent
    /\ \A m \in Model : aggregate[m] # NoFile =>
          \A s \in Seed : seedSummary[m][s] # NoFile
    /\ success => \A m \in Model : aggregate[m] # NoFile

\* How far the driver has come in its loops is on disk.
LoopInv ==
    /\ pc \in {"ready", "seed", "batch"} =>
          \A s \in Seed : s < seed => seedSummary[model][s] # NoFile
    /\ pc = "aggregate" => \A s \in Seed : seedSummary[model][s] # NoFile
    /\ pc \notin {"off", "fail", "success"} =>
          \A m \in Model : m < model => aggregate[m] # NoFile
    /\ pc = "overview" \/ (pc \in {"stop", "joining"} /\ ~raised) => aggregate[model] # NoFile
    /\ pc = "success" => \A m \in Model : aggregate[m] # NoFile

EvalInv == EvalTypeOK /\ FilesInv /\ LoopInv

-----------------------------------------------------------------------------
(* Files                                                                   *)

LEMMA ModelsAndSeeds ==
    /\ NumModels \in Nat \ {0} /\ NumSeeds \in Nat \ {0} /\ NumBatches \in Nat \ {0}
    /\ MaxLives \in Nat \ {0}
    /\ Absent \notin Life /\ 1 \in Model /\ 1 \in Seed
  BY RepeatedAssumption DEF Absent, Life, Model, Seed

LEMMA FilesAreFiles == NoFile \notin SeedFile /\ NoFile \notin [Seed -> SeedFile]
<1>1. DOMAIN NoFile = {}
  BY DEF NoFile
<1>2. Batch # {} /\ Seed # {}
  BY ModelsAndSeeds DEF Batch, Seed
<1>. QED
  BY <1>1, <1>2 DEF SeedFile

LEMMA EvalInit == Init => EvalInv
<1> SUFFICES ASSUME Init PROVE EvalInv
  OBVIOUS
<1>1. EvalTypeOK
  BY ModelsAndSeeds DEF Init, EvalTypeOK
<1>. QED
  BY <1>1 DEF Init, EvalInv, FilesInv, LoopInv

\* A shard is written over by another, never taken away.
LEMMA ShardsStay ==
    ASSUME EvalInv, NEW l \in Life, NEW g \in Gpu, WriteShard(l, g)
    PROVE  /\ shard' \in [Job -> Life \cup {Absent}]
           /\ \A j \in Job : shard[j] # Absent => shard'[j] # Absent
  BY ModelsAndSeeds DEF WriteShard, EvalInv, EvalTypeOK

LEMMA WorkersKeepInv ==
    ASSUME EvalInv, NEW l \in Life, NEW g \in Gpu, Works(l, g) \/ Die(l, g)
    PROVE  EvalInv'
<1>1. UNCHANGED <<pc, model, seed, raised, seedSummary, aggregate, success>>
  BY DEF Works, Load, LoadFails, TakeJob, WriteShard, Answer, FailJob, Die, loopVars, awaitVars,
     fileVars
<1>2. /\ shard' \in [Job -> Life \cup {Absent}]
      /\ \A j \in Job : shard[j] # Absent => shard'[j] # Absent
  <2>1. CASE WriteShard(l, g)
    BY <2>1, ShardsStay
  <2>2. CASE ~WriteShard(l, g)
    <3>1. shard' = shard
      BY <2>2 DEF Works, Load, LoadFails, TakeJob, Answer, FailJob, Die
    <3>. QED
      BY <3>1 DEF EvalInv, EvalTypeOK
  <2>. QED
    BY <2>1, <2>2
<1>3. EvalTypeOK'
  BY <1>1, <1>2 DEF EvalInv, EvalTypeOK
<1>4. FilesInv'
  <2>1. \A m \in Model, s \in Seed, b \in Batch : <<m, s, b>> \in Job
    BY DEF Job
  <2>. QED
    BY <1>1, <1>2, <2>1 DEF EvalInv, FilesInv
<1>5. LoopInv'
  BY <1>1 DEF EvalInv, LoopInv
<1>. QED
  BY <1>3, <1>4, <1>5 DEF EvalInv

-----------------------------------------------------------------------------
(* The driver's steps                                                      *)

\* Starts, ends and steps that change nothing on disk.
LEMMA LoopKeepsInv ==
    ASSUME EvalInv, Start \/ KillGroup \/ KillDriver \/ SkipModel \/ OnlySummarize
                    \/ StartWorkers \/ Get \/ NoticeDeath \/ WorkersReady \/ QueueSeed
                    \/ PutStops \/ Joined \/ Fail
    PROVE  EvalInv'
<1>. USE ModelsAndSeeds DEF EvalInv
<1>1. UNCHANGED <<shard, seedSummary, aggregate, success>>
  BY DEF Start, KillGroup, KillDriver, SkipModel, OnlySummarize, StartWorkers, Get, NoticeDeath,
     WorkersReady, QueueSeed, PutStops, Joined, Fail, fileVars
<1>2. FilesInv'
  BY <1>1 DEF FilesInv
<1>3. CASE Start
  <2>1. pc' = "model" /\ model' = 1 /\ seed' = seed /\ raised' = raised
    BY <1>3 DEF Start, awaitVars
  <2>2. \A m \in Model : ~(m < 1)
    BY DEF Model
  <2>3. LoopInv'
    BY <1>1, <2>1, <2>2 DEF LoopInv
  <2>. QED
    BY <1>1, <1>2, <2>1, <2>3 DEF EvalTypeOK
<1>4. CASE KillGroup \/ KillDriver \/ Fail
  <2>1. pc' = "off" /\ UNCHANGED <<model, seed, raised>>
    BY <1>4 DEF KillGroup, KillDriver, Fail, loopVars, awaitVars
  <2>. QED
    BY <1>1, <1>2, <2>1 DEF EvalTypeOK, LoopInv
<1>5. CASE SkipModel \/ WorkersReady \/ QueueSeed \/ NoticeDeath
  <2>1. UNCHANGED <<model, seed>> /\ raised' \in BOOLEAN
    BY <1>5 DEF SkipModel, WorkersReady, QueueSeed, NoticeDeath, loopVars, awaitVars, EvalTypeOK
  <2>2. \/ pc' = "overview" /\ pc = "model" /\ aggregate[model] # NoFile
        \/ pc' = "seed" /\ pc = "ready"
        \/ pc' = "batch" /\ pc = "seed"
        \/ pc' = "stop" /\ raised' = TRUE /\ pc \in {"ready", "batch"}
    BY <1>5 DEF SkipModel, WorkersReady, QueueSeed, NoticeDeath
  <2>. QED
    BY <1>1, <1>2, <2>1, <2>2 DEF EvalTypeOK, LoopInv
<1>6. CASE OnlySummarize \/ StartWorkers
  <2>1. pc' \in {"seed", "ready"} /\ pc = "model" /\ model' = model /\ seed' = 1 /\ raised' = FALSE
    BY <1>6 DEF OnlySummarize, StartWorkers
  <2>2. \A s \in Seed : ~(s < 1)
    BY DEF Seed
  <2>. QED
    BY <1>1, <1>2, <2>1, <2>2 DEF EvalTypeOK, LoopInv
<1>7. CASE Get
  <2>1. UNCHANGED <<model, seed>> /\ pc \in {"ready", "batch"}
    BY <1>7 DEF Get, loopVars
  <2>2. \/ pc' = pc /\ raised' = raised
        \/ pc' = "stop" /\ raised' = TRUE
    BY <1>7 DEF Get, loopVars
  <2>. QED
    BY <1>1, <1>2, <2>1, <2>2 DEF EvalTypeOK, LoopInv
<1>8. CASE PutStops
  <2>1. UNCHANGED <<model, seed, raised>> /\ pc = "stop" /\ pc' = "joining"
    BY <1>8 DEF PutStops, loopVars, awaitVars
  <2>. QED
    BY <1>1, <1>2, <2>1 DEF EvalTypeOK, LoopInv
<1>9. CASE Joined
  <2>1. /\ UNCHANGED <<model, seed, raised>> /\ pc = "joining"
        /\ pc' = IF raised THEN "fail" ELSE "overview"
    BY <1>9 DEF Joined, AfterStop, loopVars, awaitVars
  <2>. QED
    BY <1>1, <1>2, <2>1 DEF EvalTypeOK, LoopInv
<1>. QED
  BY <1>3, <1>4, <1>5, <1>6, <1>7, <1>8, <1>9

LEMMA SummarizeSeedKeepsInv == ASSUME EvalInv, SummarizeSeed PROVE EvalInv'
<1>. USE ModelsAndSeeds DEF EvalInv
<1>1. pc = "batch" /\ UNCHANGED <<model, shard, aggregate, success>>
  BY DEF SummarizeSeed
<1>2. CASE ~Whole(ShardsOf(model, seed))
  <2>1. pc' = "stop" /\ raised' = TRUE /\ UNCHANGED <<seed, seedSummary>>
    BY <1>2 DEF SummarizeSeed
  <2>. QED
    BY <1>1, <2>1 DEF EvalTypeOK, FilesInv, LoopInv
<1>3. CASE Whole(ShardsOf(model, seed))
  <2>1. /\ seedSummary' = [seedSummary EXCEPT ![model][seed] = ShardsOf(model, seed)]
        /\ pc' = (IF seed < NumSeeds THEN "seed" ELSE "aggregate")
        /\ seed' = (IF seed < NumSeeds THEN seed + 1 ELSE seed)
        /\ raised' = raised
    BY <1>3 DEF SummarizeSeed
  <2>2. \A b \in Batch : <<model, seed, b>> \in Job
    BY DEF EvalTypeOK, Job
  <2>3. ShardsOf(model, seed) \in SeedFile
    BY <1>3, <2>2 DEF ShardsOf, Whole, SeedFile, EvalTypeOK
  <2>4. \A b \in Batch : shard[<<model, seed, b>>] # Absent
    BY <1>3 DEF ShardsOf, Whole
  <2>5. /\ seedSummary' \in [Model -> [Seed -> {NoFile} \cup SeedFile]]
        /\ seedSummary'[model][seed] # NoFile
        /\ \A m \in Model, s \in Seed :
              seedSummary'[m][s] = seedSummary[m][s] \/ (m = model /\ s = seed)
    BY <2>1, <2>3, FilesAreFiles DEF EvalTypeOK
  <2>6. EvalTypeOK'
    BY <1>1, <2>1, <2>5 DEF EvalTypeOK, Seed
  <2>7. FilesInv'
    BY <1>1, <2>4, <2>5 DEF FilesInv
  <2>8. \A s \in Seed : s <= seed => seedSummary'[model][s] # NoFile
    BY <1>1, <2>5 DEF LoopInv, EvalTypeOK, Seed
  <2>9. LoopInv'
    <3>1. CASE seed < NumSeeds
      <4>1. pc' = "seed" /\ seed' = seed + 1
        BY <2>1, <3>1
      <4>2. \A s \in Seed : s < seed' => seedSummary'[model][s] # NoFile
        BY <2>8, <4>1 DEF EvalTypeOK, Seed
      <4>. QED
        BY <1>1, <4>1, <4>2 DEF LoopInv
    <3>2. CASE ~(seed < NumSeeds)
      <4>1. pc' = "aggregate"
        BY <2>1, <3>2
      <4>2. \A s \in Seed : seedSummary'[model][s] # NoFile
        BY <2>8, <3>2 DEF EvalTypeOK, Seed
      <4>. QED
        BY <1>1, <4>1, <4>2 DEF LoopInv
    <3>. QED
      BY <3>1, <3>2
  <2>. QED
    BY <2>6, <2>7, <2>9
<1>. QED
  BY <1>2, <1>3

LEMMA SummarizeModelKeepsInv ==
    ASSUME EvalInv, SummarizeModel
    PROVE  /\ EvalInv' /\ JobsOf(model) \subseteq {j \in Job : shard[j] # Absent}
           /\ {m \in Model : aggregate'[m] # NoFile}
                = {m \in Model : aggregate[m] # NoFile} \cup {model}
<1>. USE ModelsAndSeeds DEF EvalInv
<1>1. /\ pc = "aggregate" /\ pc' = "stop"
      /\ aggregate' = [aggregate EXCEPT ![model] = seedSummary[model]]
      /\ UNCHANGED <<model, seed, raised, shard, seedSummary, success>>
  BY DEF SummarizeModel, loopVars, awaitVars
<1>2. \A s \in Seed : seedSummary[model][s] # NoFile
  BY <1>1 DEF LoopInv
<1>3. seedSummary[model] \in [Seed -> SeedFile] /\ seedSummary[model] # NoFile
  BY <1>2, FilesAreFiles DEF EvalTypeOK
<1>4. /\ aggregate' \in [Model -> {NoFile} \cup [Seed -> SeedFile]]
      /\ aggregate'[model] # NoFile
      /\ \A m \in Model : m # model => aggregate'[m] = aggregate[m]
  BY <1>1, <1>3 DEF EvalTypeOK
<1>5. EvalInv'
  <2>1. EvalTypeOK'
    BY <1>1, <1>4 DEF EvalTypeOK
  <2>2. FilesInv'
    BY <1>1, <1>2, <1>4 DEF FilesInv
  <2>3. LoopInv'
    BY <1>1, <1>4 DEF LoopInv, EvalTypeOK, Model
  <2>. QED
    BY <2>1, <2>2, <2>3
<1>6. JobsOf(model) \subseteq {j \in Job : shard[j] # Absent}
  <2>1. \A s \in Seed, b \in Batch : shard[<<model, s, b>>] # Absent
    BY <1>2 DEF FilesInv, EvalTypeOK
  <2>. QED
    BY <2>1 DEF JobsOf, Job, EvalTypeOK
<1>7. model \in Model
  BY DEF EvalTypeOK
<1>. QED
  BY <1>4, <1>5, <1>6, <1>7

LEMMA OverviewKeepsInv == ASSUME EvalInv, WriteOverview \/ Succeed PROVE EvalInv'
<1>. USE ModelsAndSeeds DEF EvalInv
<1>1. UNCHANGED <<seed, raised, shard, seedSummary, aggregate>>
  BY DEF WriteOverview, Succeed, loopVars, awaitVars
<1>2. CASE WriteOverview
  <2>1. /\ pc = "overview" /\ success' = success
        /\ pc' = (IF model < NumModels THEN "model" ELSE "success")
        /\ model' = (IF model < NumModels THEN model + 1 ELSE model)
    BY <1>2 DEF WriteOverview, MoreModels
  <2>2. \A m \in Model : m <= model => aggregate[m] # NoFile
    BY <2>1 DEF LoopInv, EvalTypeOK, Model
  <2>3. EvalTypeOK' /\ FilesInv'
    BY <1>1, <2>1 DEF EvalTypeOK, FilesInv, Model
  <2>4. LoopInv'
    <3>1. CASE model < NumModels
      <4>1. pc' = "model" /\ model' = model + 1
        BY <2>1, <3>1
      <4>2. \A m \in Model : m < model' => aggregate[m] # NoFile
        BY <2>2, <4>1 DEF EvalTypeOK, Model
      <4>. QED
        BY <1>1, <4>1, <4>2 DEF LoopInv
    <3>2. CASE ~(model < NumModels)
      <4>1. pc' = "success"
        BY <2>1, <3>2
      <4>2. \A m \in Model : aggregate[m] # NoFile
        BY <2>2, <3>2 DEF EvalTypeOK, Model
      <4>. QED
        BY <1>1, <4>1, <4>2 DEF LoopInv
    <3>. QED
      BY <3>1, <3>2
  <2>. QED
    BY <2>3, <2>4
<1>3. CASE Succeed
  <2>1. pc = "success" /\ pc' = "off" /\ success' = TRUE /\ model' = model
    BY <1>3 DEF Succeed, loopVars
  <2>. QED
    BY <1>1, <2>1 DEF EvalTypeOK, FilesInv, LoopInv
<1>. QED
  BY <1>2, <1>3

\* What is on disk is made of whole parts, and the driver's loops pass over
\* nothing that is not there.
THEOREM FilesAlwaysWhole == Spec => []EvalInv
<1>1. EvalInv /\ [Next]_vars => EvalInv'
  <2> SUFFICES ASSUME EvalInv, [Next]_vars PROVE EvalInv'
    OBVIOUS
  <2>1. CASE Finished \/ UNCHANGED vars
    BY <2>1 DEF Finished, vars, EvalInv, EvalTypeOK, FilesInv, LoopInv, loopVars, awaitVars,
       fileVars
  <2>. QED
    BY <2>1, WorkersKeepInv, LoopKeepsInv, SummarizeSeedKeepsInv, SummarizeModelKeepsInv,
       OverviewKeepsInv DEF Next, Drives
<1>. QED
  BY <1>1, EvalInit, PTL DEF Spec

-----------------------------------------------------------------------------
(* The ledger                                                              *)

\* Through every signal, failure and restart, results are kept, a model is
\* aggregated only from all of its batches, and success is declared over all
\* models: the repeated evaluation implements ShardLedger.
THEOREM LedgerImplemented == Spec => ImplementsLedger
<1>. DEFINE computed == {j \in Job : shard[j] # Absent}
            aggregated == {m \in Model : aggregate[m] # NoFile}
<1>1. Init => Ledger!Init
  BY ModelsAndSeeds DEF Init, Ledger!Init, Absent, NoFile
<1>2. EvalInv /\ [Next]_vars => [Ledger!Next]_(Ledger!vars)
  <2> SUFFICES ASSUME EvalInv, [Next]_vars
               PROVE  Ledger!Next \/ UNCHANGED <<computed, aggregated, success>>
    BY DEF Ledger!vars
  <2>1. ASSUME NEW l \in Life, NEW g \in Gpu, WriteShard(l, g)
        PROVE  Ledger!Next \/ UNCHANGED <<computed, aggregated, success>>
    <3>1. /\ shard' = [shard EXCEPT ![holds[l][g]] = l]
          /\ aggregate' = aggregate /\ success' = success
      BY <2>1 DEF WriteShard, fileVars
    <3>2. CASE holds[l][g] \in Job
      <4>1. computed' = computed \cup {holds[l][g]}
        BY <3>1, <3>2, ModelsAndSeeds DEF EvalInv, EvalTypeOK
      <4>2. Ledger!Compute
        BY <3>1, <3>2, <4>1 DEF Ledger!Compute
      <4>. QED
        BY <4>2 DEF Ledger!Next
    <3>3. CASE holds[l][g] \notin Job
      <4>1. shard' = shard
        BY <3>1, <3>3 DEF EvalInv, EvalTypeOK
      <4>. QED
        BY <3>1, <4>1
    <3>. QED
      BY <3>2, <3>3
  <2>2. CASE SummarizeModel
    <3>1. /\ JobsOf(model) \subseteq computed /\ model \in Model
          /\ aggregated' = aggregated \cup {model}
          /\ shard' = shard /\ success' = success
      BY <2>2, SummarizeModelKeepsInv DEF SummarizeModel, EvalInv, EvalTypeOK
    <3>2. Ledger!Aggregate
      BY <3>1 DEF Ledger!Aggregate
    <3>. QED
      BY <3>2 DEF Ledger!Next
  <2>3. CASE Succeed
    <3>1. aggregated = Model
      BY <2>3 DEF Succeed, EvalInv, LoopInv
    <3>2. success' = TRUE /\ shard' = shard /\ aggregate' = aggregate
      BY <2>3 DEF Succeed
    <3>3. Ledger!Declare
      BY <3>1, <3>2 DEF Ledger!Declare
    <3>. QED
      BY <3>3 DEF Ledger!Next
  <2>4. CASE ~(\E l \in Life, g \in Gpu : WriteShard(l, g)) /\ ~SummarizeModel /\ ~Succeed
    <3>1. ASSUME Drives PROVE UNCHANGED <<shard, aggregate, success>>
      BY <2>4, <3>1, Zenon
      DEF Drives, SkipModel, OnlySummarize, StartWorkers, Get, NoticeDeath, WorkersReady,
          QueueSeed, SummarizeSeed, PutStops, Joined, WriteOverview, Fail, fileVars
    <3>2. ASSUME NEW l \in Life, NEW g \in Gpu, Works(l, g) \/ Die(l, g)
          PROVE  UNCHANGED <<shard, aggregate, success>>
      BY <2>4, <3>2, Zenon DEF Works, Load, LoadFails, TakeJob, Answer, FailJob, Die, fileVars
    <3>3. ASSUME Start \/ KillGroup \/ KillDriver \/ Finished \/ UNCHANGED vars
          PROVE  UNCHANGED <<shard, aggregate, success>>
      BY <3>3, Zenon DEF Start, KillGroup, KillDriver, Finished, vars, fileVars
    <3>4. UNCHANGED <<shard, aggregate, success>>
      BY <3>1, <3>2, <3>3 DEF Next
    <3>. QED
      BY <3>4
  <2>. QED
    BY <2>1, <2>2, <2>3, <2>4
<1>. QED
  BY <1>1, <1>2, FilesAlwaysWhole, PTL DEF Spec, ImplementsLedger, Ledger!Spec

-----------------------------------------------------------------------------
(* EvalSupervisor: the inductive invariant                                 *)

KeeperPc == {"top", "ask", "yield", "launch", "monitor", "between", "look", "stopWatcher",
             "stopEvaluators", "waitGone", "paused", "done"}
WatcherPc == {"none", "lock", "list", "check", "decide", "starting", "asleep"}

SupervisorTypeOK ==
    /\ keeper \in [Keeper -> KeeperPc]
    /\ watcher \in [Keeper -> WatcherPc]
    /\ sawPids \in [Keeper -> BOOLEAN]
    /\ unseen \in [Keeper -> SUBSET Evaluator]
    /\ evaluator \in [Evaluator -> {"unborn", "forked", "closed", "running", "ending", "gone"}]
    /\ child \in [Keeper -> {0} \cup Evaluator]
    /\ forkedBy \in [Evaluator -> Keeper \cup {"nobody"}]
    /\ missed \in SUBSET Evaluator
    /\ succeeded \in BOOLEAN /\ training \in BOOLEAN
    /\ trainings \in Nat /\ mishaps \in Nat

\* The watcher is past the lock.
Holds(k) == watcher[k] \notin {"none", "lock"}

OneHolder == \A j, k \in Keeper : Holds(j) /\ Holds(k) => j = k

\* While a child has its copy of the lock, no watcher but its own is past it.
ForkedHolds ==
    \A e \in Evaluator : evaluator[e] = "forked" =>
        \A k \in Keeper : Holds(k) => watcher[k] = "starting" /\ child[k] = e

\* A watcher that saw no process is right until it acts on it, but for those it
\* could not see; and about SUCCESS.json, unless one of these has run since.
SeesTruth ==
    \A k \in Keeper : ~sawPids[k] =>
        /\ watcher[k] \in {"check", "decide"} =>
             \A e \in Evaluator : Alive(e) => e \in unseen[k]
        /\ watcher[k] = "decide" /\ succeeded =>
             \E d \in unseen[k] : evaluator[d] \in {"ending", "gone"}

\* In a pause the waiter's watcher is gone, and with it all it started, except
\* the child that pgrep could not see.
PauseStops ==
    "waiter" \in Keeper =>
        /\ keeper["waiter"] \in {"stopEvaluators", "waitGone", "paused"}
             => watcher["waiter"] = "none"
        /\ keeper["waiter"] \in {"waitGone", "paused"} =>
             \A e \in Evaluator : evaluator[e] \in {"forked", "closed", "running"} =>
                 forkedBy[e] # "waiter" \/ e \in missed

LockInv == OneHolder /\ ForkedHolds /\ SeesTruth

SupervisorInv == SupervisorTypeOK /\ LockInv /\ PauseStops

-----------------------------------------------------------------------------
(* The types.                                                              *)

LEMMA WatcherKeepsTypes ==
    ASSUME SupervisorInv, NEW k \in Keeper, Watches(k)
    PROVE  SupervisorTypeOK'
<1>. USE DEF SupervisorInv, SupervisorTypeOK, KeeperPc, WatcherPc
<1>1. CASE TakeLock(k)
  BY <1>1 DEF TakeLock, WatcherGoes, LockHeld, looked, forks, bounded
<1>2. CASE ListPids(k)
  BY <1>2 DEF ListPids, WatcherGoes, Running, Visible, looked, forks, bounded
<1>3. CASE CheckSuccess(k)
  BY <1>3 DEF CheckSuccess, WatcherGoes, looked, forks, bounded
<1>4. CASE Healthy(k)
  BY <1>4 DEF Healthy, Forgets, WatcherGoes, looked, forks, bounded
<1>5. CASE Fork(k)
  BY <1>5 DEF Fork, Forgets, WatcherGoes, looked, forks, bounded
<1>6. CASE Started(k)
  BY <1>6 DEF Started, WatcherGoes, looked, forks, bounded
<1>7. CASE WakeUp(k)
  BY <1>7 DEF WakeUp, WatcherGoes, looked, forks, bounded
<1>. QED
  BY <1>1, <1>2, <1>3, <1>4, <1>5, <1>6, <1>7 DEF Watches

LEMMA LoopKeepsTypes ==
    ASSUME SupervisorInv, NEW k \in Keeper,
           Top(k) \/ Ask(k) \/ Yield(k) \/ Launch(k) \/ WatcherEnded(k) \/ Between(k)
    PROVE  SupervisorTypeOK'
<1>. USE DEF SupervisorInv, SupervisorTypeOK, KeeperPc, WatcherPc
<1>1. CASE Top(k)
  BY <1>1 DEF Top, KeeperGoes, looked, forks, bounded
<1>2. CASE Ask(k)
  BY <1>2 DEF Ask, KeeperGoes, looked, forks, bounded
<1>3. CASE Yield(k)
  BY <1>3 DEF Yield, KeeperGoes, looked, forks, bounded
<1>4. CASE Launch(k)
  BY <1>4 DEF Launch, KeeperGoes, looked, forks, bounded
<1>5. CASE WatcherEnded(k)
  BY <1>5 DEF WatcherEnded, KeeperGoes, looked, forks, bounded
<1>6. CASE Between(k)
  BY <1>6 DEF Between, KeeperGoes, looked, forks, bounded
<1>. QED
  BY <1>1, <1>2, <1>3, <1>4, <1>5, <1>6

LEMMA PauseKeepsTypes ==
    ASSUME SupervisorInv, "waiter" \in Keeper, WatcherAlive \/ Pauses
    PROVE  SupervisorTypeOK'
<1>. USE DEF SupervisorInv, SupervisorTypeOK, KeeperPc, WatcherPc
<1>1. CASE WatcherAlive
  BY <1>1 DEF WatcherAlive, KeeperGoes, looked, forks, bounded
<1>2. CASE Look
  BY <1>2 DEF Look, KeeperGoes, FirstStopped, looked, forks, bounded
<1>3. CASE StopWatcher
  BY <1>3 DEF StopWatcher, Forgets, KeeperGoes, FirstStopped, looked, forks, bounded
<1>4. CASE StopEvaluators
  BY <1>4 DEF StopEvaluators, KeeperGoes, FirstStopped, Visible, looked, forks, bounded
<1>5. CASE AllGone
  BY <1>5 DEF AllGone, KeeperGoes, Running, Visible, looked, forks, bounded
<1>6. CASE KillRest
  BY <1>6 DEF KillRest, KeeperGoes, Visible, looked, forks, bounded
<1>7. CASE Paused
  BY <1>7 DEF Paused, KeeperGoes, looked, forks, bounded
<1>. QED
  BY <1>1, <1>2, <1>3, <1>4, <1>5, <1>6, <1>7 DEF Pauses

LEMMA EvaluatorKeepsTypes ==
    ASSUME SupervisorInv, NEW e \in Evaluator,
           CloseFds(e) \/ Exec(e) \/ SucceedEvaluation(e) \/ FailEvaluation(e) \/ End(e)
           \/ KillEvaluator(e)
    PROVE  SupervisorTypeOK'
<1>. USE DEF SupervisorInv, SupervisorTypeOK, KeeperPc, WatcherPc
<1>0. CASE CloseFds(e)
  BY <1>0 DEF CloseFds, EvaluatorGoes, looked, forks, bounded
<1>1. CASE Exec(e)
  BY <1>1 DEF Exec, EvaluatorGoes, looked, forks, bounded
<1>2. CASE SucceedEvaluation(e)
  BY <1>2 DEF SucceedEvaluation, EvaluatorGoes, looked, forks, bounded
<1>3. CASE FailEvaluation(e)
  BY <1>3 DEF FailEvaluation, EvaluatorGoes, looked, forks, bounded
<1>4. CASE End(e)
  BY <1>4 DEF End, EvaluatorGoes, looked, forks, bounded
<1>5. CASE KillEvaluator(e)
  BY <1>5 DEF KillEvaluator, Visible, looked, forks, bounded
<1>. QED
  BY <1>0, <1>1, <1>2, <1>3, <1>4, <1>5

LEMMA OutsideKeepsTypes ==
    ASSUME SupervisorInv, TrainingStarts \/ TrainingEnds \/ (\E k \in Keeper : KillWatcher(k))
    PROVE  SupervisorTypeOK'
<1>. USE DEF SupervisorInv, SupervisorTypeOK, KeeperPc, WatcherPc
<1>1. CASE TrainingStarts
  BY <1>1 DEF TrainingStarts, looked, forks, bounded
<1>2. CASE TrainingEnds
  BY <1>2 DEF TrainingEnds, looked, forks, bounded
<1>3. CASE (\E k \in Keeper : KillWatcher(k))
  BY <1>3 DEF KillWatcher, Forgets, looked, forks, bounded
<1>. QED
  BY <1>1, <1>2, <1>3


-----------------------------------------------------------------------------
(* The lock, the evaluators and what watchers have seen.                   *)

LEMMA WatcherKeepsLock ==
    ASSUME SupervisorInv, NEW k \in Keeper, Watches(k)
    PROVE  LockInv'
<1>. USE DEF SupervisorInv, SupervisorTypeOK, KeeperPc, WatcherPc, LockInv, OneHolder, ForkedHolds,
             SeesTruth, Alive, Holds
<1>1. CASE TakeLock(k)
  BY <1>1 DEF TakeLock, WatcherGoes, LockHeld, looked, forks, bounded
<1>2. CASE ListPids(k)
  <2>1. /\ watcher[k] = "list" /\ watcher' = [watcher EXCEPT ![k] = "check"]
        /\ sawPids' = [sawPids EXCEPT ![k] = Running # {}]
        /\ unseen' = [unseen EXCEPT ![k] = {e \in Evaluator : evaluator[e] = "closed"}]
        /\ UNCHANGED <<evaluator, child, succeeded>>
    BY <1>2 DEF ListPids, WatcherGoes, forks
  <2>2. \A j \in Keeper : Holds(j)' <=> Holds(j)
    BY <2>1
  <2>3. OneHolder'
    BY <2>1, <2>2
  <2>4. ForkedHolds'
    BY <2>1, <2>2
  <2>5. \A e \in Evaluator : evaluator[e] # "forked"
    BY <2>1
  <2>6. SeesTruth'
    BY <2>1, <2>5 DEF Running, Visible
  <2>. QED
    BY <2>3, <2>4, <2>6
<1>3. CASE CheckSuccess(k)
  BY <1>3 DEF CheckSuccess, WatcherGoes, looked, forks, bounded
<1>4. CASE Healthy(k)
  BY <1>4 DEF Healthy, Forgets, WatcherGoes, looked, forks, bounded
<1>5. CASE Fork(k)
  BY <1>5 DEF Fork, Forgets, WatcherGoes, looked, forks, bounded
<1>6. CASE Started(k)
  BY <1>6 DEF Started, WatcherGoes, looked, forks, bounded
<1>7. CASE WakeUp(k)
  BY <1>7 DEF WakeUp, WatcherGoes, looked, forks, bounded
<1>. QED
  BY <1>1, <1>2, <1>3, <1>4, <1>5, <1>6, <1>7 DEF Watches

LEMMA LoopKeepsLock ==
    ASSUME SupervisorInv, NEW k \in Keeper,
           Top(k) \/ Ask(k) \/ Yield(k) \/ Launch(k) \/ WatcherEnded(k) \/ Between(k)
    PROVE  LockInv'
<1>. USE DEF SupervisorInv, SupervisorTypeOK, KeeperPc, WatcherPc, LockInv, OneHolder, ForkedHolds,
             SeesTruth, Alive, Holds
<1>1. CASE Top(k)
  BY <1>1 DEF Top, KeeperGoes, looked, forks, bounded
<1>2. CASE Ask(k)
  BY <1>2 DEF Ask, KeeperGoes, looked, forks, bounded
<1>3. CASE Yield(k)
  BY <1>3 DEF Yield, KeeperGoes, looked, forks, bounded
<1>4. CASE Launch(k)
  BY <1>4 DEF Launch, KeeperGoes, looked, forks, bounded
<1>5. CASE WatcherEnded(k)
  BY <1>5 DEF WatcherEnded, KeeperGoes, looked, forks, bounded
<1>6. CASE Between(k)
  BY <1>6 DEF Between, KeeperGoes, looked, forks, bounded
<1>. QED
  BY <1>1, <1>2, <1>3, <1>4, <1>5, <1>6

LEMMA PauseKeepsLock ==
    ASSUME SupervisorInv, "waiter" \in Keeper, WatcherAlive \/ Pauses
    PROVE  LockInv'
<1>. USE DEF SupervisorInv, SupervisorTypeOK, KeeperPc, WatcherPc, LockInv, OneHolder, ForkedHolds,
             SeesTruth, Alive, Holds
<1>1. CASE WatcherAlive
  BY <1>1 DEF WatcherAlive, KeeperGoes, looked, forks, bounded
<1>2. CASE Look
  BY <1>2 DEF Look, KeeperGoes, FirstStopped, looked, forks, bounded
<1>3. CASE StopWatcher
  BY <1>3 DEF StopWatcher, Forgets, KeeperGoes, FirstStopped, looked, forks, bounded
<1>4. CASE StopEvaluators
  BY <1>4 DEF StopEvaluators, KeeperGoes, FirstStopped, Visible, looked, forks, bounded
<1>5. CASE AllGone
  BY <1>5 DEF AllGone, KeeperGoes, Running, Visible, looked, forks, bounded
<1>6. CASE KillRest
  BY <1>6 DEF KillRest, KeeperGoes, Visible, looked, forks, bounded
<1>7. CASE Paused
  BY <1>7 DEF Paused, KeeperGoes, looked, forks, bounded
<1>. QED
  BY <1>1, <1>2, <1>3, <1>4, <1>5, <1>6, <1>7 DEF Pauses

LEMMA EvaluatorKeepsLock ==
    ASSUME SupervisorInv, NEW e \in Evaluator,
           CloseFds(e) \/ Exec(e) \/ SucceedEvaluation(e) \/ FailEvaluation(e) \/ End(e)
           \/ KillEvaluator(e)
    PROVE  LockInv'
<1>. USE DEF SupervisorInv, SupervisorTypeOK, KeeperPc, WatcherPc, LockInv, OneHolder, ForkedHolds,
             SeesTruth, Alive, Holds
<1>0. CASE CloseFds(e)
  BY <1>0 DEF CloseFds, EvaluatorGoes, looked, forks, bounded
<1>1. CASE Exec(e)
  BY <1>1 DEF Exec, EvaluatorGoes, looked, forks, bounded
<1>2. CASE SucceedEvaluation(e)
  BY <1>2 DEF SucceedEvaluation, EvaluatorGoes, looked, forks, bounded
<1>3. CASE FailEvaluation(e)
  BY <1>3 DEF FailEvaluation, EvaluatorGoes, looked, forks, bounded
<1>4. CASE End(e)
  BY <1>4 DEF End, EvaluatorGoes, looked, forks, bounded
<1>5. CASE KillEvaluator(e)
  BY <1>5 DEF KillEvaluator, Visible, looked, forks, bounded
<1>. QED
  BY <1>0, <1>1, <1>2, <1>3, <1>4, <1>5

LEMMA OutsideKeepsLock ==
    ASSUME SupervisorInv, TrainingStarts \/ TrainingEnds \/ (\E k \in Keeper : KillWatcher(k))
    PROVE  LockInv'
<1>. USE DEF SupervisorInv, SupervisorTypeOK, KeeperPc, WatcherPc, LockInv, OneHolder, ForkedHolds,
             SeesTruth, Alive, Holds
<1>1. CASE TrainingStarts
  BY <1>1 DEF TrainingStarts, looked, forks, bounded
<1>2. CASE TrainingEnds
  BY <1>2 DEF TrainingEnds, looked, forks, bounded
<1>3. CASE (\E k \in Keeper : KillWatcher(k))
  BY <1>3 DEF KillWatcher, Forgets, looked, forks, bounded
<1>. QED
  BY <1>1, <1>2, <1>3


-----------------------------------------------------------------------------
(* The pause.                                                              *)

LEMMA WatcherKeepsPause ==
    ASSUME SupervisorInv, NEW k \in Keeper, Watches(k)
    PROVE  PauseStops'
<1>. USE DEF SupervisorInv, SupervisorTypeOK, KeeperPc, WatcherPc, PauseStops
<1>1. CASE TakeLock(k)
  BY <1>1 DEF TakeLock, WatcherGoes, LockHeld, looked, forks, bounded
<1>2. CASE ListPids(k)
  BY <1>2 DEF ListPids, WatcherGoes, Running, Visible, looked, forks, bounded
<1>3. CASE CheckSuccess(k)
  BY <1>3 DEF CheckSuccess, WatcherGoes, looked, forks, bounded
<1>4. CASE Healthy(k)
  BY <1>4 DEF Healthy, Forgets, WatcherGoes, looked, forks, bounded
<1>5. CASE Fork(k)
  BY <1>5 DEF Fork, Forgets, WatcherGoes, looked, forks, bounded
<1>6. CASE Started(k)
  BY <1>6 DEF Started, WatcherGoes, looked, forks, bounded
<1>7. CASE WakeUp(k)
  BY <1>7 DEF WakeUp, WatcherGoes, looked, forks, bounded
<1>. QED
  BY <1>1, <1>2, <1>3, <1>4, <1>5, <1>6, <1>7 DEF Watches

LEMMA LoopKeepsPause ==
    ASSUME SupervisorInv, NEW k \in Keeper,
           Top(k) \/ Ask(k) \/ Yield(k) \/ Launch(k) \/ WatcherEnded(k) \/ Between(k)
    PROVE  PauseStops'
<1>. USE DEF SupervisorInv, SupervisorTypeOK, KeeperPc, WatcherPc, PauseStops
<1>1. CASE Top(k)
  BY <1>1 DEF Top, KeeperGoes, looked, forks, bounded
<1>2. CASE Ask(k)
  BY <1>2 DEF Ask, KeeperGoes, looked, forks, bounded
<1>3. CASE Yield(k)
  BY <1>3 DEF Yield, KeeperGoes, looked, forks, bounded
<1>4. CASE Launch(k)
  BY <1>4 DEF Launch, KeeperGoes, looked, forks, bounded
<1>5. CASE WatcherEnded(k)
  BY <1>5 DEF WatcherEnded, KeeperGoes, looked, forks, bounded
<1>6. CASE Between(k)
  BY <1>6 DEF Between, KeeperGoes, looked, forks, bounded
<1>. QED
  BY <1>1, <1>2, <1>3, <1>4, <1>5, <1>6

LEMMA PauseKeepsPause ==
    ASSUME SupervisorInv, "waiter" \in Keeper, WatcherAlive \/ Pauses
    PROVE  PauseStops'
<1>. USE DEF SupervisorInv, SupervisorTypeOK, KeeperPc, WatcherPc, PauseStops
<1>1. CASE WatcherAlive
  BY <1>1 DEF WatcherAlive, KeeperGoes, looked, forks, bounded
<1>2. CASE Look
  BY <1>2 DEF Look, KeeperGoes, FirstStopped, looked, forks, bounded
<1>3. CASE StopWatcher
  BY <1>3 DEF StopWatcher, Forgets, KeeperGoes, FirstStopped, looked, forks, bounded
<1>4. CASE StopEvaluators
  BY <1>4 DEF StopEvaluators, KeeperGoes, FirstStopped, Visible, looked, forks, bounded
<1>5. CASE AllGone
  BY <1>5 DEF AllGone, KeeperGoes, Running, Visible, looked, forks, bounded
<1>6. CASE KillRest
  BY <1>6 DEF KillRest, KeeperGoes, Visible, looked, forks, bounded
<1>7. CASE Paused
  BY <1>7 DEF Paused, KeeperGoes, looked, forks, bounded
<1>. QED
  BY <1>1, <1>2, <1>3, <1>4, <1>5, <1>6, <1>7 DEF Pauses

LEMMA EvaluatorKeepsPause ==
    ASSUME SupervisorInv, NEW e \in Evaluator,
           CloseFds(e) \/ Exec(e) \/ SucceedEvaluation(e) \/ FailEvaluation(e) \/ End(e)
           \/ KillEvaluator(e)
    PROVE  PauseStops'
<1>. USE DEF SupervisorInv, SupervisorTypeOK, KeeperPc, WatcherPc, PauseStops
<1>0. CASE CloseFds(e)
  BY <1>0 DEF CloseFds, EvaluatorGoes, looked, forks, bounded
<1>1. CASE Exec(e)
  BY <1>1 DEF Exec, EvaluatorGoes, looked, forks, bounded
<1>2. CASE SucceedEvaluation(e)
  BY <1>2 DEF SucceedEvaluation, EvaluatorGoes, looked, forks, bounded
<1>3. CASE FailEvaluation(e)
  BY <1>3 DEF FailEvaluation, EvaluatorGoes, looked, forks, bounded
<1>4. CASE End(e)
  BY <1>4 DEF End, EvaluatorGoes, looked, forks, bounded
<1>5. CASE KillEvaluator(e)
  BY <1>5 DEF KillEvaluator, Visible, looked, forks, bounded
<1>. QED
  BY <1>0, <1>1, <1>2, <1>3, <1>4, <1>5

LEMMA OutsideKeepsPause ==
    ASSUME SupervisorInv, TrainingStarts \/ TrainingEnds \/ (\E k \in Keeper : KillWatcher(k))
    PROVE  PauseStops'
<1>. USE DEF SupervisorInv, SupervisorTypeOK, KeeperPc, WatcherPc, PauseStops
<1>1. CASE TrainingStarts
  BY <1>1 DEF TrainingStarts, looked, forks, bounded
<1>2. CASE TrainingEnds
  BY <1>2 DEF TrainingEnds, looked, forks, bounded
<1>3. CASE (\E k \in Keeper : KillWatcher(k))
  BY <1>3 DEF KillWatcher, Forgets, looked, forks, bounded
<1>. QED
  BY <1>1, <1>2, <1>3

-----------------------------------------------------------------------------
LEMMA SupervisorInvInit == SupervisorInit => SupervisorInv
<1> SUFFICES ASSUME SupervisorInit PROVE SupervisorInv
  OBVIOUS
<1>. USE DEF SupervisorInit
<1>1. SupervisorTypeOK
  BY DEF SupervisorTypeOK, KeeperPc, WatcherPc
<1>2. LockInv
  BY DEF LockInv, OneHolder, ForkedHolds, SeesTruth, Alive, Holds
<1>3. PauseStops
  BY DEF PauseStops
<1>. QED
  BY <1>1, <1>2, <1>3 DEF SupervisorInv

LEMMA SupervisorInvStep == SupervisorInv /\ [SupervisorNext]_supervisorVars => SupervisorInv'
<1> SUFFICES ASSUME SupervisorInv, [SupervisorNext]_supervisorVars PROVE SupervisorInv'
  OBVIOUS
<1>1. ASSUME NEW k \in Keeper, Watches(k) PROVE SupervisorInv'
  BY <1>1, WatcherKeepsTypes, WatcherKeepsLock, WatcherKeepsPause DEF SupervisorInv
<1>2. ASSUME NEW k \in Keeper, Keeps(k) PROVE SupervisorInv'
  <2>1. CASE k = "waiter" /\ (WatcherAlive \/ Pauses)
    BY <2>1, PauseKeepsTypes, PauseKeepsLock, PauseKeepsPause DEF SupervisorInv
  <2>2. CASE Top(k) \/ Ask(k) \/ Yield(k) \/ Launch(k) \/ WatcherEnded(k) \/ Between(k)
    BY <2>2, LoopKeepsTypes, LoopKeepsLock, LoopKeepsPause DEF SupervisorInv
  <2>. QED
    BY <1>2, <2>1, <2>2 DEF Keeps
<1>3. ASSUME NEW e \in Evaluator,
             CloseFds(e) \/ Exec(e) \/ SucceedEvaluation(e) \/ FailEvaluation(e) \/ End(e)
           \/ KillEvaluator(e)
      PROVE  SupervisorInv'
  BY <1>3, EvaluatorKeepsTypes, EvaluatorKeepsLock, EvaluatorKeepsPause DEF SupervisorInv
<1>4. CASE TrainingStarts \/ TrainingEnds \/ (\E k \in Keeper : KillWatcher(k))
  BY <1>4, OutsideKeepsTypes, OutsideKeepsLock, OutsideKeepsPause DEF SupervisorInv
<1>5. CASE UNCHANGED supervisorVars
  BY <1>5 DEF supervisorVars, looked, forks, bounded, SupervisorInv, SupervisorTypeOK, LockInv, OneHolder,
     ForkedHolds, SeesTruth, Alive, Holds, PauseStops
<1>. QED
  BY <1>1, <1>2, <1>3, <1>4, <1>5 DEF SupervisorNext, AllDone

LEMMA SupervisorAlways == SupervisorSpec => []SupervisorInv
BY SupervisorInvInit, SupervisorInvStep, PTL DEF SupervisorSpec

-----------------------------------------------------------------------------
(* Who starts an evaluator.                                                *)

\* Only a fork starts an evaluator, and its watcher decides on what it has seen.
LEMMA StartsAreForks ==
    ASSUME SupervisorTypeOK, SupervisorNext, NEW e \in Evaluator, Starts(e)
    PROVE  \E k \in Keeper :
              watcher[k] = "decide" /\ ~sawPids[k] /\ forkedBy'[e] = k
<1>. USE DEF SupervisorTypeOK, Starts
<1>1. ASSUME NEW k \in Keeper, Watches(k) PROVE Fork(k)
  BY <1>1 DEF Watches, TakeLock, ListPids, CheckSuccess, Healthy, Started, WakeUp
<1>2. ASSUME NEW k \in Keeper, Fork(k)
      PROVE  watcher[k] = "decide" /\ ~sawPids[k] /\ forkedBy'[e] = k
  <2>1. PICK d \in Evaluator : /\ evaluator' = [evaluator EXCEPT ![d] = "forked"]
                               /\ forkedBy' = [forkedBy EXCEPT ![d] = k]
    BY <1>2 DEF Fork
  <2>2. d = e
    BY <2>1
  <2>. QED
    BY <1>2, <2>1, <2>2 DEF Fork, WatcherGoes
<1>3. ASSUME NEW k \in Keeper, Keeps(k) PROVE FALSE
  <2>1. CASE StopWatcher
    BY <2>1 DEF StopWatcher
  <2>2. CASE StopEvaluators \/ KillRest
    BY <2>2 DEF StopEvaluators, KillRest
  <2>3. CASE ~(StopWatcher \/ StopEvaluators \/ KillRest)
    BY <1>3, <2>3 DEF Keeps, Pauses, Top, Ask, Yield, Launch, WatcherEnded, Between,
       WatcherAlive, Look, AllGone, Paused
  <2>. QED
    BY <2>1, <2>2, <2>3
<1>4. ASSUME NEW d \in Evaluator,
             CloseFds(d) \/ Exec(d) \/ SucceedEvaluation(d) \/ FailEvaluation(d) \/ End(d)
             \/ KillEvaluator(d)
      PROVE  FALSE
  BY <1>4 DEF CloseFds, Exec, SucceedEvaluation, FailEvaluation, End, KillEvaluator, EvaluatorGoes
<1>5. ~(TrainingStarts \/ TrainingEnds \/ (\E k \in Keeper : KillWatcher(k)) \/ AllDone)
  BY DEF TrainingStarts, TrainingEnds, KillWatcher, AllDone, supervisorVars
<1>. QED
  BY <1>1, <1>2, <1>3, <1>4, <1>5 DEF SupervisorNext

\* An evaluator is started beside another only if the other was between close and
\* exec when the new one's watcher listed the processes: this watcher alone is past
\* the lock, a child that has the lock keeps it out, and one with the evaluator's
\* command line is seen.
THEOREM OneEvaluatorAlways == SupervisorSpec => OneEvaluator
<1>. DEFINE Alone == \A e \in Evaluator : Starts(e) =>
                       \A d \in Evaluator : Alive(d) => d \in unseen[forkedBy'[e]]
<1>1. SupervisorInv /\ [SupervisorNext]_supervisorVars => [Alone]_supervisorVars
  <2> SUFFICES ASSUME SupervisorInv, SupervisorNext, NEW e \in Evaluator, Starts(e)
               PROVE  \A d \in Evaluator : Alive(d) => d \in unseen[forkedBy'[e]]
    OBVIOUS
  <2>1. PICK k \in Keeper : watcher[k] = "decide" /\ ~sawPids[k] /\ forkedBy'[e] = k
    BY StartsAreForks DEF SupervisorInv
  <2>. QED
    BY <2>1 DEF SupervisorInv, LockInv, SeesTruth
<1>. QED
  BY <1>1, SupervisorAlways, PTL DEF SupervisorSpec, OneEvaluator

\* No evaluator is started after SUCCESS.json, unless one that its watcher could not
\* see has run since: whoever else could write it is seen by the watcher, which then
\* looks for the file.
THEOREM FinishedStaysFinished == SupervisorSpec => NeverRestartsFinished
<1>. DEFINE Knows == \A e \in Evaluator : Starts(e) /\ succeeded =>
                       \E d \in unseen[forkedBy'[e]] : evaluator[d] \in {"ending", "gone"}
<1>1. SupervisorInv /\ [SupervisorNext]_supervisorVars => [Knows]_supervisorVars
  <2> SUFFICES ASSUME SupervisorInv, SupervisorNext, NEW e \in Evaluator, Starts(e), succeeded
               PROVE  \E d \in unseen[forkedBy'[e]] : evaluator[d] \in {"ending", "gone"}
    OBVIOUS
  <2>1. PICK k \in Keeper : watcher[k] = "decide" /\ ~sawPids[k] /\ forkedBy'[e] = k
    BY StartsAreForks DEF SupervisorInv
  <2>. QED
    BY <2>1 DEF SupervisorInv, LockInv, SeesTruth
<1>. QED
  BY <1>1, SupervisorAlways, PTL DEF SupervisorSpec, NeverRestartsFinished

\* When pause_evaluation returns, what still runs is another keeper's or the one
\* child pgrep could not see: the watcher has been ended before the evaluators.
THEOREM PauseAlwaysComplete == SupervisorSpec => []PauseIsComplete
<1>1. SupervisorInv => PauseIsComplete
  BY DEF SupervisorInv, PauseStops, PauseIsComplete
<1>. QED
  BY <1>1, SupervisorAlways, PTL
=============================================================================
