-------------------------- MODULE EvaluationProofs ---------------------------
(***************************************************************************)
(* Machine-checked proofs about both evaluations, of checkpoints and of    *)
(* complete models, for every number of workers, batches and models.       *)
(*                                                                         *)
(* CheckpointEvaluation: each step of the engine keeps its types and the   *)
(* bookkeeping of batches and answers, from which it follows that what it  *)
(* returns is complete; it gives up only when a worker broke; no worker    *)
(* and no merged model outlives its checkpoint.                            *)
(*                                                                         *)
(* ModelEvaluation: what summary.json says of the results is true whenever *)
(* a reader looks, through every kill and restart, and results of          *)
(* different attempts never lie side by side.                              *)
(***************************************************************************)
EXTENDS CheckpointEvaluation, ModelEvaluation, FiniteSetTheorems, TLAPS

-----------------------------------------------------------------------------
(* The engine                                                              *)

EngineTyped == EngineTypeOK /\ EngineInv

EngineStep ==
    \/ StartWorkers
    \/ Drives
    \/ \E w \in Worker : Works(w) \/ Die(w)

LEMMA EvalConstants ==
    /\ NumBatches \in Nat /\ NumBatches >= 1
    /\ Cardinality(Worker) \in Nat
    /\ NoBatch = 0
    /\ IsFiniteSet(Batch) /\ Cardinality(Batch) = NumBatches
<1>1. IsFiniteSet(1 .. NumBatches) /\ Cardinality(1 .. NumBatches) = NumBatches
  BY FS_Interval, EvalAssumption
<1>. QED
  BY <1>1, FS_CardinalityType, EvalAssumption DEF NoBatch, Batch

-----------------------------------------------------------------------------
(* Types                                                                   *)

LEMMA SaysTyped ==
    ASSUME EngineTypeOK, NEW w \in Worker, NEW kind \in {"ready", "batch"},
           NEW ok \in BOOLEAN, NEW batch \in 0 .. NumBatches, Says(w, kind, ok, batch)
    PROVE  unsent' \in [Worker -> SUBSET Message]
<1>1. [kind |-> kind, ok |-> ok, from |-> w, batch |-> batch] \in Message
  BY DEF Message
<1>. QED
  BY <1>1 DEF Says, EngineTypeOK

LEMMA WorkTyped ==
    ASSUME EngineTypeOK, NEW w \in Worker, Works(w) \/ Die(w)
    PROVE  EngineTypeOK'
<1>. USE EvalConstants, EvalAssumption
<1>. USE DEF EngineTypeOK, Becomes, driverVars, workerVars, queueVars
<1>1. CASE Load(w)
  <2>1. \A ok \in BOOLEAN : Says(w, "ready", ok, NoBatch) => unsent' \in [Worker -> SUBSET Message]
    BY SaysTyped
  <2>2. \E ok \in BOOLEAN : Says(w, "ready", ok, NoBatch)
    BY <1>1 DEF Load
  <2>3. \/ Becomes(w, "idle") /\ UNCHANGED faults
        \/ Becomes(w, "leaving") /\ faults < MaxFaults /\ faults' = faults + 1
    BY <1>1 DEF Load
  <2>4. UNCHANGED <<driverVars, holds, queueVars>>
    BY <1>1 DEF Load
  <2>. QED
    BY <2>1, <2>2, <2>3, <2>4
<1>2. CASE TakeBatch(w)
  BY <1>2 DEF TakeBatch, Batch
<1>3. CASE TakeNone(w)
  BY <1>3 DEF TakeNone
<1>4. CASE Answer(w)
  <2>1. holds[w] \in 0 .. NumBatches
    OBVIOUS
  <2>2. unsent' \in [Worker -> SUBSET Message]
    BY <1>4, <2>1, SaysTyped DEF Answer
  <2>3. /\ holds' = [holds EXCEPT ![w] = NoBatch] /\ Becomes(w, "idle")
        /\ UNCHANGED <<driverVars, queueVars, faults>>
    BY <1>4 DEF Answer
  <2>. QED
    BY <2>2, <2>3
<1>5. CASE FailBatch(w)
  <2>1. holds[w] \in 0 .. NumBatches
    OBVIOUS
  <2>2. unsent' \in [Worker -> SUBSET Message]
    BY <1>5, <2>1, SaysTyped DEF FailBatch
  <2>3. /\ holds' = [holds EXCEPT ![w] = NoBatch] /\ Becomes(w, "leaving")
        /\ UNCHANGED <<driverVars, queueVars>> /\ faults < MaxFaults /\ faults' = faults + 1
    BY <1>5 DEF FailBatch
  <2>. QED
    BY <2>2, <2>3
<1>6. CASE Send(w)
  BY <1>6 DEF Send
<1>7. CASE Leave(w)
  BY <1>7 DEF Leave
<1>8. CASE Die(w)
  BY <1>8 DEF Die
<1>. QED
  BY <1>1, <1>2, <1>3, <1>4, <1>5, <1>6, <1>7, <1>8 DEF Works

LEMMA DriveTyped ==
    ASSUME EngineTypeOK, StartWorkers \/ Drives
    PROVE  EngineTypeOK'
<1>. USE EvalConstants, EvalAssumption
<1>. USE DEF EngineTypeOK, driverVars, workerVars, queueVars
<1>1. CASE StartWorkers
  BY <1>1 DEF StartWorkers
<1>2. CASE Get
  BY <1>2 DEF Get
<1>3. CASE GetTimesOut
  BY <1>3 DEF GetTimesOut
<1>4. CASE CheckExits
  BY <1>4 DEF CheckExits
<1>5. CASE QueueBatches
  BY <1>5 DEF QueueBatches, StopsWithBatches
<1>6. CASE PutStops
  BY <1>6 DEF PutStops
<1>7. CASE Joined
  BY <1>7 DEF Joined, Terminated
<1>8. CASE Abort
  BY <1>8 DEF Abort, Terminated
<1>. QED
  BY <1>1, <1>2, <1>3, <1>4, <1>5, <1>6, <1>7, <1>8 DEF Drives

-----------------------------------------------------------------------------
(* Batches and answers                                                     *)

LEMMA AnswersAre ==
    \A m : m \in Answers <=>
        /\ m.kind = "batch"
        /\ m \in got \/ m \in sent \/ \E w \in Worker : m \in unsent[w]
BY DEF Answers

LEMMA AnswersWillBe ==
    \A m : m \in Answers' <=>
        /\ m.kind = "batch"
        /\ m \in got' \/ m \in sent' \/ \E w \in Worker : m \in unsent'[w]
BY DEF Answers

\* Steps that lose answers or batches, or only move answers on.
LEMMA LosingKeepsBooks ==
    ASSUME EngineInv, Answers' \subseteq Answers, nextBatch' = nextBatch, expected' = expected,
           \A w \in Worker : holds'[w] \in {holds[w], NoBatch},
           \A w \in Worker : worker'[w] = "busy" => holds'[w] # NoBatch
    PROVE  AnsweredOnce' /\ HeldOnce' /\ NothingYet'
<1>1. AnsweredOnce'
  BY DEF EngineInv, AnsweredOnce
<1>2. HeldOnce'
  BY DEF EngineInv, HeldOnce
<1>3. NothingYet'
  BY DEF EngineInv, NothingYet
<1>. QED
  BY <1>1, <1>2, <1>3

LEMMA WorkersKeepGot ==
    ASSUME EngineInv, UNCHANGED <<engine, expected, got>>
    PROVE  GotAwaited'
BY DEF EngineInv, GotAwaited, AllIn, Awaited

\* An answer takes the place of the batch it answers.
LEMMA AnsweringKeepsBooks ==
    ASSUME EngineTypeOK, EngineInv, NEW w \in Worker, worker[w] = "busy", NEW ok \in BOOLEAN,
           Says(w, "batch", ok, holds[w]), NEW state \in {"idle", "leaving"}, Becomes(w, state),
           holds' = [holds EXCEPT ![w] = NoBatch],
           UNCHANGED <<engine, expected, got, sent, nextBatch>>
    PROVE  EngineInv'
<1>. DEFINE b == holds[w]
            m == [kind |-> "batch", ok |-> ok, from |-> w, batch |-> b]
<1>1. b # NoBatch /\ b \in 1 .. nextBatch - 1 /\ \A a \in Answers : a.batch # b
  BY DEF EngineInv, HeldOnce
<1>2. \A a \in Answers' : a \in Answers \/ a = m
  <2>1. \A v \in Worker : unsent'[v] \subseteq unsent[v] \cup {m}
    BY DEF Says, EngineTypeOK
  <2>. QED
    BY <2>1, AnswersAre, AnswersWillBe
<1>3. m.batch = b
  OBVIOUS
<1>4. \A v \in Worker : holds'[v] = IF v = w THEN NoBatch ELSE holds[v]
  BY DEF EngineTypeOK
<1>5. \A v \in Worker : worker'[v] = IF v = w THEN state ELSE worker[v]
  BY DEF EngineTypeOK, Becomes
<1>. HIDE DEF m, b
<1>6. AnsweredOnce'
  BY <1>1, <1>2, <1>3 DEF EngineInv, AnsweredOnce
<1>7. HeldOnce'
  <2>1. \A v \in Worker : worker'[v] = "busy" => holds'[v] # NoBatch
    BY <1>4, <1>5 DEF EngineInv, HeldOnce
  <2>2. \A v \in Worker : holds'[v] # NoBatch => holds'[v] = holds[v] /\ holds[v] # b
    BY <1>1, <1>4 DEF EngineInv, HeldOnce, b
  <2>3. \A v \in Worker : holds'[v] # NoBatch =>
          /\ holds'[v] \in 1 .. nextBatch' - 1
          /\ \A a \in Answers' : a.batch # holds'[v]
    BY <2>2, <1>2, <1>3 DEF EngineInv, HeldOnce
  <2>4. \A v1, v2 \in Worker : holds'[v1] = holds'[v2] /\ holds'[v1] # NoBatch => v1 = v2
    BY <2>2 DEF EngineInv, HeldOnce
  <2>. QED
    BY <2>1, <2>3, <2>4 DEF HeldOnce
<1>8. expected # "ready"
  BY <1>1 DEF EngineInv, NothingYet, b
<1>9. GotAwaited'
  BY WorkersKeepGot
<1>. QED
  BY <1>6, <1>7, <1>8, <1>9 DEF EngineInv, NothingYet

\* Steps of the driver that only let go of messages or move them to got.
LEMMA DrivingKeepsBooks ==
    ASSUME EngineTypeOK, EngineInv, UNCHANGED <<worker, holds, unsent, nextBatch, expected>>,
           got' \cup sent' \subseteq got \cup sent
    PROVE  AnsweredOnce' /\ HeldOnce' /\ NothingYet'
<1>1. Answers' \subseteq Answers
  BY AnswersAre, AnswersWillBe
<1>. QED
  BY <1>1, LosingKeepsBooks DEF EngineInv, HeldOnce

LEMMA StoppingKeepsBooks ==
    ASSUME EngineTypeOK, EngineInv, worker' = Terminated,
           holds' = [w \in Worker |-> NoBatch], unsent' = [w \in Worker |-> {}],
           UNCHANGED <<expected, got, sent, nextBatch>>
    PROVE  AnsweredOnce' /\ HeldOnce' /\ NothingYet'
<1>1. Answers' \subseteq Answers
  BY AnswersAre, AnswersWillBe
<1>2. \A w \in Worker : holds'[w] = NoBatch /\ worker'[w] # "busy"
  BY DEF Terminated
<1>. QED
  BY <1>1, <1>2, LosingKeepsBooks

LEMMA WorkInv ==
    ASSUME EngineTypeOK, EngineInv, NEW w \in Worker, Works(w) \/ Die(w)
    PROVE  EngineInv'
<1>1. UNCHANGED <<engine, expected, got>>
  BY DEF Works, Load, TakeBatch, TakeNone, Answer, FailBatch, Send, Leave, Die, driverVars
<1>2. GotAwaited'
  BY <1>1, WorkersKeepGot
<1>3. CASE Load(w)
  <2>1. PICK ok \in BOOLEAN : Says(w, "ready", ok, NoBatch)
    BY <1>3 DEF Load
  <2>2. UNCHANGED <<sent, nextBatch, holds>>
    BY <1>3 DEF Load, queueVars
  <2>3. \A v \in Worker : \A m \in unsent'[v] : m \in unsent[v] \/ m.kind = "ready"
    BY <2>1 DEF Says, EngineTypeOK
  <2>4. Answers' \subseteq Answers
    BY <1>1, <2>2, <2>3, AnswersAre, AnswersWillBe
  <2>5. \A v \in Worker : worker'[v] = "busy" => worker[v] = "busy"
    BY <1>3 DEF Load, Becomes, EngineTypeOK
  <2>6. \A v \in Worker : worker'[v] = "busy" => holds'[v] # NoBatch
    BY <2>2, <2>5 DEF EngineInv, HeldOnce
  <2>. QED
    BY <1>1, <1>2, <2>2, <2>4, <2>6, LosingKeepsBooks DEF EngineInv
<1>4. CASE TakeBatch(w)
  <2>. DEFINE b == nextBatch
  <2>1. /\ nextBatch \in Batch /\ nextBatch' = nextBatch + 1
        /\ holds' = [holds EXCEPT ![w] = b] /\ Becomes(w, "busy") /\ worker[w] = "idle"
        /\ UNCHANGED <<unsent, sent>>
    BY <1>4 DEF TakeBatch
  <2>2. Answers' = Answers
    BY <1>1, <2>1 DEF Answers
  <2>3. expected # "ready"
    BY <2>1, EvalConstants DEF EngineInv, NothingYet, Batch
  <2>4. b \in Nat /\ b # NoBatch
    BY <2>1, EvalConstants DEF Batch
  <2>5. \A a \in Answers : a.batch \in 1 .. b - 1 /\ a.batch # b
    BY <2>4 DEF EngineInv, AnsweredOnce
  <2>6. \A v \in Worker : holds'[v] = IF v = w THEN b ELSE holds[v]
    BY <2>1 DEF EngineTypeOK
  <2>7. \A v \in Worker : holds[v] # NoBatch => holds[v] \in 1 .. b - 1 /\ holds[v] # b
    BY <2>4 DEF EngineInv, HeldOnce
  <2>8. \A v \in Worker : worker'[v] = "busy" => v = w \/ worker[v] = "busy"
    BY <2>1 DEF Becomes, EngineTypeOK
  <2>9. nextBatch' - 1 = b
    BY <2>1, <2>4
  <2>. HIDE DEF b
  <2>10. AnsweredOnce'
    BY <2>2, <2>4, <2>5, <2>9 DEF EngineInv, AnsweredOnce
  <2>11. HeldOnce'
    <3>1. \A v \in Worker : worker'[v] = "busy" => holds'[v] # NoBatch
      BY <2>4, <2>6, <2>8 DEF EngineInv, HeldOnce
    <3>2. \A v \in Worker : holds'[v] # NoBatch =>
            /\ holds'[v] \in 1 .. nextBatch' - 1
            /\ \A a \in Answers' : a.batch # holds'[v]
      <4>1. SUFFICES ASSUME NEW v \in Worker, holds'[v] # NoBatch
                     PROVE  /\ holds'[v] \in 1 .. b
                            /\ \A a \in Answers : a.batch # holds'[v]
        BY <2>2, <2>9
      <4>2. CASE v = w
        BY <2>4, <2>5, <2>6, <4>2, EvalConstants
      <4>3. CASE v # w
        <5>1. holds'[v] = holds[v] /\ holds[v] # NoBatch
          BY <2>6, <4>1, <4>3
        <5>. QED
          BY <2>4, <2>7, <5>1 DEF EngineInv, HeldOnce
      <4>. QED
        BY <4>2, <4>3
    <3>3. \A v1, v2 \in Worker : holds'[v1] = holds'[v2] /\ holds'[v1] # NoBatch => v1 = v2
      BY <2>6, <2>7 DEF EngineInv, HeldOnce
    <3>. QED
      BY <3>1, <3>2, <3>3 DEF HeldOnce
  <2>. QED
    BY <1>1, <1>2, <2>3, <2>10, <2>11 DEF EngineInv, NothingYet
<1>5. CASE TakeNone(w) \/ Leave(w)
  <2>1. UNCHANGED <<sent, nextBatch, holds, unsent>>
    BY <1>5 DEF TakeNone, Leave, queueVars
  <2>2. Answers' = Answers
    BY <1>1, <2>1 DEF Answers
  <2>3. \A v \in Worker : worker'[v] = "busy" => worker[v] = "busy"
    BY <1>5 DEF TakeNone, Leave, Becomes, EngineTypeOK
  <2>4. \A v \in Worker : worker'[v] = "busy" => holds'[v] # NoBatch
    BY <2>1, <2>3 DEF EngineInv, HeldOnce
  <2>. QED
    BY <1>1, <1>2, <2>1, <2>2, <2>4, LosingKeepsBooks DEF EngineInv
<1>6. CASE Answer(w)
  BY <1>1, <1>6, AnsweringKeepsBooks DEF Answer, queueVars
<1>7. CASE FailBatch(w)
  BY <1>1, <1>7, AnsweringKeepsBooks DEF FailBatch, queueVars
<1>8. CASE Send(w)
  <2>1. UNCHANGED <<worker, holds, nextBatch>>
    BY <1>8 DEF Send
  <2>2. PICK m \in unsent[w] : unsent' = [unsent EXCEPT ![w] = @ \ {m}] /\ sent' = sent \cup {m}
    BY <1>8 DEF Send
  <2>3. \A v \in Worker : unsent'[v] \subseteq unsent[v]
    BY <2>2 DEF EngineTypeOK
  <2>4. Answers' \subseteq Answers
    BY <1>1, <2>2, <2>3, AnswersAre, AnswersWillBe
  <2>5. \A v \in Worker : worker'[v] = "busy" => holds'[v] # NoBatch
    BY <2>1 DEF EngineInv, HeldOnce
  <2>. QED
    BY <1>1, <1>2, <2>1, <2>4, <2>5, LosingKeepsBooks DEF EngineInv
<1>9. CASE Die(w)
  <2>1. UNCHANGED <<sent, nextBatch>>
    BY <1>9 DEF Die, queueVars
  <2>2. \A v \in Worker : /\ unsent'[v] \subseteq unsent[v]
                          /\ holds'[v] = IF v = w THEN NoBatch ELSE holds[v]
                          /\ worker'[v] = IF v = w THEN "exited" ELSE worker[v]
    BY <1>9 DEF Die, Becomes, EngineTypeOK
  <2>3. Answers' \subseteq Answers
    BY <1>1, <2>1, <2>2, AnswersAre, AnswersWillBe
  <2>4. \A v \in Worker : worker'[v] = "busy" => holds'[v] # NoBatch
    BY <2>2 DEF EngineInv, HeldOnce
  <2>. QED
    BY <1>1, <1>2, <2>1, <2>2, <2>3, <2>4, LosingKeepsBooks DEF EngineInv
<1>. QED
  BY <1>3, <1>4, <1>5, <1>6, <1>7, <1>8, <1>9 DEF Works

LEMMA DriveInv ==
    ASSUME EngineTypeOK, EngineInv, StartWorkers \/ Drives
    PROVE  EngineInv'
<1>. USE DEF driverVars, workerVars, queueVars
<1>1. CASE StartWorkers
  <2>1. /\ got' = {} /\ sent' = {} /\ expected' = "ready" /\ engine' = "await"
        /\ nextBatch' = NumBatches + 1
        /\ \A w \in Worker : unsent'[w] = {} /\ holds'[w] = NoBatch /\ worker'[w] = "loading"
    BY <1>1 DEF StartWorkers
  <2>2. Answers' = {}
    BY <2>1, AnswersWillBe
  <2>3. IsFiniteSet(got')
    BY <2>1, FS_EmptySet
  <2>. QED
    BY <2>1, <2>2, <2>3 DEF EngineInv, AnsweredOnce, HeldOnce, NothingYet, GotAwaited
<1>2. CASE Get
  <2>1. UNCHANGED <<worker, holds, unsent, nextBatch, expected>>
    BY <1>2 DEF Get
  <2>2. got' \cup sent' \subseteq got \cup sent
    BY <1>2 DEF Get
  <2>3. engine' \in {"await", "raising"}
    BY <1>2 DEF Get
  <2>4. got' = got \/ \E m \in sent : m.kind = expected /\ got' = got \cup {m}
    BY <1>2 DEF Get
  <2>5. IsFiniteSet(got')
    BY <2>4, FS_AddElement DEF EngineInv, GotAwaited
  <2>. QED
    BY <2>1, <2>2, <2>3, <2>4, <2>5, DrivingKeepsBooks DEF EngineInv, GotAwaited
<1>3. CASE GetTimesOut \/ CheckExits \/ PutStops
  <2>1. UNCHANGED <<worker, holds, unsent, nextBatch, expected, got, sent>>
    BY <1>3 DEF GetTimesOut, CheckExits, PutStops
  <2>2. engine' \in {"joining", "returned"} => expected = "batch" /\ AllIn
    BY <1>3 DEF GetTimesOut, CheckExits, PutStops
  <2>3. GotAwaited'
    BY <2>1, <2>2 DEF EngineInv, GotAwaited, AllIn, Awaited
  <2>. QED
    BY <2>1, <2>3, DrivingKeepsBooks DEF EngineInv
<1>4. CASE QueueBatches
  <2>1. /\ UNCHANGED <<worker, holds, unsent, sent, engine>>
        /\ engine = "await" /\ expected = "ready"
        /\ got' = {} /\ expected' = "batch"
    BY <1>4 DEF QueueBatches
  <2>2. Answers' = {}
    BY <2>1, AnswersAre, AnswersWillBe DEF EngineInv, NothingYet
  <2>3. IsFiniteSet(got')
    BY <2>1, FS_EmptySet
  <2>4. HeldOnce'
    BY <2>1 DEF EngineInv, NothingYet, HeldOnce
  <2>. QED
    BY <2>1, <2>2, <2>3, <2>4 DEF EngineInv, AnsweredOnce, NothingYet, GotAwaited
<1>5. CASE Joined
  <2>1. engine = "joining" /\ UNCHANGED <<expected, got>>
    BY <1>5 DEF Joined
  <2>2. GotAwaited'
    BY <2>1 DEF EngineInv, GotAwaited, AllIn, Awaited
  <2>. QED
    BY <1>5, <2>2, StoppingKeepsBooks DEF Joined, EngineInv
<1>6. CASE Abort
  <2>1. engine' = "raised" /\ UNCHANGED <<expected, got>>
    BY <1>6 DEF Abort
  <2>2. GotAwaited'
    BY <2>1 DEF EngineInv, GotAwaited
  <2>. QED
    BY <1>6, <2>2, StoppingKeepsBooks DEF Abort, EngineInv
<1>. QED
  BY <1>1, <1>2, <1>3, <1>4, <1>5, <1>6 DEF Drives

LEMMA EngineStepInv ==
    ASSUME EngineTyped, EngineStep
    PROVE  EngineTyped'
BY WorkTyped, DriveTyped, WorkInv, DriveInv DEF EngineTyped, EngineStep

LEMMA EngineStarts == EngineInit => EngineTyped
<1> SUFFICES ASSUME EngineInit PROVE EngineTyped
  OBVIOUS
<1>1. EngineTypeOK
  BY EvalConstants, EvalAssumption DEF EngineInit, EngineTypeOK
<1>2. Answers = {}
  BY AnswersAre DEF EngineInit
<1>3. IsFiniteSet(got)
  BY FS_EmptySet DEF EngineInit
<1>4. EngineInv
  BY <1>2, <1>3 DEF EngineInit, EngineInv, AnsweredOnce, HeldOnce, NothingYet, GotAwaited
<1>. QED
  BY <1>1, <1>4 DEF EngineTyped

\* As many different answers as there are batches are an answer to each.
LEMMA ReturnsAll == EngineTyped => ReturnsComplete
<1> SUFFICES ASSUME EngineTyped, engine = "returned" PROVE Complete
  BY DEF ReturnsComplete
<1>. DEFINE f == [m \in got |-> m.batch]
<1>1. IsFiniteSet(got) /\ Cardinality(got) >= NumBatches
  BY DEF EngineTyped, EngineInv, GotAwaited, AllIn, Awaited
<1>2. \A m \in got : m \in Answers
  BY AnswersAre DEF EngineTyped, EngineInv, GotAwaited
<1>3. \A m \in got : m.batch \in Batch
  <2>1. nextBatch \in 1 .. NumBatches + 1
    BY DEF EngineTyped, EngineTypeOK
  <2>2. \A m \in got : m.batch \in 1 .. nextBatch - 1
    BY <1>2 DEF EngineTyped, EngineInv, AnsweredOnce
  <2>. QED
    BY <2>1, <2>2, EvalConstants DEF Batch
<1>4. \A m1, m2 \in got : m1.batch = m2.batch => m1 = m2
  BY <1>2 DEF EngineTyped, EngineInv, AnsweredOnce
<1>5. f \in Injection(got, Batch)
  BY <1>3, <1>4 DEF Injection, IsInjective
<1>6. Cardinality(got) <= Cardinality(Batch)
        /\ (Cardinality(got) = Cardinality(Batch) <=> f \in Surjection(got, Batch))
  BY <1>5, EvalConstants, FS_Injection
<1>7. Cardinality(got) \in Nat
  BY <1>1, FS_CardinalityType
<1>8. f \in Surjection(got, Batch)
  BY <1>1, <1>6, <1>7, EvalConstants
<1>9. \A b \in Batch : \E m \in got : m.batch = b
  BY <1>8 DEF Surjection
<1>. QED
  BY <1>4, <1>9 DEF Complete

-----------------------------------------------------------------------------
(* The run                                                                 *)

MainPc == {"begin", "merge", "merged", "mergeFailed", "evaluating", "write", "done",
           "failed", "killed"}

MainTypeOK ==
    /\ pc \in MainPc
    /\ merged \in SUBSET Model
    /\ resultFile \in SUBSET Model
    /\ pc \in {"merged", "mergeFailed", "evaluating", "write"} => model \in Model

EvalInv == EngineTyped /\ MainTypeOK

\* Steps of the engine leave the main program alone, and the model too.
LEMMA EngineKeepsModel == EngineStep => model' = model
BY DEF EngineStep, StartWorkers, Drives, Works, Get, GetTimesOut, CheckExits, QueueBatches,
       PutStops, Joined, Abort, Load, TakeBatch, TakeNone, Answer, FailBatch, Send, Leave, Die,
       driverVars

LEMMA EngineVarsKeep == EngineTyped /\ UNCHANGED engineVars => EngineTyped'
<1> SUFFICES ASSUME EngineTyped, UNCHANGED engineVars PROVE EngineTyped'
  OBVIOUS
<1>. USE DEF engineVars, driverVars, workerVars, queueVars
<1>1. EngineTypeOK'
  BY DEF EngineTyped, EngineTypeOK
<1>2. EngineInv'
  BY DEF EngineTyped, EngineInv, AnsweredOnce, HeldOnce, NothingYet, GotAwaited, Answers,
         AllIn, Awaited
<1>. QED
  BY <1>1, <1>2 DEF EngineTyped

\* The caller takes the outcome or goes on to the next model: the books of the
\* engine are closed and stay so.
LEMMA CallerKeeps ==
    ASSUME EngineTyped, engine' \in {engine, "off"}, model' \in 1 .. NumModels + 1,
           UNCHANGED <<expected, got, worker, holds, unsent, sent, nextBatch, stops, faults>>
    PROVE  EngineTyped'
<1>1. EngineTypeOK'
  BY DEF EngineTyped, EngineTypeOK
<1>2. Answers' = Answers
  BY DEF Answers
<1>3. EngineInv'
  BY <1>2 DEF EngineTyped, EngineInv, AnsweredOnce, HeldOnce, NothingYet, GotAwaited, AllIn, Awaited
<1>. QED
  BY <1>1, <1>3 DEF EngineTyped

LEMMA InitEvalInv == Init => EvalInv
BY EngineStarts DEF Init, EvalInv, MainTypeOK, MainPc

LEMMA MainKeepsTypes == EvalInv /\ Main => EvalInv'
<1> SUFFICES ASSUME EvalInv, Main PROVE EvalInv'
  OBVIOUS
<1>. USE DEF EvalInv, MainTypeOK, MainPc
<1>m. model \in 1 .. NumModels + 1 /\ NumModels \in Nat
  BY EvalAssumption DEF EngineTyped, EngineTypeOK
<1>1. CASE Begin \/ UseModelDir \/ Merge \/ MergeFails \/ End
  <2>1. UNCHANGED engineVars
    BY <1>1 DEF Begin, UseModelDir, Merge, MergeFails, End
  <2>2. EngineTyped'
    BY <2>1, EngineVarsKeep
  <2>3. model' = model
    BY <2>1 DEF engineVars, driverVars
  <2>. QED
    BY <1>1, <2>2, <2>3 DEF Begin, UseModelDir, Merge, MergeFails, End, ModelsLeft
<1>2. CASE Evaluate
  <2>1. EngineTyped'
    BY <1>2, EngineStepInv DEF Evaluate, EngineStep
  <2>2. model' = model
    BY <1>2, EngineKeepsModel DEF Evaluate, EngineStep
  <2>. QED
    BY <1>2, <2>1, <2>2 DEF Evaluate
<1>3. CASE Finish
  <2>1. EngineTyped'
    BY <1>3, <1>m, CallerKeeps DEF Finish, workerVars, queueVars
  <2>. QED
    BY <1>3, <2>1 DEF Finish, LeaveModel
<1>4. CASE Write
  <2>1. model \in Model
    BY <1>4 DEF Write
  <2>2. model' \in 1 .. NumModels + 1
    BY <1>4, <1>m, <2>1 DEF Write, Model
  <2>3. EngineTyped'
    BY <1>4, <2>2, CallerKeeps DEF Write, workerVars, queueVars
  <2>. QED
    BY <1>4, <2>1, <2>3 DEF Write
<1>. QED
  BY <1>1, <1>2, <1>3, <1>4 DEF Main

LEMMA NextEvalInv == EvalInv /\ [Next]_vars => EvalInv'
<1> SUFFICES ASSUME EvalInv, [Next]_vars PROVE EvalInv'
  OBVIOUS
<1>1. CASE Main
  BY <1>1, MainKeepsTypes
<1>2. CASE Drive \/ \E w \in Worker : WorkerStep(w) \/ WorkerDeath(w)
  <2>1. EngineStep /\ UNCHANGED <<pc, merged, resultFile>>
    BY <1>2 DEF Drive, WorkerStep, WorkerDeath, EngineStep
  <2>2. EngineTyped' /\ model' = model
    BY <2>1, EngineStepInv, EngineKeepsModel DEF EvalInv
  <2>. QED
    BY <2>1, <2>2 DEF EvalInv, MainTypeOK
<1>3. CASE Kill
  <2>1. EngineTyped'
    BY <1>3, EngineVarsKeep DEF Kill, EvalInv
  <2>. QED
    BY <1>3, <2>1 DEF Kill, EvalInv, MainTypeOK, MainPc
<1>4. CASE UNCHANGED vars
  <2>1. EngineTyped'
    BY <1>4, EngineVarsKeep DEF vars, EvalInv
  <2>. QED
    BY <1>4, <2>1 DEF vars, engineVars, driverVars, EvalInv, MainTypeOK
<1>. QED
  BY <1>1, <1>2, <1>3, <1>4 DEF Next, Finished

LEMMA AlwaysEvalInv == Spec => []EvalInv
BY InitEvalInv, NextEvalInv, PTL DEF Spec

\* The state of an evaluation run stays within its types: in particular its loop
\* never goes past the last checkpoint.
THEOREM EvaluationTypeCorrect == Spec => []TypeOK
<1>1. EvalInv => TypeOK
  BY DEF EvalInv, MainTypeOK, MainPc, EngineTyped, TypeOK
<1>. QED
  BY <1>1, AlwaysEvalInv, PTL

\* Whatever number of workers fail or die, and however the messages of the others
\* interleave, an evaluation that returns has one answer to every batch.
THEOREM EvaluationReturnsComplete == Spec => []ReturnsComplete
<1>1. EvalInv => ReturnsComplete
  BY ReturnsAll DEF EvalInv
<1>. QED
  BY <1>1, AlwaysEvalInv, PTL

-----------------------------------------------------------------------------
(* What a checkpoint leaves behind                                         *)

NoneAlive == \A w \in Worker : ~Alive(w)

LeftInv ==
    /\ pc \notin {"evaluating", "killed"} => NoneAlive
    /\ pc = "evaluating" /\ engine \in {"returned", "raised"} => NoneAlive
    /\ pc \in {"begin", "merge", "write", "done", "failed"} => merged = {}
    /\ pc \in {"merged", "mergeFailed", "evaluating"} => merged \subseteq {model}

LEMMA WorkersAreAlive ==
    ASSUME NEW w \in Worker, WorkerStep(w) \/ WorkerDeath(w)
    PROVE  Alive(w) /\ UNCHANGED <<pc, merged, resultFile, engine, model>>
BY DEF WorkerStep, WorkerDeath, Works, Load, TakeBatch, TakeNone, Answer, FailBatch, Send,
       Leave, Die, Alive, driverVars

LEMMA DrivesTerminate ==
    ASSUME Drives, engine' \in {"returned", "raised"}
    PROVE  NoneAlive'
<1>1. worker' = Terminated
  BY DEF Drives, Get, GetTimesOut, CheckExits, QueueBatches, PutStops, Joined, Abort
<1>. QED
  BY <1>1 DEF Terminated, NoneAlive, Alive

LEMMA NextLeftInv == EvalInv /\ LeftInv /\ [Next]_vars => LeftInv'
<1> SUFFICES ASSUME EvalInv, LeftInv, [Next]_vars PROVE LeftInv'
  OBVIOUS
<1>. USE DEF LeftInv
<1>1. CASE Begin \/ UseModelDir \/ Merge \/ MergeFails \/ End \/ Kill
  BY <1>1 DEF Begin, UseModelDir, Merge, MergeFails, End, Kill, engineVars, driverVars, workerVars,
              NoneAlive, Alive
<1>2. CASE Evaluate
  BY <1>2 DEF Evaluate, StartWorkers
<1>3. CASE Finish
  <2>1. NoneAlive' /\ merged' = {} /\ pc' \in {"write", "failed"}
    BY <1>3 DEF Finish, LeaveModel, NoneAlive, Alive, workerVars
  <2>. QED
    BY <2>1
<1>4. CASE Write
  BY <1>4 DEF Write, NoneAlive, Alive, workerVars
<1>5. CASE Drive
  <2>1. pc = "evaluating" /\ Drives /\ UNCHANGED <<pc, merged>>
    BY <1>5 DEF Drive
  <2>2. model' = model
    BY <2>1, EngineKeepsModel DEF EngineStep
  <2>. QED
    BY <2>1, <2>2, DrivesTerminate
<1>6. ASSUME NEW w \in Worker, WorkerStep(w) \/ WorkerDeath(w) PROVE LeftInv'
  <2>1. ~NoneAlive /\ UNCHANGED <<pc, merged, engine, model>>
    BY <1>6, WorkersAreAlive DEF NoneAlive
  <2>. QED
    BY <2>1
<1>7. CASE UNCHANGED vars
  BY <1>7 DEF vars, engineVars, driverVars, workerVars, NoneAlive, Alive
<1>. QED
  BY <1>1, <1>2, <1>3, <1>4, <1>5, <1>6, <1>7 DEF Next, Main, Finished

\* However an evaluation ends short of being killed, its workers are gone and its
\* merged model is removed before the next checkpoint, the result file or the end.
THEOREM EvaluationLeavesNothing == Spec => []NothingLeftBehind
<1>1. Init => LeftInv
  BY DEF Init, EngineInit, LeftInv, NoneAlive, Alive
<1>2. LeftInv => NothingLeftBehind
  BY DEF LeftInv, NothingLeftBehind, NoneAlive
<1>3. Spec => []LeftInv
  BY <1>1, NextLeftInv, AlwaysEvalInv, PTL DEF Spec
<1>. QED
  BY <1>2, <1>3, PTL

-----------------------------------------------------------------------------
(* A calm run                                                              *)

ReadyFrom(w) == [kind |-> "ready", ok |-> TRUE, from |-> w, batch |-> NoBatch]

\* While nothing has failed the workers are where the wait expects them: none is
\* about to leave, and every message is a good one.
CalmWorkers ==
    /\ stops = 0
    /\ \A w \in Worker : worker[w] \notin {"leaving", "exited"}
    /\ \A w \in Worker : \A m \in unsent[w] : m.ok /\ m.from = w
    /\ \A m \in sent : m.ok

\* A worker announces itself once, and its announcement is in one place.
CalmLoading ==
    /\ \A w \in Worker :
          /\ unsent[w] \subseteq {ReadyFrom(w)}
          /\ unsent[w] \cap (got \cup sent) = {}
          /\ worker[w] = "loading" => unsent[w] = {} /\ ReadyFrom(w) \notin got \cup sent
    /\ got \cap sent = {}
    /\ \A m \in got \cup sent : m = ReadyFrom(m.from)

\* Once all have, no announcement is left to come among the answers.
CalmBatches ==
    /\ \A w \in Worker : worker[w] # "loading"
    /\ \A w \in Worker : \A m \in unsent[w] : m.kind = "batch"
    /\ \A m \in sent : m.kind = "batch"

CalmInv ==
    faults = 0 =>
        /\ engine \notin {"raising", "raised"}
        /\ engine \in {"await", "timedOut"} =>
              /\ CalmWorkers
              /\ expected = "ready" => CalmLoading
              /\ expected = "batch" => CalmBatches

LEMMA WorkKeepsCalm ==
    ASSUME EngineTyped, CalmInv, NEW w \in Worker, Works(w) \/ Die(w)
    PROVE  CalmInv'
<1>. USE DEF EngineTyped, EngineTypeOK
<1>1. UNCHANGED driverVars
  BY DEF Works, Load, TakeBatch, TakeNone, Answer, FailBatch, Send, Leave, Die
<1>2. faults' = 0 => faults = 0
  <2>1. faults' = faults \/ faults' = faults + 1
    BY DEF Works, Load, TakeBatch, TakeNone, Answer, FailBatch, Send, Leave, Die
  <2>2. faults \in Nat
    BY EvalAssumption
  <2>. QED
    BY <2>1, <2>2
<1>3. SUFFICES ASSUME faults = 0, faults' = 0, engine \in {"await", "timedOut"}
               PROVE  /\ CalmWorkers'
                      /\ expected = "ready" => CalmLoading'
                      /\ expected = "batch" => CalmBatches'
  BY <1>1, <1>2 DEF CalmInv, driverVars
<1>4. /\ CalmWorkers
      /\ expected = "ready" => CalmLoading
      /\ expected = "batch" => CalmBatches
  BY <1>3 DEF CalmInv
<1>5. CASE Load(w)
  <2>1. /\ worker[w] = "loading" /\ Becomes(w, "idle") /\ Says(w, "ready", TRUE, NoBatch)
        /\ UNCHANGED <<got, sent, stops>>
    <3>1. faults' # faults + 1
      BY <1>3
    <3>. QED
      BY <3>1, <1>5 DEF Load, driverVars, queueVars
  <2>2. \A v \in Worker : worker'[v] = IF v = w THEN "idle" ELSE worker[v]
    BY <2>1 DEF Becomes
  <2>3. \A v \in Worker : unsent'[v] = IF v = w THEN unsent[v] \cup {ReadyFrom(w)} ELSE unsent[v]
    BY <2>1 DEF Says, ReadyFrom
  <2>4. ReadyFrom(w).ok /\ ReadyFrom(w).from = w
    BY DEF ReadyFrom
  <2>5. CalmWorkers'
    <3>1. \A v \in Worker : \A m \in unsent'[v] : m \in unsent[v] \/ (m = ReadyFrom(w) /\ v = w)
      BY <2>3
    <3>2. \A v \in Worker : \A m \in unsent'[v] : m.ok /\ m.from = v
      BY <1>4, <2>4, <3>1 DEF CalmWorkers
    <3>. QED
      BY <1>4, <2>1, <2>2, <3>2 DEF CalmWorkers
  <2>6. expected # "batch"
    BY <1>4, <2>1 DEF CalmBatches
  <2>7. CalmLoading'
    BY <1>4, <2>1, <2>2, <2>3, <2>6 DEF CalmLoading
  <2>. QED
    BY <2>5, <2>6, <2>7
<1>6. CASE TakeBatch(w)
  <2>1. /\ Becomes(w, "busy") /\ nextBatch \in Batch /\ UNCHANGED <<got, unsent, sent, stops>>
    BY <1>6 DEF TakeBatch, driverVars
  <2>2. expected # "ready"
    BY <2>1, EvalConstants DEF EngineInv, NothingYet, Batch
  <2>3. \A v \in Worker : worker'[v] = IF v = w THEN "busy" ELSE worker[v]
    BY <2>1 DEF Becomes
  <2>. QED
    BY <1>4, <2>1, <2>2, <2>3 DEF CalmWorkers, CalmBatches
<1>7. CASE TakeNone(w)
  BY <1>4, <1>7 DEF TakeNone, CalmWorkers
<1>8. CASE Answer(w)
  <2>1. /\ worker[w] = "busy" /\ Becomes(w, "idle") /\ Says(w, "batch", TRUE, holds[w])
        /\ UNCHANGED <<got, sent, stops>>
    BY <1>8 DEF Answer, driverVars, queueVars
  <2>2. expected # "ready"
    BY <2>1 DEF EngineInv, NothingYet, HeldOnce
  <2>3. \A v \in Worker : worker'[v] = IF v = w THEN "idle" ELSE worker[v]
    BY <2>1 DEF Becomes
  <2>4. \A v \in Worker : \A m \in unsent'[v] :
          \/ m \in unsent[v]
          \/ v = w /\ m.ok /\ m.from = w /\ m.kind = "batch"
    BY <2>1 DEF Says
  <2>. QED
    BY <1>4, <2>1, <2>2, <2>3, <2>4 DEF CalmWorkers, CalmBatches
<1>9. CASE FailBatch(w) \/ Die(w)
  BY <1>3, <1>9 DEF FailBatch, Die
<1>10. CASE Send(w)
  <2>1. UNCHANGED <<worker, got, stops>>
    BY <1>10 DEF Send, driverVars
  <2>2. PICK m \in unsent[w] : unsent' = [unsent EXCEPT ![w] = @ \ {m}] /\ sent' = sent \cup {m}
    BY <1>10 DEF Send
  <2>3. \A v \in Worker : unsent'[v] = IF v = w THEN unsent[v] \ {m} ELSE unsent[v]
    BY <2>2
  <2>4. CalmWorkers'
    BY <1>4, <2>1, <2>2, <2>3 DEF CalmWorkers
  <2>5. ASSUME expected = "ready" PROVE CalmLoading'
    <3>1. m = ReadyFrom(w) /\ m.from = w /\ m \notin got \cup sent /\ worker[w] # "loading"
      BY <1>4, <2>2, <2>5 DEF CalmLoading, CalmWorkers
    <3>2. \A v \in Worker : v # w => ReadyFrom(v) # m
      BY <3>1 DEF ReadyFrom
    <3>. QED
      BY <1>4, <2>1, <2>2, <2>3, <2>5, <3>1, <3>2 DEF CalmLoading
  <2>6. ASSUME expected = "batch" PROVE CalmBatches'
    BY <1>4, <2>1, <2>2, <2>3, <2>6 DEF CalmBatches
  <2>. QED
    BY <2>4, <2>5, <2>6
<1>11. CASE Leave(w)
  BY <1>4, <1>11 DEF Leave, CalmWorkers
<1>. QED
  BY <1>5, <1>6, <1>7, <1>8, <1>9, <1>10, <1>11 DEF Works

\* As many announcements as there are workers leave none to come.
LEMMA AllAnnounced ==
    ASSUME EngineTyped, CalmWorkers, CalmLoading, expected = "ready", AllIn
    PROVE  \A w \in Worker : ReadyFrom(w) \in got
<1>. DEFINE f == [m \in got |-> m.from]
<1>1. IsFiniteSet(got) /\ Cardinality(got) >= Cardinality(Worker)
  BY DEF EngineTyped, EngineInv, GotAwaited, AllIn, Awaited
<1>2. \A m \in got : m = ReadyFrom(m.from) /\ m.from \in Worker
  BY DEF CalmLoading, EngineTyped, EngineTypeOK, Message
<1>3. f \in Injection(got, Worker)
  <2>1. f \in [got -> Worker]
    BY <1>2
  <2>2. \A m1, m2 \in got : f[m1] = f[m2] => m1 = m2
    BY <1>2
  <2>. QED
    BY <2>1, <2>2 DEF Injection, IsInjective
<1>4. /\ Cardinality(got) <= Cardinality(Worker)
      /\ Cardinality(got) = Cardinality(Worker) <=> f \in Surjection(got, Worker)
  BY <1>3, EvalAssumption, FS_Injection
<1>5. f \in Surjection(got, Worker)
  BY <1>1, <1>4, FS_CardinalityType, EvalConstants
<1>6. \A w \in Worker : \E m \in got : m.from = w
  BY <1>5 DEF Surjection
<1>. QED
  BY <1>2, <1>6

LEMMA DriveKeepsCalm ==
    ASSUME EngineTyped, CalmInv, StartWorkers \/ Drives
    PROVE  CalmInv'
<1>. USE DEF driverVars, workerVars, queueVars
<1>1. faults' = faults
  BY DEF StartWorkers, Drives, Get, GetTimesOut, CheckExits, QueueBatches, PutStops, Joined, Abort
<1>2. SUFFICES ASSUME faults = 0
               PROVE  /\ engine' \notin {"raising", "raised"}
                      /\ engine' \in {"await", "timedOut"} =>
                            /\ CalmWorkers'
                            /\ expected' = "ready" => CalmLoading'
                            /\ expected' = "batch" => CalmBatches'
  BY <1>1 DEF CalmInv
<1>3. /\ engine \notin {"raising", "raised"}
      /\ engine \in {"await", "timedOut"} =>
            /\ CalmWorkers
            /\ expected = "ready" => CalmLoading
            /\ expected = "batch" => CalmBatches
  BY <1>2 DEF CalmInv
<1>4. CASE StartWorkers
  <2>1. /\ got' = {} /\ sent' = {} /\ expected' = "ready" /\ engine' = "await" /\ stops' = 0
        /\ \A w \in Worker : unsent'[w] = {} /\ worker'[w] = "loading"
    BY <1>4 DEF StartWorkers
  <2>. QED
    BY <2>1 DEF CalmWorkers, CalmLoading
<1>5. CASE Get
  <2>1. /\ engine = "await" /\ UNCHANGED <<expected, worker, unsent, stops>>
    BY <1>5 DEF Get
  <2>2. PICK m \in sent :
          /\ sent' = sent \ {m}
          /\ IF m.kind = expected /\ m.ok
                THEN got' = got \cup {m} /\ UNCHANGED engine
                ELSE engine' = "raising" /\ UNCHANGED got
    BY <1>5 DEF Get
  <2>3. m.kind = expected /\ m.ok
    <3>1. m.ok
      BY <1>3, <2>1 DEF CalmWorkers
    <3>2. expected = "ready" => m.kind = "ready"
      BY <1>3, <2>1 DEF CalmLoading, ReadyFrom
    <3>3. expected = "batch" => m.kind = "batch"
      BY <1>3, <2>1 DEF CalmBatches
    <3>. QED
      BY <3>1, <3>2, <3>3 DEF EngineTyped, EngineTypeOK
  <2>4. got' = got \cup {m} /\ engine' = "await"
    BY <2>1, <2>2, <2>3
  <2>5. CalmWorkers'
    BY <1>3, <2>1, <2>2 DEF CalmWorkers
  <2>6. expected = "ready" => CalmLoading'
    BY <1>3, <2>1, <2>2, <2>4 DEF CalmLoading
  <2>7. expected = "batch" => CalmBatches'
    BY <1>3, <2>1, <2>2 DEF CalmBatches
  <2>. QED
    BY <2>1, <2>4, <2>5, <2>6, <2>7
<1>6. CASE GetTimesOut \/ CheckExits
  <2>1. UNCHANGED <<expected, got, worker, unsent, sent, stops>> /\ engine \in {"await", "timedOut"}
    BY <1>6 DEF GetTimesOut, CheckExits
  <2>2. ~SomeExited
    BY <1>3, <2>1 DEF CalmWorkers, SomeExited
  <2>3. engine' \in {"await", "timedOut"}
    BY <1>6, <2>2 DEF GetTimesOut, CheckExits
  <2>. QED
    BY <1>3, <2>1, <2>3 DEF CalmWorkers, CalmLoading, CalmBatches
<1>7. CASE QueueBatches
  <2>1. /\ engine = "await" /\ engine' = "await" /\ expected = "ready" /\ expected' = "batch"
        /\ AllIn /\ stops' = 0 /\ got' = {} /\ UNCHANGED <<worker, unsent, sent>>
    BY <1>7 DEF QueueBatches, StopsWithBatches
  <2>2. CalmWorkers /\ CalmLoading
    BY <1>3, <2>1
  <2>3. \A w \in Worker : ReadyFrom(w) \in got
    BY <2>1, <2>2, AllAnnounced
  <2>4. \A w \in Worker : unsent[w] = {} /\ worker[w] # "loading"
    BY <2>2, <2>3 DEF CalmLoading
  <2>5. sent = {}
    <3>1. \A m \in sent : m.from \in Worker
      BY DEF EngineTyped, EngineTypeOK, Message
    <3>. QED
      BY <2>2, <2>3, <3>1 DEF CalmLoading
  <2>. QED
    BY <2>1, <2>2, <2>4, <2>5 DEF CalmWorkers, CalmBatches
<1>8. CASE PutStops \/ Joined
  BY <1>8 DEF PutStops, Joined
<1>9. CASE Abort
  BY <1>3, <1>9 DEF Abort
<1>. QED
  BY <1>4, <1>5, <1>6, <1>7, <1>8, <1>9 DEF Drives

LEMMA NextCalmInv == EvalInv /\ CalmInv /\ [Next]_vars => CalmInv'
<1> SUFFICES ASSUME EvalInv, CalmInv, [Next]_vars PROVE CalmInv'
  OBVIOUS
<1>1. CASE UNCHANGED engineVars
  BY <1>1 DEF CalmInv, CalmWorkers, CalmLoading, CalmBatches, engineVars, driverVars, workerVars,
              queueVars
<1>2. CASE Evaluate \/ Drive \/ \E w \in Worker : WorkerStep(w) \/ WorkerDeath(w)
  BY <1>2, WorkKeepsCalm, DriveKeepsCalm DEF EvalInv, Evaluate, Drive, WorkerStep, WorkerDeath
<1>3. CASE Finish
  BY <1>3 DEF Finish, CalmInv
<1>4. CASE Write
  BY <1>4 DEF Write, workerVars, queueVars, CalmInv, CalmWorkers, CalmLoading, CalmBatches
<1>. QED
  BY <1>1, <1>2, <1>3, <1>4 DEF Next, Main, Finished, Kill, Begin, UseModelDir, Merge, MergeFails,
                                End, vars

\* An evaluation is given up only when some worker failed or died: no message of
\* an earlier stage is left to be taken for one of the wrong kind, and no worker
\* that was told to leave is met by the wait that looks at the processes.
THEOREM EvaluationGivenUpOnlyOnFault == Spec => []NoFalseAlarm
<1>1. Init => CalmInv
  BY DEF Init, EngineInit, CalmInv
<1>2. EvalInv /\ CalmInv => NoFalseAlarm
  BY EvalAssumption DEF EvalInv, EngineTyped, EngineTypeOK, CalmInv, NoFalseAlarm
<1>3. Spec => []CalmInv
  BY <1>1, NextCalmInv, AlwaysEvalInv, PTL DEF Spec
<1>. QED
  BY <1>2, <1>3, AlwaysEvalInv, PTL

-----------------------------------------------------------------------------
(***************************************************************************)
(* Complete models.  MainInv is inductive.  It says where main stands      *)
(* between the file it writes first and the one it writes next; of the     *)
(* engine it needs only that model is main's to count.                     *)
(***************************************************************************)
Status == {"pending", "running", "completed", "failed"}
Working == {"loop", "evaluate", "evaluating", "write", "status", "except"}

ModelsTypeOK ==
    /\ main \in Working \cup {"start", "first", "done", "failed", "refused", "killed"}
    /\ attempt \in Nat \ {0}
    /\ model \in 1 .. NumModels + 1
    /\ summary.models \in [Model -> Status]
    /\ onDisk.models \in [Model -> Status]
    /\ results \in [Model -> Nat]

\* Where the directory is new: at MakeDir, and before the first summary.
FirstIsEmpty ==
    /\ main = "start" => model = 1
    /\ main = "first" =>
          /\ model = 1 /\ DirIsEmpty
          /\ summary = [NoFile EXCEPT !.attempt = attempt, !.status = "running"]

\* The summary in memory is the one on disk; the models before this one are
\* completed, those after it have not begun.
MovesInOrder ==
    main \in Working =>
        /\ onDisk = summary
        /\ summary.attempt = attempt /\ summary.status = "running"
        /\ main # "loop" => model \in Model
        /\ \A x \in Model :
              /\ x < model => summary.models[x] = "completed" /\ results[x] = attempt
              /\ x > model \/ (x = model /\ main = "loop")
                    => summary.models[x] = "pending" /\ results[x] = NoResult
              /\ x = model /\ main # "loop"
                    => /\ summary.models[x] = "running"
                       /\ results[x] = IF main = "status" THEN attempt ELSE NoResult

MainInv == ModelsTypeOK /\ FirstIsEmpty /\ MovesInOrder /\ SummaryIsHonest /\ OneAttempt

-----------------------------------------------------------------------------
LEMMA EmptyFile ==
    /\ NoFile.models \in [Model -> Status]
    /\ \A x \in Model : NoFile.models[x] = "pending"
    /\ NoFile.status = "none" /\ NoFile.attempt = 0
BY DEF NoFile, Status

LEMMA InitMain == ModelsInit => MainInv
<1> SUFFICES ASSUME ModelsInit PROVE MainInv
  OBVIOUS
<1>1. /\ main = "start" /\ attempt = 1 /\ model = 1 /\ summary = NoFile /\ onDisk = NoFile
      /\ results = [x \in Model |-> NoResult]
  BY DEF ModelsInit, EngineInit
<1>2. ModelsTypeOK
  BY <1>1, EmptyFile, EvalAssumption DEF ModelsTypeOK, NoResult
<1>3. FirstIsEmpty /\ MovesInOrder
  BY <1>1 DEF FirstIsEmpty, MovesInOrder, Working
<1>4. SummaryIsHonest /\ OneAttempt
  BY <1>1, EmptyFile DEF SummaryIsHonest, OneAttempt
<1> QED BY <1>2, <1>3, <1>4 DEF MainInv

\* A step that leaves the files, the summary and the count as they are.
LEMMA QuietKeepsMain ==
    ASSUME MainInv, UNCHANGED <<attempt, summary, onDisk, results, model>>,
           \/ main' = main
           \/ main' \in {"refused", "killed"}
           \/ main = "evaluate" /\ main' = "evaluating"
           \/ main = "evaluating" /\ main' \in {"write", "except"}
    PROVE  MainInv'
<1>1. ModelsTypeOK'
  BY DEF MainInv, ModelsTypeOK, Working
<1>2. FirstIsEmpty'
  BY DEF MainInv, FirstIsEmpty, DirIsEmpty
<1>3. main' \in Working =>
          /\ main \in Working
          /\ main' = "loop" <=> main = "loop"
          /\ main' = "status" <=> main = "status"
  BY DEF Working
<1>4. MovesInOrder'
  BY <1>3 DEF MainInv, MovesInOrder
<1>5. SummaryIsHonest' /\ OneAttempt'
  BY DEF MainInv, SummaryIsHonest, OneAttempt
<1> QED BY <1>1, <1>2, <1>4, <1>5 DEF MainInv

LEMMA StartsKeepMain == MainInv /\ (MakeDir \/ FirstSummary \/ StartAgain) => MainInv'
<1> SUFFICES ASSUME MainInv, MakeDir \/ FirstSummary \/ StartAgain PROVE MainInv'
  OBVIOUS
<1>1. CASE MakeDir
  <2>1. /\ main = "start" /\ main' = "first" /\ DirIsEmpty
        /\ summary' = [NoFile EXCEPT !.attempt = attempt, !.status = "running"]
        /\ UNCHANGED <<attempt, onDisk, results, model>>
    BY <1>1 DEF MakeDir, engineVars, driverVars
  <2>2. summary'.models = NoFile.models
    BY <2>1 DEF NoFile
  <2>3. ModelsTypeOK'
    BY <2>1, <2>2, EmptyFile DEF MainInv, ModelsTypeOK
  <2>4. FirstIsEmpty' /\ MovesInOrder'
    BY <2>1 DEF MainInv, FirstIsEmpty, MovesInOrder, DirIsEmpty, Working
  <2>5. SummaryIsHonest' /\ OneAttempt'
    BY <2>1 DEF MainInv, SummaryIsHonest, OneAttempt
  <2> QED BY <2>3, <2>4, <2>5 DEF MainInv
<1>2. CASE FirstSummary
  <2>1. /\ main = "first" /\ main' = "loop" /\ onDisk' = summary
        /\ UNCHANGED <<attempt, summary, results, model>>
    BY <1>2 DEF FirstSummary, Store, engineVars, driverVars
  <2>2. /\ model = 1 /\ \A x \in Model : results[x] = NoResult
        /\ summary = [NoFile EXCEPT !.attempt = attempt, !.status = "running"]
    BY <2>1 DEF MainInv, FirstIsEmpty, DirIsEmpty
  <2>3. /\ summary.models = NoFile.models
        /\ summary.attempt = attempt /\ summary.status = "running"
    BY <2>2 DEF NoFile
  <2>4. \A x \in Model : summary.models[x] = "pending"
    BY <2>3, EmptyFile
  <2>5. ModelsTypeOK'
    BY <2>1 DEF MainInv, ModelsTypeOK, Working
  <2>6. FirstIsEmpty'
    BY <2>1 DEF FirstIsEmpty
  <2>7. MovesInOrder'
    BY <2>1, <2>2, <2>3, <2>4 DEF MovesInOrder, Model
  <2>8. SummaryIsHonest' /\ OneAttempt'
    BY <2>1, <2>2, <2>3, <2>4 DEF SummaryIsHonest, OneAttempt
  <2> QED BY <2>5, <2>6, <2>7, <2>8 DEF MainInv
<1>3. CASE StartAgain
  <2>1. /\ attempt' = attempt + 1 /\ main' = "start" /\ summary' = NoFile /\ model' = 1
        /\ UNCHANGED <<onDisk, results>>
    BY <1>3 DEF StartAgain
  <2>2. ModelsTypeOK'
    BY <2>1, EmptyFile, EvalAssumption DEF MainInv, ModelsTypeOK
  <2>3. FirstIsEmpty' /\ MovesInOrder'
    BY <2>1 DEF FirstIsEmpty, MovesInOrder, Working
  <2>4. SummaryIsHonest' /\ OneAttempt'
    BY <2>1 DEF MainInv, SummaryIsHonest, OneAttempt
  <2> QED BY <2>2, <2>3, <2>4 DEF MainInv
<1> QED BY <1>1, <1>2, <1>3

\* A status stored for the model in turn.
LEMMA StoredStatus ==
    ASSUME ModelsTypeOK, NEW s \in Status, model \in Model
    PROVE  LET new == StatusOf(model, s) IN
           /\ new.attempt = summary.attempt /\ new.status = summary.status
           /\ new.models \in [Model -> Status]
           /\ \A x \in Model : new.models[x] = IF x = model THEN s ELSE summary.models[x]
BY DEF ModelsTypeOK, StatusOf

LEMMA ModelsKeepMain ==
    MainInv /\ (NextModel \/ WriteResult \/ Completed \/ Failed \/ AllCompleted) => MainInv'
<1> SUFFICES ASSUME MainInv, NextModel \/ WriteResult \/ Completed \/ Failed \/ AllCompleted
             PROVE  MainInv'
  OBVIOUS
<1>1. /\ ModelsTypeOK /\ Model \subseteq Nat /\ main \in Working
      /\ UNCHANGED attempt
  BY DEF MainInv, Working, NextModel, WriteResult, Completed, Failed, AllCompleted, Model
<1>2. /\ onDisk = summary /\ summary.attempt = attempt /\ summary.status = "running"
      /\ main # "loop" => model \in Model
  BY <1>1 DEF MainInv, MovesInOrder
<1>3. FirstIsEmpty'
  BY DEF FirstIsEmpty, NextModel, WriteResult, Completed, Failed, AllCompleted, Store
<1>4. CASE NextModel
  <2>1. /\ main = "loop" /\ main' = "evaluate" /\ model \in Model /\ onDisk' = summary'
        /\ summary' = StatusOf(model, "running") /\ UNCHANGED <<results, model>>
    BY <1>4 DEF NextModel, ModelsLeft, Store, engineVars, driverVars
  <2>2. /\ summary'.attempt = attempt /\ summary'.status = "running"
        /\ summary'.models \in [Model -> Status]
        /\ \A x \in Model :
              summary'.models[x] = IF x = model THEN "running" ELSE summary.models[x]
    BY <1>1, <1>2, <2>1, StoredStatus DEF Status
  <2>3. ModelsTypeOK'
    BY <1>1, <2>1, <2>2 DEF ModelsTypeOK, Working
  <2>4. MovesInOrder'
    BY <1>1, <2>1, <2>2 DEF MainInv, MovesInOrder
  <2>5. \A x \in Model : results[x] # NoResult => x # model
    BY <1>1, <2>1 DEF MainInv, MovesInOrder
  <2>6. SummaryIsHonest' /\ OneAttempt'
    BY <1>2, <2>1, <2>2, <2>5 DEF MainInv, SummaryIsHonest, OneAttempt
  <2> QED BY <1>3, <2>3, <2>4, <2>6 DEF MainInv
<1>5. CASE WriteResult
  <2>1. /\ main = "write" /\ main' = "status" /\ results' = [results EXCEPT ![model] = attempt]
        /\ UNCHANGED <<summary, onDisk, model>>
    BY <1>5 DEF WriteResult, engineVars, driverVars
  <2>2. \A x \in Model : results'[x] = IF x = model THEN attempt ELSE results[x]
    BY <1>1, <2>1 DEF ModelsTypeOK
  <2>3. ModelsTypeOK'
    BY <1>1, <2>1 DEF ModelsTypeOK, Working
  <2>4. MovesInOrder'
    BY <1>1, <2>1, <2>2 DEF MainInv, MovesInOrder, ModelsTypeOK
  <2>5. onDisk.models[model] = "running" /\ onDisk.attempt = attempt /\ attempt # NoResult
    BY <1>1, <1>2, <2>1 DEF MainInv, MovesInOrder, ModelsTypeOK, NoResult
  <2>6. SummaryIsHonest' /\ OneAttempt'
    BY <2>1, <2>2, <2>5 DEF MainInv, SummaryIsHonest, OneAttempt
  <2> QED BY <1>3, <2>3, <2>4, <2>6 DEF MainInv
<1>6. CASE Completed
  <2>1. /\ main = "status" /\ main' = "loop" /\ model \in Model /\ onDisk' = summary'
        /\ summary' = StatusOf(model, "completed") /\ results' = results /\ model' = model + 1
    BY <1>2, <1>6 DEF Completed, Store
  <2>2. /\ summary'.attempt = attempt /\ summary'.status = "running"
        /\ summary'.models \in [Model -> Status]
        /\ \A x \in Model :
              summary'.models[x] = IF x = model THEN "completed" ELSE summary.models[x]
    BY <1>1, <1>2, <2>1, StoredStatus DEF Status
  <2>3. results[model] = attempt /\ attempt # NoResult
    BY <1>1, <2>1 DEF MainInv, MovesInOrder, ModelsTypeOK, NoResult
  <2>4. ModelsTypeOK'
    BY <1>1, <2>1, <2>2, EvalAssumption DEF ModelsTypeOK, Working, Model
  <2>5. \A x \in Model : (x < model' <=> x < model \/ x = model)
                         /\ (x > model' \/ x = model' <=> x > model)
    BY <1>1, <2>1 DEF Model
  <2>6. MovesInOrder'
    <3>1. \A x \in Model : x < model' =>
              summary'.models[x] = "completed" /\ results'[x] = attempt
      BY <1>1, <2>1, <2>2, <2>3, <2>5 DEF MainInv, MovesInOrder
    <3>2. \A x \in Model : x > model' \/ x = model' =>
              summary'.models[x] = "pending" /\ results'[x] = NoResult
      BY <1>1, <2>1, <2>2, <2>5 DEF MainInv, MovesInOrder
    <3> QED BY <1>1, <2>1, <2>2, <3>1, <3>2 DEF MovesInOrder
  <2>7. SummaryIsHonest' /\ OneAttempt'
    BY <1>2, <2>1, <2>2, <2>3 DEF MainInv, SummaryIsHonest, OneAttempt
  <2> QED BY <1>3, <2>4, <2>6, <2>7 DEF MainInv
<1>7. CASE Failed
  <2>1. /\ main = "except" /\ main' = "failed" /\ model \in Model /\ onDisk' = summary'
        /\ summary' = [StatusOf(model, "failed") EXCEPT !.status = "failed"]
        /\ UNCHANGED <<results, model>>
    BY <1>2, <1>7 DEF Failed, Store, engineVars, driverVars
  <2>2. /\ summary'.attempt = attempt /\ summary'.status = "failed"
        /\ summary'.models = StatusOf(model, "failed").models
    BY <1>2, <2>1 DEF StatusOf
  <2>3. /\ summary'.models \in [Model -> Status]
        /\ \A x \in Model :
              summary'.models[x] = IF x = model THEN "failed" ELSE summary.models[x]
    BY <1>1, <2>1, <2>2, StoredStatus DEF Status
  <2>4. ModelsTypeOK'
    BY <1>1, <2>1, <2>3 DEF ModelsTypeOK, Working
  <2>5. MovesInOrder'
    BY <2>1 DEF MovesInOrder, Working
  <2>6. results[model] = NoResult
    BY <1>1, <2>1 DEF MainInv, MovesInOrder
  <2>7. SummaryIsHonest' /\ OneAttempt'
    BY <1>2, <2>1, <2>2, <2>3, <2>6 DEF MainInv, SummaryIsHonest, OneAttempt
  <2> QED BY <1>3, <2>4, <2>5, <2>7 DEF MainInv
<1>8. CASE AllCompleted
  <2>1. /\ main = "loop" /\ main' = "done" /\ model \notin Model /\ onDisk' = summary'
        /\ summary' = [summary EXCEPT !.status = "completed"]
        /\ UNCHANGED <<results, model>>
    BY <1>8 DEF AllCompleted, ModelsLeft, Store, engineVars, driverVars
  <2>2. \A x \in Model : x < model
    BY <1>1, <2>1, EvalAssumption DEF ModelsTypeOK, Model
  <2>3. \A x \in Model : summary.models[x] = "completed" /\ results[x] = attempt
    BY <1>1, <2>2 DEF MainInv, MovesInOrder
  <2>4. summary'.models = summary.models /\ summary'.attempt = summary.attempt
        /\ summary'.status = "completed"
    BY <1>2, <2>1 DEF MainInv, MovesInOrder
  <2>5. ModelsTypeOK'
    BY <1>1, <2>1, <2>4 DEF ModelsTypeOK
  <2>6. MovesInOrder'
    BY <2>1 DEF MovesInOrder, Working
  <2>7. attempt # NoResult
    BY <1>1 DEF ModelsTypeOK, NoResult
  <2>8. SummaryIsHonest' /\ OneAttempt'
    BY <1>1, <1>2, <2>1, <2>3, <2>4, <2>7 DEF SummaryIsHonest, OneAttempt
  <2> QED BY <1>3, <2>5, <2>6, <2>8 DEF MainInv
<1> QED BY <1>4, <1>5, <1>6, <1>7, <1>8

-----------------------------------------------------------------------------
LEMMA NextMain == MainInv /\ [ModelsNext]_modelsVars => MainInv'
<1> SUFFICES ASSUME MainInv, [ModelsNext]_modelsVars PROVE MainInv'
  OBVIOUS
<1>1. CASE MakeDir \/ FirstSummary \/ StartAgain
  BY <1>1, StartsKeepMain
<1>2. CASE NextModel \/ WriteResult \/ Completed \/ Failed \/ AllCompleted
  BY <1>2, ModelsKeepMain
<1>3. CASE Refuse \/ ModelsKill \/ ModelsFinished \/ UNCHANGED modelsVars
  BY <1>3, QuietKeepsMain DEF Refuse, ModelsKill, ModelsFinished, modelsVars, engineVars, driverVars
<1>4. CASE EvaluateModel \/ FinishModel
  BY <1>4, QuietKeepsMain DEF EvaluateModel, StartWorkers, FinishModel
<1>5. CASE ModelsDrive
  BY <1>5, QuietKeepsMain DEF ModelsDrive, Drives, Get, GetTimesOut, CheckExits, QueueBatches,
     PutStops, Joined, Abort, mainVars
<1>6. ASSUME NEW w \in Worker, ModelsWorkerStep(w) \/ ModelsWorkerDeath(w) PROVE MainInv'
  BY <1>6, QuietKeepsMain DEF ModelsWorkerStep, ModelsWorkerDeath, Works, Load, TakeBatch, TakeNone, Answer,
     FailBatch, Send, Leave, Die, mainVars, driverVars
<1> QED BY <1>1, <1>2, <1>3, <1>4, <1>5, <1>6 DEF ModelsNext, ModelsMain

LEMMA MainInvariant == ModelsSpec => []MainInv
BY InitMain, NextMain, PTL DEF ModelsSpec

\* Whenever main is killed and whatever fails, the models that summary.json calls
\* completed have their results on disk, results on disk are of models it calls running
\* or completed, and a completed run has completed every model.
THEOREM SummaryAlwaysHonest == ModelsSpec => []SummaryIsHonest
BY MainInvariant, PTL DEF MainInv

\* However often a run_name is started again, the summary and all results beside it are
\* of one attempt: results from different attempts are never mixed.
THEOREM AlwaysOneAttempt == ModelsSpec => []OneAttempt
BY MainInvariant, PTL DEF MainInv

=============================================================================
