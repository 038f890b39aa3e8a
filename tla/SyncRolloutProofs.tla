-------------------------- MODULE SyncRolloutProofs --------------------------
(***************************************************************************)
(* Machine-checked proofs about SyncRollout, for every value of its        *)
(* constants.  CompletenessInv: every batch sample() returns holds all     *)
(* outputs of its finished prompts.  LeakInv, on top of it: what stays in  *)
(* the queue is held by someone who will clear it.  HeldInv, on top of     *)
(* both: with one batch a validation, a batch holds outputs of its own     *)
(* prompts, stored and not used before, so the pipeline implements         *)
(* StepLedger.  One lemma for the actions of each actor.                   *)
(***************************************************************************)
EXTENDS SyncRollout, TLAPS

-----------------------------------------------------------------------------
(* Types                                                                   *)

LEMMA KeyShape ==
    /\ \A u \in Uid, i \in Slot :
          <<u, i>> \in Key /\ <<u, i>>[1] = u /\ <<u, i>>[2] = i
    /\ \A k \in Key : k[1] \in Uid /\ k[2] \in Slot /\ k = <<k[1], k[2]>>
    /\ Session \subseteq Slot
    /\ MarkerSlot \in Slot
    /\ MarkerSlot \notin Session
BY RolloutAssumption DEF Key, Slot, Session, MarkerSlot, Uid

LEMMA TagShape ==
    /\ Absent \in Tag
    /\ \A t1, t2 \in Tag : Updated(t1, t2) \in Tag
    /\ \A g \in Step : StepTag(g, "running") \in Tag /\ StepTag(g, "success") \in Tag
    /\ MarkerTag("finished") \in Tag /\ MarkerTag("failure") \in Tag
BY DEF Tag, Absent, Updated, StepTag, MarkerTag

-----------------------------------------------------------------------------
(* Type correctness                                                        *)

LEMMA InitTypeOK == Init => TypeOK
<1> SUFFICES ASSUME Init PROVE TypeOK
  OBVIOUS
<1>1. prompt \in [Uid -> [part : Partition, step : Step, status : PromptStatus]]
  BY RolloutAssumption DEF Init, FreshPrompt, Partition, Step, PromptStatus
<1>2. session \in [Uid -> [Session -> SessionStatus]]
  BY DEF Init, SessionStatus
<1>3. tq \in [Key -> Tag] /\ rb \in [Key -> Tag] /\ snapshot \in [Key -> Tag]
  BY TagShape DEF Init
<1>4. batch \in [Partition -> SUBSET Key] /\ used \in [Key -> Nat]
  BY DEF Init
<1>5. globalSteps \in Step /\ valLeft \in 0 .. ValBatches /\ nextUid \in 1 .. MaxUid + 1
  BY RolloutAssumption DEF Init, Step
<1>6. /\ pc \in DriverPc /\ part \in Partition /\ curUids \in SUBSET Uid
      /\ awake \in BOOLEAN /\ failed \in BOOLEAN /\ tqOpen \in BOOLEAN
      /\ stopSet \in BOOLEAN /\ toAdd \in SUBSET Partition
      /\ poller \in {"idle", "listing", "adding", "stopped", "exited"}
  BY DEF Init, DriverPc, Partition
<1> QED BY <1>1, <1>2, <1>3, <1>4, <1>5, <1>6 DEF TypeOK

LEMMA DriverTypeOK == TypeOK /\ Driver => TypeOK'
<1> SUFFICES ASSUME TypeOK, Driver PROVE TypeOK'
  OBVIOUS
<1> USE RolloutAssumption DEF TypeOK, DriverPc, Step, Partition, driverVars, workerVars,
        pollVars, PromptStatus
<1>1. CASE BeginFit
  BY <1>1 DEF BeginFit
<1>2. CASE MarkPending
  <2> DEFINE uids == nextUid .. nextUid + PromptsPerBatch - 1
  <2>1. uids \subseteq Uid
    BY <1>2 DEF MarkPending
  <2>2. nextUid + PromptsPerBatch \in 1 .. MaxUid + 1
    <3>1. nextUid \in Nat /\ nextUid >= 1
      OBVIOUS
    <3>2. nextUid + PromptsPerBatch - 1 \in uids
      BY <3>1
    <3>3. nextUid + PromptsPerBatch - 1 \in Uid
      BY <2>1, <3>2
    <3> QED BY <3>1, <3>3 DEF Uid
  <2>3. prompt' \in [Uid -> [part : Partition, step : Step, status : PromptStatus]]
    BY <1>2 DEF MarkPending
  <2>4. rb' \in [Key -> Tag]
    BY <1>2, TagShape DEF MarkPending
  <2> QED BY <1>2, <2>1, <2>2, <2>3, <2>4 DEF MarkPending
<1>3. CASE AwaitDispatch
  BY <1>3 DEF AwaitDispatch
<1>4. CASE SampleBatch
  BY <1>4 DEF SampleBatch
<1>5. CASE SleepReplicas
  BY <1>5 DEF SleepReplicas
<1>6. CASE BalanceBatch
  <2> DEFINE pads == {<<nextUid, i>> : i \in 1 .. PadCount(batch["train"])}
  <2>1. tq' \in [Key -> Tag]
    BY <1>6, TagShape DEF BalanceBatch, Overwrite, PutPadding
  <2>2. batch' \in [Partition -> SUBSET Key]
    BY <1>6 DEF BalanceBatch
  <2>3. /\ nextUid' \in 1 .. MaxUid + 1
        /\ prompt' \in [Uid -> [part : Partition, step : Step, status : PromptStatus]]
    <3>1. CASE pads = {}
      BY <1>6, <3>1 DEF BalanceBatch
    <3>2. CASE pads # {}
      <4>1. PICK k \in pads : k \in Key
        BY <1>6, <3>2 DEF BalanceBatch
      <4>2. nextUid \in Uid
        BY <4>1 DEF Key
      <4>3. nextUid + 1 \in 1 .. MaxUid + 1
        BY <4>2 DEF Uid
      <4>4. nextUid' = nextUid + 1
            /\ prompt' = [prompt EXCEPT ![nextUid] =
                 [part |-> "train", step |-> globalSteps, status |-> "padding"]]
        BY <1>6, <3>2 DEF BalanceBatch
      <4> QED BY <4>2, <4>3, <4>4
    <3> QED BY <3>1, <3>2
  <2> QED BY <1>6, <2>1, <2>2, <2>3 DEF BalanceBatch
<1>7. CASE BalanceNothing
  BY <1>7 DEF BalanceNothing
<1>8. CASE UpdateActor
  BY <1>8 DEF UpdateActor
<1>9. CASE UpdateWeights
  BY <1>9 DEF UpdateWeights
<1>10. CASE FetchScores
  BY <1>10 DEF FetchScores
<1>11. CASE FetchNothing
  BY <1>11 DEF FetchNothing
<1>12. CASE ClearStored
  BY <1>12, TagShape DEF ClearStored, Overwrite
<1>13. CASE RemoveBuffered
  <2>1. rb' \in [Key -> Tag]
    BY <1>13, TagShape DEF RemoveBuffered, Overwrite
  <2>2. batch' \in [Partition -> SUBSET Key]
    BY <1>13 DEF RemoveBuffered
  <2>3. /\ pc' \in DriverPc
        /\ globalSteps' \in Step
        /\ part' \in Partition
        /\ valLeft' \in 0 .. ValBatches
    BY <1>13 DEF RemoveBuffered, IsLastStep
  <2> QED BY <1>13, <2>1, <2>2, <2>3 DEF RemoveBuffered
<1>14. CASE StopPolling
  BY <1>14 DEF StopPolling
<1>15. CASE CloseQueue
  BY <1>15 DEF CloseQueue
<1> QED
  BY <1>1, <1>2, <1>3, <1>4, <1>5, <1>6, <1>7, <1>8, <1>9, <1>10, <1>11, <1>12, <1>13,
     <1>14, <1>15 DEF Driver

LEMMA WorkerTypeOK == TypeOK /\ Worker => TypeOK'
<1> SUFFICES ASSUME TypeOK, NEW u \in Uid,
                    \/ StartPrompt(u) \/ FinishPrompt(u) \/ FailPrompt(u)
                    \/ \E s \in Session : Generate(u, s) \/ PutOutputs(u, s)
                                          \/ PutNothing(u, s) \/ FailSession(u, s)
             PROVE  TypeOK'
  BY DEF Worker
<1> USE DEF TypeOK, driverVars, workerVars, pollVars, PromptStatus, SessionStatus
<1>1. CASE StartPrompt(u)
  BY <1>1 DEF StartPrompt
<1>2. CASE FinishPrompt(u)
  <2>1. tq' \in [Key -> Tag]
    BY <1>2, TagShape, KeyShape DEF FinishPrompt, Marker
  <2>2. prompt' \in [Uid -> [part : Partition, step : Step, status : PromptStatus]]
    BY <1>2 DEF FinishPrompt
  <2> QED BY <1>2, <2>1, <2>2 DEF FinishPrompt
<1>3. CASE FailPrompt(u)
  <2>1. tq' \in [Key -> Tag]
    BY <1>3, TagShape, KeyShape DEF FailPrompt, Marker
  <2>2. prompt' \in [Uid -> [part : Partition, step : Step, status : PromptStatus]]
    BY <1>3 DEF FailPrompt
  <2> QED BY <1>3, <2>1, <2>2 DEF FailPrompt
<1>4. ASSUME NEW s \in Session,
             Generate(u, s) \/ PutOutputs(u, s) \/ PutNothing(u, s) \/ FailSession(u, s)
      PROVE  TypeOK'
  <2>1. CASE Generate(u, s)
    BY <2>1 DEF Generate
  <2>2. CASE PutOutputs(u, s)
    BY <2>2, TagShape, KeyShape DEF PutOutputs
  <2>3. CASE PutNothing(u, s)
    BY <2>3 DEF PutNothing
  <2>4. CASE FailSession(u, s)
    BY <2>4 DEF FailSession
  <2> QED BY <1>4, <2>1, <2>2, <2>3, <2>4
<1> QED BY <1>1, <1>2, <1>3, <1>4

LEMMA PollerTypeOK == TypeOK /\ Poller => TypeOK'
<1> SUFFICES ASSUME TypeOK, Poller PROVE TypeOK'
  OBVIOUS
<1> USE DEF TypeOK, driverVars, workerVars, pollVars
<1>1. CASE PollCheck
  BY <1>1 DEF PollCheck
<1>2. CASE PollList
  BY <1>2 DEF PollList
<1>3. ASSUME NEW p \in Partition, PollAdd(p) PROVE TypeOK'
  <2>1. rb' \in [Key -> Tag]
    BY <1>3, TagShape DEF PollAdd
  <2>2. snapshot' \in [Key -> Tag]
    BY <1>3, TagShape DEF PollAdd
  <2> QED BY <1>3, <2>1, <2>2 DEF PollAdd
<1> QED BY <1>1, <1>2, <1>3 DEF Poller

LEMMA StutterTypeOK == TypeOK /\ UNCHANGED vars => TypeOK'
BY DEF TypeOK, vars, driverVars, workerVars, pollVars

\* The pipeline's state stays within its types: the counters, the tags of both
\* stores and the driver's position, through every interleaving.
THEOREM TypeCorrect == Spec => []TypeOK
<1>1. TypeOK /\ [Next]_vars => TypeOK'
  BY DriverTypeOK, WorkerTypeOK, PollerTypeOK, StutterTypeOK DEF Next, Terminated
<1> QED BY <1>1, InitTypeOK, PTL DEF Spec

-----------------------------------------------------------------------------
(* Completeness                                                            *)

LEMMA InitCompleteness == Init => CompletenessInv
<1> SUFFICES ASSUME Init PROVE CompletenessInv
  OBVIOUS
<1>1. TypeOK
  BY InitTypeOK
<1>2. PromptsInOrder
  BY DEF Init, PromptsInOrder, FreshPrompt
<1>3. TagsTellTruth(tq) /\ TagsTellTruth(snapshot)
  BY KeyShape DEF Init, TagsTellTruth, Marker
<1>4. MarkersTellTruth
  BY KeyShape DEF Init, MarkersTellTruth, Marker, Absent, Resolved, Dispatched, FreshPrompt
<1>5. BatchesHoldNoMarker /\ WaitedFor /\ SampledAreResolved /\ SampleIsComplete
  BY DEF Init, BatchesHoldNoMarker, WaitedFor, Waiting, SampledAreResolved,
         SampleIsComplete, JustSampled
<1>6. BufferedTagsHaveStep
  BY DEF Init, BufferedTagsHaveStep, Absent
<1> QED BY <1>1, <1>2, <1>3, <1>4, <1>5, <1>6 DEF CompletenessInv

\* A step that touches neither the prompts nor the stores nor the batch the
\* driver works on, and does not enter a state that promises more.
LEMMA QuietStep ==
    ASSUME CompletenessInv, TypeOK',
           UNCHANGED <<prompt, session, nextUid, tq, snapshot, rb, batch, curUids>>,
           Waiting' => Waiting /\ part' = part /\ globalSteps' = globalSteps,
           JustSampled' => JustSampled /\ part' = part
    PROVE  CompletenessInv'
<1> USE DEF CompletenessInv
<1>1. PromptsInOrder'
  BY DEF PromptsInOrder, AllSessionsOver
<1>2. TagsTellTruth(tq)' /\ TagsTellTruth(snapshot)'
  BY DEF TagsTellTruth
<1>3. MarkersTellTruth' /\ BatchesHoldNoMarker' /\ BufferedTagsHaveStep'
  BY DEF MarkersTellTruth, BatchesHoldNoMarker, BufferedTagsHaveStep
<1>4. WaitedFor'
  BY DEF WaitedFor, OutputsBeforeMarker
<1>5. SampledAreResolved' /\ SampleIsComplete'
  BY DEF SampledAreResolved, SampleIsComplete
<1> QED BY <1>1, <1>2, <1>3, <1>4, <1>5

-----------------------------------------------------------------------------
(* The driver                                                              *)

LEMMA MarkPendingCompleteness ==
    CompletenessInv /\ MarkPending => CompletenessInv'
<1> SUFFICES ASSUME CompletenessInv, MarkPending PROVE CompletenessInv'
  OBVIOUS
<1> DEFINE uids == nextUid .. nextUid + PromptsPerBatch - 1
<1>1. TypeOK /\ TypeOK'
  BY DriverTypeOK DEF CompletenessInv, Driver
<1>2. /\ uids \subseteq Uid /\ curUids' = uids
      /\ pc' = "dispatch" /\ part' = part /\ globalSteps' = globalSteps
      /\ nextUid' = nextUid + PromptsPerBatch
      /\ UNCHANGED <<session, tq, snapshot, batch>>
      /\ prompt' = [u \in Uid |->
            IF u \in uids
            THEN [part |-> part, step |-> globalSteps, status |-> "pending"]
            ELSE prompt[u]]
      /\ rb' = [k \in Key |->
            IF k[1] \in uids /\ k[2] = MarkerSlot
            THEN Updated(rb[k], StepTag(globalSteps, "running"))
            ELSE rb[k]]
  BY DEF MarkPending, pollVars
<1>3. \A u \in uids : prompt[u].status = "fresh" /\ u >= nextUid /\ u < nextUid'
  BY <1>1, <1>2, RolloutAssumption DEF CompletenessInv, PromptsInOrder, TypeOK
<1>4. globalSteps # NoStep
  BY <1>1, RolloutAssumption DEF TypeOK, Step, NoStep
<1>5. \A u \in uids : rb'[Marker(u)] = StepTag(globalSteps, "running")
  BY <1>2, <1>4, KeyShape DEF Marker, Updated, StepTag
<1>6. \A u \in Uid \ uids : prompt'[u] = prompt[u] /\ rb'[Marker(u)] = rb[Marker(u)]
  BY <1>2, KeyShape DEF Marker
<1>7. PromptsInOrder'
  <2> SUFFICES ASSUME NEW u \in Uid
               PROVE  /\ u >= nextUid' => prompt'[u].status = "fresh"
                      /\ prompt'[u].status \in {"fresh", "pending", "padding"}
                            => \A s \in Session : session'[u][s] = "none"
                      /\ prompt'[u].status = "finished" => AllSessionsOver(u)'
    BY DEF PromptsInOrder
  <2>1. CASE u \in uids
    BY <1>1, <1>2, <1>3, <2>1, RolloutAssumption DEF CompletenessInv, PromptsInOrder, TypeOK, Uid
  <2>2. CASE u \notin uids
    BY <1>1, <1>2, <1>6, <2>2, RolloutAssumption
       DEF CompletenessInv, PromptsInOrder, TypeOK, Uid, AllSessionsOver
  <2> QED BY <2>1, <2>2
<1>8. ASSUME NEW store, TagsTellTruth(store)
      PROVE  \A u \in Uid :
                /\ \/ store[Marker(u)] = Absent
                   \/ /\ prompt'[u].status \in Resolved
                      /\ store[Marker(u)] = MarkerTag(prompt'[u].status)
                /\ \A i \in Slot \ {MarkerSlot} :
                      \/ store[<<u, i>>] = Absent
                      \/ /\ prompt'[u].status # "fresh"
                         /\ store[<<u, i>>] = StepTag(prompt'[u].step, "success")
  BY <1>3, <1>6, <1>8 DEF TagsTellTruth, Resolved
<1>9. TagsTellTruth(tq)' /\ TagsTellTruth(snapshot)'
  BY <1>2, <1>8 DEF CompletenessInv, TagsTellTruth
<1>10. MarkersTellTruth'
  <2> SUFFICES ASSUME NEW u \in Uid
               PROVE  /\ rb'[Marker(u)].status \in {"absent", "running", "finished", "failure"}
                      /\ rb'[Marker(u)].status \in Resolved
                            => prompt'[u].status = rb'[Marker(u)].status
                      /\ prompt'[u].status \in Dispatched => rb'[Marker(u)].gs # NoStep
    BY DEF MarkersTellTruth, Marker
  <2>1. CASE u \in uids
    BY <1>4, <1>5, <2>1 DEF StepTag, Resolved
  <2>2. CASE u \notin uids
    BY <1>6, <2>2 DEF CompletenessInv, MarkersTellTruth
  <2> QED BY <2>1, <2>2
<1>11. BatchesHoldNoMarker'
  BY <1>2 DEF CompletenessInv, BatchesHoldNoMarker
<1>12. WaitedFor'
  <2> SUFFICES ASSUME NEW u \in uids
               PROVE  /\ prompt'[u].part = part
                      /\ prompt'[u].step = globalSteps
                      /\ prompt'[u].status \in Dispatched
                      /\ rb'[Marker(u)].gs = globalSteps
                      /\ rb'[Marker(u)].status # "absent"
                      /\ \A s \in Session : session[u][s] = "none"
                      /\ OutputsBeforeMarker(snapshot, u)'
                      /\ OutputsBeforeMarker(rb, u)'
    BY <1>2 DEF WaitedFor
  <2>1. u \in Uid
    BY <1>2
  <2>2. prompt'[u].part = part /\ prompt'[u].step = globalSteps /\ prompt'[u].status \in Dispatched
    BY <1>2, <2>1 DEF Dispatched
  <2>3. rb'[Marker(u)].gs = globalSteps /\ rb'[Marker(u)].status = "running"
    BY <1>5 DEF StepTag
  <2>4. \A s \in Session : session[u][s] = "none"
    BY <1>3, <2>1 DEF CompletenessInv, PromptsInOrder
  <2>5. OutputsBeforeMarker(snapshot, u)' /\ OutputsBeforeMarker(rb, u)'
    BY <1>2, <2>4 DEF OutputsBeforeMarker
  <2> QED BY <2>2, <2>3, <2>4, <2>5
<1>13. SampledAreResolved' /\ SampleIsComplete'
  BY <1>2 DEF SampledAreResolved, SampleIsComplete, JustSampled
<1>14. BufferedTagsHaveStep'
  BY <1>2, <1>4 DEF CompletenessInv, BufferedTagsHaveStep, Updated, StepTag
<1> QED BY <1>1, <1>7, <1>9, <1>10, <1>11, <1>12, <1>13, <1>14 DEF CompletenessInv

\* sample() returns: the markers are all in, so are the outputs.
LEMMA SampleBatchCompleteness ==
    CompletenessInv /\ SampleBatch => CompletenessInv'
<1> SUFFICES ASSUME CompletenessInv, SampleBatch PROVE CompletenessInv'
  OBVIOUS
<1>1. TypeOK /\ TypeOK'
  BY DriverTypeOK DEF CompletenessInv, Driver
<1>2. /\ pc = "sample" /\ ~Waiting'
      /\ \A k \in Key : ~HoldsBackSample(k)
      /\ batch' = [batch EXCEPT ![part] = {k \in Key : InSample(k) /\ rb[k].status = "success"}]
      /\ UNCHANGED <<part, globalSteps, curUids, nextUid, prompt, session, tq, snapshot, rb>>
  BY DEF SampleBatch, Waiting, workerVars, pollVars
<1>3. \A u \in curUids : prompt[u].status = rb[Marker(u)].status /\ rb[Marker(u)].status \in Resolved
  <2> SUFFICES ASSUME NEW u \in curUids
               PROVE  rb[Marker(u)].status \in Resolved /\ prompt[u].status = rb[Marker(u)].status
    OBVIOUS
  <2>1. u \in Uid /\ Marker(u) \in Key
    BY <1>1, KeyShape DEF TypeOK, Marker
  <2>2. InSample(Marker(u)) /\ rb[Marker(u)].status # "absent"
    BY <1>2, <2>1 DEF CompletenessInv, WaitedFor, Waiting, InSample, PromptOf, Marker
  <2>3. rb[Marker(u)].status # "running"
    BY <1>2, <2>1, <2>2 DEF HoldsBackSample
  <2> QED BY <2>1, <2>2, <2>3 DEF CompletenessInv, MarkersTellTruth, Resolved
<1>4. PromptsInOrder' /\ TagsTellTruth(tq)' /\ TagsTellTruth(snapshot)' /\ MarkersTellTruth'
  BY <1>2 DEF CompletenessInv, PromptsInOrder, AllSessionsOver, TagsTellTruth, MarkersTellTruth
<1>5. BatchesHoldNoMarker'
  <2>1. \A k \in Key : rb[k].status = "success" => k[2] # MarkerSlot
    <3> SUFFICES ASSUME NEW k \in Key, k[2] = MarkerSlot PROVE rb[k].status # "success"
      OBVIOUS
    <3>1. k[1] \in Uid /\ k = Marker(k[1])
      BY KeyShape DEF Marker
    <3> QED BY <3>1 DEF CompletenessInv, MarkersTellTruth
  <2> QED BY <1>1, <1>2, <2>1 DEF CompletenessInv, BatchesHoldNoMarker, TypeOK
<1>6. WaitedFor' /\ BufferedTagsHaveStep'
  BY <1>2 DEF CompletenessInv, WaitedFor, BufferedTagsHaveStep
<1>7. SampledAreResolved'
  BY <1>2, <1>3 DEF SampledAreResolved
<1>8. SampleIsComplete'
  <2> SUFFICES ASSUME NEW u \in curUids, NEW s \in Session,
                      prompt[u].status = "finished", session[u][s] = "stored"
               PROVE  <<u, s>> \in batch'[part]
    BY <1>2 DEF SampleIsComplete
  <2>1. u \in Uid /\ <<u, s>> \in Key /\ <<u, s>>[1] = u
    BY <1>1, KeyShape DEF TypeOK
  <2>2. rb[<<u, s>>] = StepTag(prompt[u].step, "success")
    BY <1>2, <1>3 DEF CompletenessInv, WaitedFor, Waiting, OutputsBeforeMarker
  <2>3. InSample(<<u, s>>) /\ rb[<<u, s>>].status = "success"
    BY <1>2, <2>1, <2>2 DEF CompletenessInv, WaitedFor, Waiting, InSample, PromptOf, StepTag
  <2> QED BY <1>1, <1>2, <2>1, <2>3 DEF TypeOK
<1> QED BY <1>1, <1>4, <1>5, <1>6, <1>7, <1>8 DEF CompletenessInv

\* The padding is put under a uid nobody has used.
LEMMA BalanceBatchCompleteness ==
    CompletenessInv /\ BalanceBatch => CompletenessInv'
<1> SUFFICES ASSUME CompletenessInv, BalanceBatch PROVE CompletenessInv'
  OBVIOUS
<1> DEFINE pads == {<<nextUid, i>> : i \in 1 .. PadCount(batch["train"])}
<1>1. TypeOK /\ TypeOK'
  BY DriverTypeOK DEF CompletenessInv, Driver
<1>2. /\ pc = "balance" /\ pc' = "update" /\ pads \subseteq Key
      /\ batch' = [batch EXCEPT !["train"] = @ \cup pads]
      /\ tq' = Overwrite(tq, pads, StepTag(globalSteps, "success"))
      /\ IF pads = {}
            THEN UNCHANGED <<nextUid, prompt>>
            ELSE /\ nextUid' = nextUid + 1
                 /\ prompt' = [prompt EXCEPT ![nextUid] =
                      [part |-> "train", step |-> globalSteps, status |-> "padding"]]
      /\ UNCHANGED <<part, globalSteps, curUids, session, snapshot, rb>>
  BY DEF BalanceBatch, PutPadding, pollVars
<1>3. \A k \in pads : k \in Key /\ k[1] = nextUid /\ k[2] # MarkerSlot
  BY <1>2 DEF MarkerSlot
<1>4. nextUid \in Uid => prompt[nextUid].status = "fresh"
  BY <1>1 DEF CompletenessInv, PromptsInOrder, TypeOK
<1>5. \A u \in Uid : u # nextUid => prompt'[u] = prompt[u]
  BY <1>1, <1>2 DEF TypeOK
<1>6. pads # {} => nextUid \in Uid /\ prompt'[nextUid].status = "padding"
                                   /\ prompt'[nextUid].step = globalSteps
  BY <1>1, <1>2, <1>3 DEF TypeOK, Key
<1>7. \A k \in Key : tq'[k] = IF k \in pads THEN StepTag(globalSteps, "success") ELSE tq[k]
  BY <1>2 DEF Overwrite
<1>8. PromptsInOrder'
  <2> SUFFICES ASSUME NEW u \in Uid
               PROVE  /\ u >= nextUid' => prompt'[u].status = "fresh"
                      /\ prompt'[u].status \in {"fresh", "pending", "padding"}
                            => \A s \in Session : session'[u][s] = "none"
                      /\ prompt'[u].status = "finished" => AllSessionsOver(u)'
    BY DEF PromptsInOrder
  <2>1. CASE u = nextUid /\ pads # {}
    BY <1>1, <1>2, <1>4, <1>6, <2>1 DEF CompletenessInv, PromptsInOrder, TypeOK
  <2>2. CASE u # nextUid \/ pads = {}
    <3>1. prompt'[u] = prompt[u]
      BY <1>2, <1>5, <2>2
    <3>2. u >= nextUid' => u >= nextUid
      BY <1>1, <1>2 DEF TypeOK, Uid
    <3> QED BY <1>2, <3>1, <3>2 DEF CompletenessInv, PromptsInOrder, AllSessionsOver
  <2> QED BY <2>1, <2>2
<1>9. TagsTellTruth(snapshot)'
  <2> SUFFICES ASSUME NEW u \in Uid, prompt'[u] # prompt[u]
               PROVE  /\ snapshot[Marker(u)] = Absent
                      /\ \A i \in Slot \ {MarkerSlot} : snapshot[<<u, i>>] = Absent
    BY <1>2 DEF CompletenessInv, TagsTellTruth
  <2>1. prompt[u].status = "fresh"
    BY <1>4, <1>5
  <2> QED BY <2>1 DEF CompletenessInv, TagsTellTruth, Resolved
<1>10. TagsTellTruth(tq)'
  <2> SUFFICES ASSUME NEW u \in Uid
               PROVE  /\ \/ tq'[Marker(u)] = Absent
                         \/ /\ prompt'[u].status \in Resolved
                            /\ tq'[Marker(u)] = MarkerTag(prompt'[u].status)
                      /\ \A i \in Slot \ {MarkerSlot} :
                            \/ tq'[<<u, i>>] = Absent
                            \/ /\ prompt'[u].status # "fresh"
                               /\ tq'[<<u, i>>] = StepTag(prompt'[u].step, "success")
    BY DEF TagsTellTruth, Marker
  <2>1. tq'[Marker(u)] = tq[Marker(u)]
    BY <1>3, <1>7, KeyShape DEF Marker
  <2>2. CASE u # nextUid \/ pads = {}
    <3>1. prompt'[u] = prompt[u]
      BY <1>2, <1>5, <2>2
    <3>2. \A i \in Slot : tq'[<<u, i>>] = tq[<<u, i>>]
      BY <1>3, <1>7, <2>2, KeyShape
    <3> QED BY <2>1, <3>1, <3>2 DEF CompletenessInv, TagsTellTruth
  <2>3. CASE u = nextUid /\ pads # {}
    <3>1. tq[Marker(u)] = Absent /\ \A i \in Slot \ {MarkerSlot} : tq[<<u, i>>] = Absent
      BY <1>4, <2>3 DEF CompletenessInv, TagsTellTruth, Resolved
    <3> QED BY <1>6, <1>7, <2>1, <2>3, <3>1, KeyShape
  <2> QED BY <2>2, <2>3
<1>11. MarkersTellTruth'
  <2> SUFFICES ASSUME NEW u \in Uid, prompt'[u] # prompt[u]
               PROVE  rb[Marker(u)].status \notin Resolved /\ prompt'[u].status \notin Dispatched
    BY <1>2 DEF CompletenessInv, MarkersTellTruth
  <2>1. u = nextUid /\ prompt[u].status = "fresh" /\ pads # {}
    BY <1>2, <1>4, <1>5
  <2> QED BY <1>6, <2>1 DEF CompletenessInv, MarkersTellTruth, Resolved, Dispatched
<1>12. BatchesHoldNoMarker'
  BY <1>1, <1>2, <1>3 DEF CompletenessInv, BatchesHoldNoMarker, TypeOK
<1>13. WaitedFor' /\ BufferedTagsHaveStep'
  BY <1>2 DEF CompletenessInv, WaitedFor, Waiting, BufferedTagsHaveStep
<1>14. \A u \in curUids : u \in Uid /\ prompt[u].status \in Resolved /\ prompt'[u] = prompt[u]
  BY <1>1, <1>2, <1>4, <1>5 DEF CompletenessInv, SampledAreResolved, JustSampled, Resolved, TypeOK
<1>15. SampledAreResolved'
  BY <1>2, <1>14 DEF SampledAreResolved
<1>16. SampleIsComplete'
  BY <1>1, <1>2, <1>14 DEF CompletenessInv, SampleIsComplete, JustSampled, TypeOK
<1> QED
  BY <1>1, <1>8, <1>9, <1>10, <1>11, <1>12, <1>13, <1>15, <1>16 DEF CompletenessInv

LEMMA ClearStoredCompleteness ==
    CompletenessInv /\ ClearStored => CompletenessInv'
<1> SUFFICES ASSUME CompletenessInv, ClearStored PROVE CompletenessInv'
  OBVIOUS
<1>1. TypeOK'
  BY DriverTypeOK DEF CompletenessInv, Driver
<1>2. /\ pc' = "remove"
      /\ \A k \in Key : tq'[k] = tq[k] \/ tq'[k] = Absent
      /\ UNCHANGED <<nextUid, prompt, session, snapshot, rb, batch>>
  BY DEF ClearStored, Overwrite, workerVars, pollVars
<1>3. TagsTellTruth(tq)'
  BY <1>2, KeyShape DEF CompletenessInv, TagsTellTruth, Marker
<1>4. PromptsInOrder' /\ TagsTellTruth(snapshot)' /\ MarkersTellTruth'
  BY <1>2 DEF CompletenessInv, PromptsInOrder, AllSessionsOver, TagsTellTruth, MarkersTellTruth
<1>5. BatchesHoldNoMarker' /\ BufferedTagsHaveStep'
  BY <1>2 DEF CompletenessInv, BatchesHoldNoMarker, BufferedTagsHaveStep
<1>6. WaitedFor' /\ SampledAreResolved' /\ SampleIsComplete'
  BY <1>2 DEF WaitedFor, Waiting, SampledAreResolved, SampleIsComplete, JustSampled
<1> QED BY <1>1, <1>3, <1>4, <1>5, <1>6 DEF CompletenessInv

\* The cleanup drops no marker, so later polls find every marker's step.
LEMMA RemoveBufferedCompleteness ==
    CompletenessInv /\ RemoveBuffered => CompletenessInv'
<1> SUFFICES ASSUME CompletenessInv, RemoveBuffered PROVE CompletenessInv'
  OBVIOUS
<1>1. TypeOK /\ TypeOK'
  BY DriverTypeOK DEF CompletenessInv, Driver
<1>2. /\ pc' \in {"mark", "closing", "clear"}
      /\ rb' = Overwrite(rb, CleanupKeys, Absent)
      /\ batch' = [batch EXCEPT ![part] = {}]
      /\ UNCHANGED <<nextUid, prompt, session, tq, snapshot>>
  BY DEF RemoveBuffered, workerVars, pollVars
<1>3. \A k \in Key : rb'[k] = rb[k] \/ (rb'[k] = Absent /\ k[2] # MarkerSlot)
  BY <1>1, <1>2 DEF CompletenessInv, BatchesHoldNoMarker, CleanupKeys, Overwrite, TypeOK
<1>4. \A u \in Uid : rb'[Marker(u)] = rb[Marker(u)]
  BY <1>3, KeyShape DEF Marker
<1>5. MarkersTellTruth'
  BY <1>2, <1>4 DEF CompletenessInv, MarkersTellTruth, Marker
<1>6. PromptsInOrder' /\ TagsTellTruth(tq)' /\ TagsTellTruth(snapshot)'
  BY <1>2 DEF CompletenessInv, PromptsInOrder, AllSessionsOver, TagsTellTruth
<1>7. BatchesHoldNoMarker'
  BY <1>1, <1>2 DEF CompletenessInv, BatchesHoldNoMarker, TypeOK
<1>8. BufferedTagsHaveStep'
  BY <1>3 DEF CompletenessInv, BufferedTagsHaveStep, Absent
<1>9. WaitedFor' /\ SampledAreResolved' /\ SampleIsComplete'
  BY <1>2 DEF WaitedFor, Waiting, SampledAreResolved, SampleIsComplete, JustSampled
<1> QED BY <1>1, <1>5, <1>6, <1>7, <1>8, <1>9 DEF CompletenessInv

LEMMA DriverCompleteness == CompletenessInv /\ Driver => CompletenessInv'
<1> SUFFICES ASSUME CompletenessInv, Driver PROVE CompletenessInv'
  OBVIOUS
<1>1. TypeOK'
  BY DriverTypeOK DEF CompletenessInv
<1> USE <1>1, QuietStep DEF Waiting, JustSampled, workerVars, pollVars
<1>2. CASE BeginFit
  BY <1>2 DEF BeginFit
<1>3. CASE AwaitDispatch
  BY <1>3 DEF AwaitDispatch
<1>4. CASE SleepReplicas
  BY <1>4 DEF SleepReplicas
<1>5. CASE BalanceNothing
  BY <1>5 DEF BalanceNothing
<1>6. CASE UpdateActor
  BY <1>6 DEF UpdateActor
<1>7. CASE UpdateWeights
  BY <1>7 DEF UpdateWeights
<1>8. CASE FetchScores
  BY <1>8 DEF FetchScores
<1>9. CASE FetchNothing
  BY <1>9 DEF FetchNothing
<1>10. CASE StopPolling
  BY <1>10 DEF StopPolling
<1>11. CASE CloseQueue
  BY <1>11 DEF CloseQueue
<1> QED
  BY <1>2, <1>3, <1>4, <1>5, <1>6, <1>7, <1>8, <1>9, <1>10, <1>11, MarkPendingCompleteness,
     SampleBatchCompleteness, BalanceBatchCompleteness, ClearStoredCompleteness,
     RemoveBufferedCompleteness DEF Driver

-----------------------------------------------------------------------------
(* The agent-loop workers                                                  *)

\* A session of a prompt that is not finished moves on, storing nothing.
LEMMA SessionStepCompleteness ==
    ASSUME CompletenessInv, TypeOK', NEW u \in Uid, NEW s \in Session, NEW st \in SessionStatus,
           session[u][s] \in {"generating", "scoring"}, st # "stored", st # "none",
           session' = [session EXCEPT ![u][s] = st],
           UNCHANGED <<driverVars, prompt, tq, rb, snapshot>>
    PROVE  CompletenessInv'
<1> USE DEF CompletenessInv, driverVars
<1>1. \A v \in Uid, r \in Session :
          session'[v][r] = IF v = u /\ r = s THEN st ELSE session[v][r]
  BY DEF TypeOK
<1>2. prompt[u].status \notin {"fresh", "pending", "padding", "finished"}
  BY DEF PromptsInOrder, AllSessionsOver
<1>3. PromptsInOrder'
  BY <1>1, <1>2 DEF PromptsInOrder, AllSessionsOver
<1>4. TagsTellTruth(tq)' /\ TagsTellTruth(snapshot)'
  BY DEF TagsTellTruth
<1>5. MarkersTellTruth' /\ BatchesHoldNoMarker' /\ BufferedTagsHaveStep' /\ SampledAreResolved'
  BY DEF MarkersTellTruth, BatchesHoldNoMarker, BufferedTagsHaveStep, SampledAreResolved,
         JustSampled
<1>6. \A v \in Uid, r \in Session : session'[v][r] = "stored" => session[v][r] = "stored"
  BY <1>1
<1>7. curUids \subseteq Uid
  BY DEF TypeOK
<1>8. WaitedFor'
  BY <1>6, <1>7 DEF WaitedFor, Waiting, OutputsBeforeMarker
<1>9. SampleIsComplete'
  BY <1>6, <1>7 DEF SampleIsComplete, JustSampled
<1> QED BY <1>3, <1>4, <1>5, <1>8, <1>9

\* The outputs of a session go to the queue while its prompt has no marker
\* that says finished, in any store.
LEMMA PutOutputsCompleteness ==
    ASSUME CompletenessInv, NEW u \in Uid, NEW s \in Session, PutOutputs(u, s)
    PROVE  CompletenessInv'
<1>1. TypeOK /\ TypeOK'
  BY WorkerTypeOK DEF CompletenessInv, Worker
<1>2. /\ session[u][s] = "scoring"
      /\ session' = [session EXCEPT ![u][s] = "stored"]
      /\ tq' = [tq EXCEPT ![<<u, s>>] = StepTag(prompt[u].step, "success")]
      /\ UNCHANGED <<driverVars, prompt, rb, snapshot>>
  BY DEF PutOutputs, pollVars
<1> USE DEF driverVars
<1>3. \A v \in Uid, r \in Session :
          session'[v][r] = IF v = u /\ r = s THEN "stored" ELSE session[v][r]
  BY <1>1, <1>2 DEF TypeOK
<1>4. /\ <<u, s>> \in Key
      /\ \A k \in Key : tq'[k] = IF k = <<u, s>> THEN StepTag(prompt[u].step, "success")
                                 ELSE tq[k]
  BY <1>1, <1>2, KeyShape DEF TypeOK
<1>5. prompt[u].status \notin {"fresh", "pending", "padding", "finished"}
  BY <1>2 DEF CompletenessInv, PromptsInOrder, AllSessionsOver
<1>6. PromptsInOrder'
  BY <1>2, <1>3, <1>5 DEF CompletenessInv, PromptsInOrder, AllSessionsOver
<1>7. TagsTellTruth(tq)'
  <2> SUFFICES ASSUME NEW v \in Uid
               PROVE  /\ tq'[Marker(v)] = tq[Marker(v)]
                      /\ \A i \in Slot \ {MarkerSlot} :
                            \/ tq'[<<v, i>>] = tq[<<v, i>>]
                            \/ /\ prompt[v].status # "fresh"
                               /\ tq'[<<v, i>>] = StepTag(prompt[v].step, "success")
    BY <1>2 DEF CompletenessInv, TagsTellTruth, Marker
  <2>1. Marker(v) \in Key /\ Marker(v) # <<u, s>>
    BY KeyShape DEF Marker
  <2>2. \A i \in Slot : <<v, i>> \in Key /\ (<<v, i>> = <<u, s>> => v = u)
    BY KeyShape
  <2> QED BY <1>4, <1>5, <2>1, <2>2
<1>8. TagsTellTruth(snapshot)'
  BY <1>2 DEF CompletenessInv, TagsTellTruth
<1>9. MarkersTellTruth' /\ BatchesHoldNoMarker' /\ BufferedTagsHaveStep' /\ SampledAreResolved'
  BY <1>2 DEF CompletenessInv, MarkersTellTruth, BatchesHoldNoMarker, BufferedTagsHaveStep,
              SampledAreResolved, JustSampled
<1>10. snapshot[Marker(u)].status # "finished" /\ rb[Marker(u)].status # "finished"
  <2>1. rb[Marker(u)].status # "finished"
    BY <1>5 DEF CompletenessInv, MarkersTellTruth, Resolved
  <2>2. CASE snapshot[Marker(u)] = Absent
    BY <2>1, <2>2 DEF Absent
  <2>3. CASE snapshot[Marker(u)] = MarkerTag(prompt[u].status)
    BY <1>5, <2>1, <2>3 DEF MarkerTag
  <2> QED BY <2>2, <2>3 DEF CompletenessInv, TagsTellTruth
<1>11. WaitedFor'
  <2> SUFFICES ASSUME Waiting, NEW v \in curUids
               PROVE  /\ \A r \in Session : session'[v][r] = "stored"
                            => tq'[<<v, r>>] = StepTag(prompt[v].step, "success")
                      /\ OutputsBeforeMarker(snapshot, v)'
                      /\ OutputsBeforeMarker(rb, v)'
    BY <1>2 DEF CompletenessInv, WaitedFor, Waiting
  <2>1. v \in Uid
    BY <1>1 DEF TypeOK
  <2>2. \A r \in Session : session'[v][r] = "stored"
            => tq'[<<v, r>>] = StepTag(prompt[v].step, "success")
    <3> SUFFICES ASSUME NEW r \in Session, session'[v][r] = "stored"
                 PROVE  tq'[<<v, r>>] = StepTag(prompt[v].step, "success")
      OBVIOUS
    <3>1. CASE v = u /\ r = s
      BY <1>4, <3>1
    <3>2. CASE ~(v = u /\ r = s)
      <4>1. <<v, r>> \in Key /\ <<v, r>> # <<u, s>>
        BY <2>1, <3>2, KeyShape
      <4> QED BY <1>3, <1>4, <2>1, <3>2, <4>1 DEF CompletenessInv, WaitedFor
    <3> QED BY <3>1, <3>2
  <2>3. CASE v = u
    BY <1>2, <1>10, <2>2, <2>3 DEF OutputsBeforeMarker
  <2>4. CASE v # u
    BY <1>2, <1>3, <2>1, <2>2, <2>4 DEF CompletenessInv, WaitedFor, OutputsBeforeMarker
  <2> QED BY <2>3, <2>4
<1>12. SampleIsComplete'
  BY <1>1, <1>2, <1>3, <1>5 DEF CompletenessInv, SampleIsComplete, JustSampled, TypeOK
<1> QED BY <1>1, <1>6, <1>7, <1>8, <1>9, <1>11, <1>12 DEF CompletenessInv

LEMMA StartPromptCompleteness ==
    ASSUME CompletenessInv, NEW u \in Uid, StartPrompt(u)
    PROVE  CompletenessInv'
<1>1. TypeOK /\ TypeOK'
  BY WorkerTypeOK DEF CompletenessInv, Worker
<1>2. /\ prompt[u].status = "pending"
      /\ prompt' = [prompt EXCEPT ![u].status = "running"]
      /\ session' = [session EXCEPT ![u] = [s \in Session |-> "generating"]]
      /\ UNCHANGED <<driverVars, tq, rb, snapshot>>
  BY DEF StartPrompt, pollVars
<1> USE DEF driverVars
<1>3. \A v \in Uid :
          /\ v # u => prompt'[v] = prompt[v] /\ session'[v] = session[v]
          /\ prompt'[v].part = prompt[v].part /\ prompt'[v].step = prompt[v].step
  BY <1>1, <1>2 DEF TypeOK
<1>4. prompt'[u].status = "running" /\ \A s \in Session : session'[u][s] = "generating"
  BY <1>1, <1>2 DEF TypeOK
<1>5. PromptsInOrder'
  <2> SUFFICES ASSUME NEW v \in Uid
               PROVE  /\ v >= nextUid' => prompt'[v].status = "fresh"
                      /\ prompt'[v].status \in {"fresh", "pending", "padding"}
                            => \A s \in Session : session'[v][s] = "none"
                      /\ prompt'[v].status = "finished" => AllSessionsOver(v)'
    BY DEF PromptsInOrder
  <2>1. u >= nextUid => FALSE
    BY <1>2 DEF CompletenessInv, PromptsInOrder
  <2>2. CASE v = u
    BY <1>2, <1>4, <2>1, <2>2
  <2>3. CASE v # u
    BY <1>2, <1>3, <2>3 DEF CompletenessInv, PromptsInOrder, AllSessionsOver
  <2> QED BY <2>2, <2>3
<1>6. ASSUME NEW store, TagsTellTruth(store)
      PROVE  \A v \in Uid :
                /\ \/ store[Marker(v)] = Absent
                   \/ /\ prompt'[v].status \in Resolved
                      /\ store[Marker(v)] = MarkerTag(prompt'[v].status)
                /\ \A i \in Slot \ {MarkerSlot} :
                      \/ store[<<v, i>>] = Absent
                      \/ /\ prompt'[v].status # "fresh"
                         /\ store[<<v, i>>] = StepTag(prompt'[v].step, "success")
  BY <1>2, <1>3, <1>4, <1>6 DEF TagsTellTruth, Resolved
<1>7. TagsTellTruth(tq)' /\ TagsTellTruth(snapshot)'
  BY <1>2, <1>6 DEF CompletenessInv, TagsTellTruth
<1>8. MarkersTellTruth'
  BY <1>2, <1>3, <1>4 DEF CompletenessInv, MarkersTellTruth, Resolved, Dispatched
<1>9. BatchesHoldNoMarker' /\ BufferedTagsHaveStep'
  BY <1>2 DEF CompletenessInv, BatchesHoldNoMarker, BufferedTagsHaveStep
<1>10. \A v \in Uid, s \in Session : session'[v][s] = "stored" => session[v][s] = "stored" /\ v # u
  BY <1>3, <1>4
<1>11. curUids \subseteq Uid
  BY <1>1 DEF TypeOK
<1>12. WaitedFor'
  <2> SUFFICES ASSUME Waiting, NEW v \in curUids
               PROVE  /\ prompt'[v].part = part
                      /\ prompt'[v].step = globalSteps
                      /\ prompt'[v].status \in Dispatched
                      /\ rb[Marker(v)].gs = globalSteps
                      /\ rb[Marker(v)].status # "absent"
                      /\ \A s \in Session : session'[v][s] = "stored"
                            => tq[<<v, s>>] = StepTag(prompt'[v].step, "success")
                      /\ OutputsBeforeMarker(snapshot, v)'
                      /\ OutputsBeforeMarker(rb, v)'
    BY <1>2 DEF WaitedFor, Waiting
  <2>1. prompt'[v].status \in Dispatched
    BY <1>3, <1>4, <1>11 DEF CompletenessInv, WaitedFor, Dispatched
  <2>2. /\ prompt'[v].part = part /\ prompt'[v].step = globalSteps
        /\ rb[Marker(v)].gs = globalSteps /\ rb[Marker(v)].status # "absent"
        /\ \A s \in Session : session'[v][s] = "stored"
              => tq[<<v, s>>] = StepTag(prompt'[v].step, "success")
    BY <1>3, <1>10, <1>11 DEF CompletenessInv, WaitedFor
  <2>3. OutputsBeforeMarker(snapshot, v)' /\ OutputsBeforeMarker(rb, v)'
    BY <1>2, <1>3, <1>10, <1>11 DEF CompletenessInv, WaitedFor, OutputsBeforeMarker
  <2> QED BY <2>1, <2>2, <2>3
<1>13. SampledAreResolved' /\ SampleIsComplete'
  <2>1. JustSampled => u \notin curUids
    BY <1>2 DEF CompletenessInv, SampledAreResolved, Resolved
  <2> QED BY <1>2, <1>3, <1>11, <2>1
          DEF CompletenessInv, SampledAreResolved, SampleIsComplete, JustSampled
<1> QED BY <1>1, <1>5, <1>7, <1>8, <1>9, <1>12, <1>13 DEF CompletenessInv

\* A prompt's marker is put when the prompt is resolved; a finished one has
\* stored everything it will ever store.
LEMMA ResolveCompleteness ==
    ASSUME CompletenessInv, NEW u \in Uid, FinishPrompt(u) \/ FailPrompt(u)
    PROVE  CompletenessInv'
<1> USE DEF driverVars
<1>1. TypeOK /\ TypeOK'
  BY WorkerTypeOK DEF CompletenessInv, Worker
<1>2. PICK r \in Resolved :
          /\ prompt[u].status = "running"
          /\ r = "finished" => AllSessionsOver(u)
          /\ prompt' = [prompt EXCEPT ![u].status = r]
          /\ tq' = [tq EXCEPT ![Marker(u)] = MarkerTag(r)]
          /\ UNCHANGED <<driverVars, session, rb, snapshot>>
  <2>1. CASE FinishPrompt(u)
    BY <2>1 DEF FinishPrompt, Resolved, pollVars
  <2>2. CASE FailPrompt(u)
    BY <2>2 DEF FailPrompt, Resolved, pollVars
  <2> QED BY <2>1, <2>2
<1>3. \A v \in Uid :
          /\ v # u => prompt'[v] = prompt[v]
          /\ prompt'[v].part = prompt[v].part /\ prompt'[v].step = prompt[v].step
          /\ prompt'[u].status = r
  BY <1>1, <1>2 DEF TypeOK
<1>4. /\ \A v \in Uid, i \in Slot \ {MarkerSlot} : tq'[<<v, i>>] = tq[<<v, i>>]
      /\ \A v \in Uid : v # u => tq'[Marker(v)] = tq[Marker(v)]
      /\ tq'[Marker(u)] = MarkerTag(r)
  BY <1>1, <1>2, KeyShape DEF TypeOK, Marker
<1>5. PromptsInOrder'
  <2> SUFFICES ASSUME NEW v \in Uid
               PROVE  /\ v >= nextUid' => prompt'[v].status = "fresh"
                      /\ prompt'[v].status \in {"fresh", "pending", "padding"}
                            => \A s \in Session : session'[v][s] = "none"
                      /\ prompt'[v].status = "finished" => AllSessionsOver(v)'
    BY DEF PromptsInOrder
  <2>1. u >= nextUid => FALSE
    BY <1>2 DEF CompletenessInv, PromptsInOrder
  <2>2. CASE v = u
    BY <1>2, <1>3, <2>1, <2>2 DEF Resolved, AllSessionsOver
  <2>3. CASE v # u
    BY <1>2, <1>3, <2>3 DEF CompletenessInv, PromptsInOrder, AllSessionsOver
  <2> QED BY <2>2, <2>3
<1>6. TagsTellTruth(tq)'
  <2> SUFFICES ASSUME NEW v \in Uid
               PROVE  /\ \/ tq'[Marker(v)] = Absent
                         \/ /\ prompt'[v].status \in Resolved
                            /\ tq'[Marker(v)] = MarkerTag(prompt'[v].status)
                      /\ \A i \in Slot \ {MarkerSlot} :
                            \/ tq'[<<v, i>>] = Absent
                            \/ /\ prompt'[v].status # "fresh"
                               /\ tq'[<<v, i>>] = StepTag(prompt'[v].step, "success")
    BY DEF TagsTellTruth, Marker
  <2>1. CASE v = u
    BY <1>2, <1>3, <1>4, <2>1 DEF CompletenessInv, TagsTellTruth, Resolved
  <2>2. CASE v # u
    BY <1>3, <1>4, <2>2 DEF CompletenessInv, TagsTellTruth
  <2> QED BY <2>1, <2>2
<1>7. /\ snapshot[Marker(u)] = Absent
      /\ rb[Marker(u)].status \notin Resolved
  BY <1>2 DEF CompletenessInv, TagsTellTruth, MarkersTellTruth, Resolved
<1>8. TagsTellTruth(snapshot)'
  <2> SUFFICES ASSUME NEW v \in Uid
               PROVE  /\ \/ snapshot[Marker(v)] = Absent
                         \/ /\ prompt'[v].status \in Resolved
                            /\ snapshot[Marker(v)] = MarkerTag(prompt'[v].status)
                      /\ \A i \in Slot \ {MarkerSlot} :
                            \/ snapshot[<<v, i>>] = Absent
                            \/ /\ prompt'[v].status # "fresh"
                               /\ snapshot[<<v, i>>] = StepTag(prompt'[v].step, "success")
    BY <1>2 DEF TagsTellTruth, Marker
  <2>1. CASE v = u
    BY <1>2, <1>3, <1>7, <2>1 DEF CompletenessInv, TagsTellTruth, Resolved
  <2>2. CASE v # u
    BY <1>3, <2>2 DEF CompletenessInv, TagsTellTruth
  <2> QED BY <2>1, <2>2
<1>9. MarkersTellTruth'
  BY <1>2, <1>3, <1>7 DEF CompletenessInv, MarkersTellTruth, Dispatched
<1>10. BatchesHoldNoMarker' /\ BufferedTagsHaveStep'
  BY <1>2 DEF CompletenessInv, BatchesHoldNoMarker, BufferedTagsHaveStep
<1>11. curUids \subseteq Uid
  BY <1>1 DEF TypeOK
<1>12. WaitedFor'
  <2> SUFFICES ASSUME Waiting, NEW v \in curUids
               PROVE  /\ prompt'[v].part = part
                      /\ prompt'[v].step = globalSteps
                      /\ prompt'[v].status \in Dispatched
                      /\ rb[Marker(v)].gs = globalSteps
                      /\ rb[Marker(v)].status # "absent"
                      /\ \A s \in Session : session[v][s] = "stored"
                            => tq'[<<v, s>>] = StepTag(prompt'[v].step, "success")
                      /\ OutputsBeforeMarker(snapshot, v)'
                      /\ OutputsBeforeMarker(rb, v)'
    BY <1>2 DEF WaitedFor, Waiting
  <2>1. prompt'[v].status \in Dispatched
    BY <1>2, <1>3, <1>11 DEF CompletenessInv, WaitedFor, Dispatched, Resolved
  <2>2. /\ prompt'[v].part = part /\ prompt'[v].step = globalSteps
        /\ rb[Marker(v)].gs = globalSteps /\ rb[Marker(v)].status # "absent"
        /\ \A s \in Session : session[v][s] = "stored"
              => tq'[<<v, s>>] = StepTag(prompt'[v].step, "success")
    BY <1>3, <1>4, <1>11, KeyShape DEF CompletenessInv, WaitedFor
  <2>3. OutputsBeforeMarker(snapshot, v)' /\ OutputsBeforeMarker(rb, v)'
    BY <1>2, <1>3, <1>11 DEF CompletenessInv, WaitedFor, OutputsBeforeMarker
  <2> QED BY <2>1, <2>2, <2>3
<1>13. SampledAreResolved' /\ SampleIsComplete'
  <2>1. JustSampled => u \notin curUids
    BY <1>2 DEF CompletenessInv, SampledAreResolved, Resolved
  <2> QED BY <1>2, <1>3, <1>11, <2>1
          DEF CompletenessInv, SampledAreResolved, SampleIsComplete, JustSampled
<1> QED
  BY <1>1, <1>5, <1>6, <1>8, <1>9, <1>10, <1>12, <1>13 DEF CompletenessInv

LEMMA WorkerCompleteness == CompletenessInv /\ Worker => CompletenessInv'
<1> SUFFICES ASSUME CompletenessInv, NEW u \in Uid,
                    \/ StartPrompt(u) \/ FinishPrompt(u) \/ FailPrompt(u)
                    \/ \E s \in Session : Generate(u, s) \/ PutOutputs(u, s)
                                          \/ PutNothing(u, s) \/ FailSession(u, s)
             PROVE  CompletenessInv'
  BY DEF Worker
<1>1. TypeOK'
  BY WorkerTypeOK DEF CompletenessInv, Worker
<1>2. ASSUME NEW s \in Session, Generate(u, s) \/ PutNothing(u, s) \/ FailSession(u, s)
      PROVE  CompletenessInv'
  <2>1. PICK st \in {"scoring", "empty", "failed"} :
            /\ session[u][s] \in {"generating", "scoring"}
            /\ session' = [session EXCEPT ![u][s] = st]
            /\ UNCHANGED <<driverVars, prompt, tq, rb, snapshot>>
    BY <1>2 DEF Generate, PutNothing, FailSession, pollVars
  <2> QED BY <1>1, <2>1, SessionStepCompleteness DEF SessionStatus
<1> QED BY <1>2, StartPromptCompleteness, ResolveCompleteness, PutOutputsCompleteness

-----------------------------------------------------------------------------
(* The polling thread                                                      *)

\* A snapshot of the queue has the outputs of the markers it has.
LEMMA PollListCompleteness ==
    CompletenessInv /\ PollList => CompletenessInv'
<1> SUFFICES ASSUME CompletenessInv, PollList PROVE CompletenessInv'
  OBVIOUS
<1> USE DEF driverVars, workerVars
<1>1. TypeOK'
  BY PollerTypeOK DEF CompletenessInv, Poller
<1>2. /\ snapshot' = tq \/ snapshot' = snapshot
      /\ UNCHANGED <<driverVars, workerVars, tq, rb>>
  BY DEF PollList
<1>3. PromptsInOrder'
  BY <1>2 DEF CompletenessInv, PromptsInOrder, AllSessionsOver
<1>4. TagsTellTruth(tq)' /\ TagsTellTruth(snapshot)'
  BY <1>2 DEF CompletenessInv, TagsTellTruth
<1>5. MarkersTellTruth' /\ BatchesHoldNoMarker' /\ BufferedTagsHaveStep'
  BY <1>2 DEF CompletenessInv, MarkersTellTruth, BatchesHoldNoMarker, BufferedTagsHaveStep
<1>6. WaitedFor'
  BY <1>2 DEF CompletenessInv, WaitedFor, Waiting, OutputsBeforeMarker
<1>7. SampledAreResolved' /\ SampleIsComplete'
  BY <1>2 DEF CompletenessInv, SampledAreResolved, SampleIsComplete, JustSampled
<1> QED BY <1>1, <1>3, <1>4, <1>5, <1>6, <1>7 DEF CompletenessInv

\* However old the snapshot, adding it never takes a step from an entry nor
\* shows a marker whose outputs are missing.
LEMMA PollAddCompleteness ==
    ASSUME CompletenessInv, NEW p \in Partition, PollAdd(p)
    PROVE  CompletenessInv'
<1> USE DEF driverVars, workerVars
<1>1. TypeOK /\ TypeOK'
  BY PollerTypeOK DEF CompletenessInv, Poller
<1>2. /\ \A k \in Key :
            rb'[k] = IF PromptOf(k).part = p /\ snapshot[k].status # "absent"
                     THEN Updated(rb[k], snapshot[k])
                     ELSE rb[k]
      /\ snapshot' = snapshot \/ snapshot' = [k \in Key |-> Absent]
      /\ UNCHANGED <<driverVars, workerVars, tq>>
  BY DEF PollAdd
<1>3. PromptsInOrder' /\ BatchesHoldNoMarker' /\ SampledAreResolved' /\ SampleIsComplete'
  BY <1>2 DEF CompletenessInv, PromptsInOrder, AllSessionsOver, BatchesHoldNoMarker,
              SampledAreResolved, SampleIsComplete, JustSampled
<1>4. TagsTellTruth(tq)' /\ TagsTellTruth(snapshot)'
  BY <1>2, KeyShape DEF CompletenessInv, TagsTellTruth, Marker
<1>5. ASSUME NEW u \in Uid, rb'[Marker(u)] # rb[Marker(u)]
      PROVE  /\ prompt[u].status \in Resolved
             /\ snapshot[Marker(u)].status = prompt[u].status
             /\ rb'[Marker(u)].gs = rb[Marker(u)].gs
             /\ rb'[Marker(u)].status = prompt[u].status
             /\ prompt[u].part = p
  <2>1. Marker(u) \in Key /\ PromptOf(Marker(u)) = prompt[u]
    BY KeyShape DEF Marker, PromptOf
  <2>2. snapshot[Marker(u)].status # "absent" /\ prompt[u].part = p
        /\ rb'[Marker(u)] = Updated(rb[Marker(u)], snapshot[Marker(u)])
    BY <1>2, <1>5, <2>1
  <2>3. snapshot[Marker(u)] = MarkerTag(prompt[u].status) /\ prompt[u].status \in Resolved
    BY <2>2 DEF CompletenessInv, TagsTellTruth, Absent
  <2> QED BY <2>2, <2>3 DEF Updated, MarkerTag
<1>6. MarkersTellTruth'
  <2> SUFFICES ASSUME NEW u \in Uid, rb'[Marker(u)] # rb[Marker(u)]
               PROVE  /\ rb'[Marker(u)].status \in {"absent", "running", "finished", "failure"}
                      /\ rb'[Marker(u)].status \in Resolved
                            => prompt[u].status = rb'[Marker(u)].status
                      /\ prompt[u].status \in Dispatched => rb'[Marker(u)].gs # NoStep
    BY <1>2 DEF CompletenessInv, MarkersTellTruth, Marker
  <2>1. /\ rb'[Marker(u)].gs = rb[Marker(u)].gs
        /\ rb'[Marker(u)].status = prompt[u].status
        /\ prompt[u].status \in Resolved
    BY <1>5
  <2> QED BY <2>1 DEF CompletenessInv, MarkersTellTruth, Resolved
<1>7. \A u \in Uid, i \in Slot \ {MarkerSlot} :
          /\ <<u, i>> \in Key
          /\ \/ rb'[<<u, i>>] = rb[<<u, i>>]
             \/ rb'[<<u, i>>] = StepTag(prompt[u].step, "success")
          /\ prompt[u].step # NoStep
  <2> SUFFICES ASSUME NEW u \in Uid, NEW i \in Slot \ {MarkerSlot}
               PROVE  /\ <<u, i>> \in Key
                      /\ \/ rb'[<<u, i>>] = rb[<<u, i>>]
                         \/ rb'[<<u, i>>] = StepTag(prompt[u].step, "success")
                      /\ prompt[u].step # NoStep
    OBVIOUS
  <2>1. <<u, i>> \in Key
    BY KeyShape
  <2>2. prompt[u].step # NoStep
    BY <1>1, RolloutAssumption DEF TypeOK, Step, NoStep
  <2>3. \/ snapshot[<<u, i>>].status = "absent"
        \/ snapshot[<<u, i>>] = StepTag(prompt[u].step, "success")
    BY DEF CompletenessInv, TagsTellTruth, Absent
  <2>4. CASE snapshot[<<u, i>>].status = "absent"
    BY <1>2, <2>1, <2>2, <2>4
  <2>5. CASE snapshot[<<u, i>>] = StepTag(prompt[u].step, "success")
    <3>1. Updated(rb[<<u, i>>], snapshot[<<u, i>>]) = StepTag(prompt[u].step, "success")
      BY <2>2, <2>5 DEF Updated, StepTag
    <3> QED BY <1>2, <2>1, <2>2, <3>1
  <2> QED BY <2>3, <2>4, <2>5
<1>8. BufferedTagsHaveStep'
  <2> SUFFICES ASSUME NEW k \in Key, rb'[k] # rb[k]
               PROVE  rb'[k].gs # NoStep
    BY DEF CompletenessInv, BufferedTagsHaveStep
  <2>1. PICK u \in Uid, i \in Slot : k = <<u, i>>
    BY KeyShape
  <2>2. CASE i = MarkerSlot
    <3>1. rb'[Marker(u)] # rb[Marker(u)]
      BY <2>1, <2>2 DEF Marker
    <3>2. rb'[Marker(u)].gs = rb[Marker(u)].gs /\ prompt[u].status \in Resolved
      BY <1>5, <3>1
    <3> QED BY <2>1, <2>2, <3>2
            DEF CompletenessInv, MarkersTellTruth, Marker, Resolved, Dispatched
  <2>3. CASE i # MarkerSlot
    <3>1. rb'[<<u, i>>] = StepTag(prompt[u].step, "success") /\ prompt[u].step # NoStep
      BY <1>7, <2>1, <2>3
    <3> QED BY <2>1, <3>1 DEF StepTag
  <2> QED BY <2>2, <2>3
<1>9. WaitedFor'
  <2> SUFFICES ASSUME Waiting, NEW u \in curUids
               PROVE  /\ rb'[Marker(u)].gs = globalSteps
                      /\ rb'[Marker(u)].status # "absent"
                      /\ OutputsBeforeMarker(snapshot, u)'
                      /\ OutputsBeforeMarker(rb, u)'
    BY <1>2 DEF CompletenessInv, WaitedFor, Waiting
  <2>1. u \in Uid
    BY <1>1 DEF TypeOK
  <2>2. rb[Marker(u)].gs = globalSteps /\ rb[Marker(u)].status # "absent"
    BY DEF CompletenessInv, WaitedFor
  <2>3. rb'[Marker(u)].gs = globalSteps /\ rb'[Marker(u)].status # "absent"
    <3>1. CASE rb'[Marker(u)] = rb[Marker(u)]
      BY <2>2, <3>1
    <3>2. CASE rb'[Marker(u)] # rb[Marker(u)]
      <4>1. /\ rb'[Marker(u)].gs = rb[Marker(u)].gs
            /\ rb'[Marker(u)].status = prompt[u].status
            /\ prompt[u].status \in Resolved
        BY <1>5, <2>1, <3>2
      <4> QED BY <2>2, <4>1 DEF Resolved
    <3> QED BY <3>1, <3>2
  <2>4. OutputsBeforeMarker(snapshot, u)'
    <3>1. CASE snapshot' = snapshot
      BY <1>2, <3>1 DEF CompletenessInv, WaitedFor, OutputsBeforeMarker
    <3>2. CASE snapshot' = [k \in Key |-> Absent]
      BY <2>1, <3>2, KeyShape DEF OutputsBeforeMarker, Marker, Absent
    <3> QED BY <1>2, <3>1, <3>2
  <2>5. OutputsBeforeMarker(rb, u)'
    <3> SUFFICES ASSUME rb'[Marker(u)].status = "finished",
                        NEW s \in Session, session[u][s] = "stored"
                 PROVE  rb'[<<u, s>>] = StepTag(prompt[u].step, "success")
      BY <1>2 DEF OutputsBeforeMarker
    <3>1. s \in Slot \ {MarkerSlot} /\ <<u, s>> \in Key
      BY <2>1, KeyShape
    <3>2. CASE rb'[Marker(u)] = rb[Marker(u)]
      BY <1>7, <2>1, <3>1, <3>2 DEF CompletenessInv, WaitedFor, OutputsBeforeMarker
    <3>3. CASE rb'[Marker(u)] # rb[Marker(u)]
      <4>1. snapshot[Marker(u)].status = "finished" /\ prompt[u].part = p
        <5>1. /\ rb'[Marker(u)].status = prompt[u].status
              /\ snapshot[Marker(u)].status = prompt[u].status
              /\ prompt[u].part = p
          BY <1>5, <2>1, <3>3
        <5> QED BY <5>1
      <4>2. snapshot[<<u, s>>] = StepTag(prompt[u].step, "success")
        BY <4>1 DEF CompletenessInv, WaitedFor, OutputsBeforeMarker
      <4>3. PromptOf(<<u, s>>).part = p
        BY <4>1 DEF PromptOf
      <4>4. rb'[<<u, s>>] = Updated(rb[<<u, s>>], snapshot[<<u, s>>])
        BY <1>2, <3>1, <4>2, <4>3 DEF StepTag
      <4> QED BY <1>7, <2>1, <3>1, <4>2, <4>4 DEF Updated, StepTag
    <3> QED BY <3>2, <3>3
  <2> QED BY <2>3, <2>4, <2>5
<1> QED BY <1>1, <1>3, <1>4, <1>6, <1>8, <1>9 DEF CompletenessInv

LEMMA PollerCompleteness == CompletenessInv /\ Poller => CompletenessInv'
<1>1. CompletenessInv /\ PollCheck => CompletenessInv'
  <2> SUFFICES ASSUME CompletenessInv, PollCheck PROVE CompletenessInv'
    OBVIOUS
  <2>1. TypeOK'
    BY PollerTypeOK DEF CompletenessInv, Poller
  <2> QED BY <2>1, QuietStep DEF PollCheck, driverVars, workerVars, Waiting, JustSampled
<1> QED BY <1>1, PollListCompleteness, PollAddCompleteness DEF Poller

-----------------------------------------------------------------------------
LEMMA CompletenessInvariant == Spec => []CompletenessInv
<1>1. CompletenessInv /\ UNCHANGED vars => CompletenessInv'
  <2> SUFFICES ASSUME CompletenessInv, UNCHANGED vars PROVE CompletenessInv'
    OBVIOUS
  <2>1. TypeOK'
    BY StutterTypeOK DEF CompletenessInv
  <2> QED BY <2>1, QuietStep
          DEF vars, driverVars, workerVars, pollVars, Waiting, JustSampled
<1>2. CompletenessInv /\ [Next]_vars => CompletenessInv'
  BY <1>1, DriverCompleteness, WorkerCompleteness, PollerCompleteness DEF Next, Terminated
<1> QED BY <1>2, InitCompleteness, PTL DEF Spec

\* Whatever the order of puts, polls and cleanups, and whatever fails, the
\* batch sample() returns has every output of its finished prompts.
THEOREM SampleComplete == Spec => []SampleIsComplete
BY CompletenessInvariant, PTL DEF CompletenessInv

\* sample() never reads tag["global_steps"] from an entry that lacks it.
THEOREM BufferedTagsStepped == Spec => []BufferedTagsHaveStep
BY CompletenessInvariant, PTL DEF CompletenessInv

-----------------------------------------------------------------------------
(* What stays in the queue                                                 *)

\* An output or padding sample in the queue that is not one of a failed prompt.
Loose(k) == Stored(k) /\ k[2] # MarkerSlot /\ PromptOf(k).status # "failure"

\* Where the driver may be while it works on a batch of either partition; before
\* the first training step and before a training batch is sampled it holds none.
PartFits ==
    /\ pc \in {"start", "sleep", "balance", "update", "weights"} => part = "train"
    /\ pc = "fetch" => part = "val"
    /\ part = "val" => ValBeforeTrain \/ TestFreq > 0
    /\ globalSteps = 0 => pc = "start" \/ (part = "val" /\ batch["train"] = {})
    /\ part = "train" /\ pc \in {"start", "mark", "dispatch", "sample"} => batch["train"] = {}

\* Only sessions that are over have outputs in the queue.
StoredAreYielded ==
    \A u \in Uid, i \in Slot \ {MarkerSlot} :
        Stored(<<u, i>>) =>
            prompt[u].status = "padding" \/ (i \in Session /\ session[u][i] = "stored")

OpenAreCurrent ==
    \A u \in Uid : prompt[u].status \in {"pending", "running"} => Waiting /\ u \in curUids

\* What is in the queue is waited for, or held in a batch that will be cleared.
LooseAreHeld ==
    \A k \in Key : Loose(k) =>
        \/ k \in batch["train"] /\ ~(pc = "remove" /\ part = "train")
        \/ /\ k[1] \in curUids
           /\ Waiting \/ (part = "val" /\ pc \in {"fetch", "clear"} /\ k \in batch["val"])

LeakInv == PartFits /\ StoredAreYielded /\ OpenAreCurrent /\ LooseAreHeld

LEMMA InitLeak == Init => LeakInv
<1> SUFFICES ASSUME Init PROVE LeakInv
  OBVIOUS
<1>1. \A k \in Key : ~Stored(k)
  BY DEF Init, Stored, Absent
<1>2. PartFits
  BY DEF Init, PartFits, Partition
<1>3. StoredAreYielded
  BY <1>1, KeyShape DEF StoredAreYielded
<1>4. OpenAreCurrent
  BY DEF Init, OpenAreCurrent, FreshPrompt
<1>5. LooseAreHeld
  BY <1>1 DEF LooseAreHeld, Loose
<1> QED BY <1>2, <1>3, <1>4, <1>5 DEF LeakInv

\* Steps of the driver that change no batch, queue or prompt.
LEMMA MovingOnKeepsLeak ==
    ASSUME TypeOK, LeakInv,
           \/ BeginFit \/ AwaitDispatch \/ SleepReplicas \/ BalanceNothing \/ UpdateActor
           \/ UpdateWeights \/ FetchScores \/ FetchNothing \/ StopPolling \/ CloseQueue
    PROVE  LeakInv'
<1> USE DEF LeakInv
<1>1. UNCHANGED <<prompt, session, tq, curUids, batch>>
  BY DEF BeginFit, AwaitDispatch, SleepReplicas, BalanceNothing, UpdateActor, UpdateWeights,
         FetchScores, FetchNothing, StopPolling, CloseQueue, workerVars
<1>2. PartFits'
  <2>1. CASE BeginFit
    BY <2>1, RolloutAssumption DEF BeginFit, PartFits
  <2>2. CASE AwaitDispatch \/ SleepReplicas \/ UpdateActor
    BY <2>2 DEF AwaitDispatch, SleepReplicas, UpdateActor, PartFits
  <2>3. CASE UpdateWeights
    <3>1. /\ globalSteps # 0 /\ globalSteps' = globalSteps /\ pc' \in {"mark", "clear"}
          /\ pc' = "mark" => part' = "val" /\ TestFreq > 0
      BY <2>3 DEF UpdateWeights, PartFits, ValidatesAfter
    <3>2. pc' = "clear" => part' = part
      BY <2>3 DEF UpdateWeights
    <3>3. CASE pc' = "mark"
      <4>1. part' = "val" /\ TestFreq > 0 /\ globalSteps' # 0
        BY <3>1, <3>3
      <4> QED BY <1>1, <3>3, <4>1 DEF PartFits
    <3>4. CASE pc' = "clear"
      <4>1. part' = part /\ globalSteps' = globalSteps /\ globalSteps # 0
        BY <3>1, <3>2, <3>4
      <4> QED BY <1>1, <3>4, <4>1 DEF PartFits
    <3> QED BY <3>1, <3>3, <3>4
  <2>4. CASE BalanceNothing \/ FetchScores \/ FetchNothing \/ StopPolling \/ CloseQueue
    BY <2>4 DEF BalanceNothing, FetchScores, FetchNothing, StopPolling, CloseQueue, PartFits
  <2> QED BY <2>1, <2>2, <2>3, <2>4
<1>3. StoredAreYielded'
  BY <1>1 DEF StoredAreYielded, Stored
<1>4. Waiting => Waiting'
  BY DEF Waiting, BeginFit, AwaitDispatch, SleepReplicas, BalanceNothing, UpdateActor,
         UpdateWeights, FetchScores, FetchNothing, StopPolling, CloseQueue
<1>5. OpenAreCurrent'
  BY <1>1, <1>4 DEF OpenAreCurrent
<1>6. /\ pc' # "remove"
      /\ part = "val" /\ pc \in {"fetch", "clear"} =>
            (part' = "val" /\ pc' \in {"fetch", "clear"}) \/ batch["val"] = {}
  BY DEF BeginFit, AwaitDispatch, SleepReplicas, BalanceNothing, UpdateActor,
         UpdateWeights, FetchScores, FetchNothing, StopPolling, CloseQueue
<1>7. LooseAreHeld'
  <2> SUFFICES ASSUME NEW k \in Key, Loose(k)'
               PROVE  \/ k \in batch["train"]
                      \/ /\ k[1] \in curUids
                         /\ \/ Waiting'
                            \/ part' = "val" /\ pc' \in {"fetch", "clear"} /\ k \in batch["val"]
    BY <1>1, <1>6 DEF LooseAreHeld
  <2>1. Loose(k)
    BY <1>1 DEF Loose, Stored, PromptOf
  <2> QED BY <1>4, <1>6, <2>1 DEF LooseAreHeld
<1> QED BY <1>2, <1>3, <1>5, <1>7

LEMMA MarkPendingKeepsLeak == CompletenessInv /\ LeakInv /\ MarkPending => LeakInv'
<1> SUFFICES ASSUME CompletenessInv, LeakInv, MarkPending PROVE LeakInv'
  OBVIOUS
<1> DEFINE uids == nextUid .. nextUid + PromptsPerBatch - 1
<1>1. /\ pc = "mark" /\ pc' = "dispatch" /\ uids \subseteq Uid /\ curUids' = uids
      /\ UNCHANGED <<globalSteps, part, batch, session, tq>>
      /\ prompt' = [u \in Uid |->
            IF u \in uids
            THEN [part |-> part, step |-> globalSteps, status |-> "pending"]
            ELSE prompt[u]]
  BY DEF MarkPending
<1>2. \A u \in uids : prompt[u].status = "fresh"
  BY <1>1, RolloutAssumption DEF CompletenessInv, PromptsInOrder, TypeOK
<1>3. ~Waiting /\ Waiting'
  BY <1>1 DEF Waiting
<1>4. \A u \in uids, i \in Slot \ {MarkerSlot} : ~Stored(<<u, i>>)
  <2> HIDE DEF uids
  <2> SUFFICES ASSUME NEW u \in uids, NEW i \in Slot \ {MarkerSlot} PROVE ~Stored(<<u, i>>)
    OBVIOUS
  <2>1. u \in Uid /\ prompt[u].status = "fresh"
    BY <1>1, <1>2
  <2>2. tq[<<u, i>>] = Absent
    BY <2>1 DEF CompletenessInv, TagsTellTruth
  <2> QED BY <2>2 DEF Stored, Absent
<1>5. PartFits'
  BY <1>1 DEF LeakInv, PartFits
<1>6. StoredAreYielded'
  BY <1>1, <1>4 DEF LeakInv, StoredAreYielded, Stored
<1>7. OpenAreCurrent'
  BY <1>1, <1>3 DEF LeakInv, OpenAreCurrent
<1>8. LooseAreHeld'
  <2> SUFFICES ASSUME NEW k \in Key, Loose(k)', k \notin batch["train"] PROVE FALSE
    BY <1>1 DEF LooseAreHeld
  <2>1. k[1] \in Uid /\ k[2] \in Slot /\ k = <<k[1], k[2]>>
    BY KeyShape
  <2>2. Stored(k) /\ k[2] # MarkerSlot
    BY <1>1 DEF Loose, Stored
  <2>3. k[1] \notin uids
    BY <1>4, <2>1, <2>2
  <2>4. Loose(k)
    BY <1>1, <2>1, <2>2, <2>3 DEF Loose, PromptOf
  <2> QED BY <1>1, <1>3, <2>4 DEF LeakInv, LooseAreHeld
<1> QED BY <1>5, <1>6, <1>7, <1>8 DEF LeakInv

\* What is in the queue of a finished prompt is in the batch sampled.
LEMMA SampleBatchKeepsLeak ==
    CompletenessInv /\ CompletenessInv' /\ LeakInv /\ SampleBatch => LeakInv'
<1> SUFFICES ASSUME CompletenessInv, CompletenessInv', LeakInv, SampleBatch PROVE LeakInv'
  OBVIOUS
<1>1. /\ pc = "sample" /\ Waiting /\ ~Waiting'
      /\ pc' = IF part = "train" THEN "sleep" ELSE "fetch"
      /\ UNCHANGED <<globalSteps, part, curUids, prompt, session, tq>>
      /\ \A p \in Partition : p # part => batch'[p] = batch[p]
  BY DEF SampleBatch, Waiting, workerVars, CompletenessInv, TypeOK
<1>2. part \in Partition /\ JustSampled' /\ curUids \subseteq Uid
  BY <1>1 DEF CompletenessInv, TypeOK, JustSampled
<1>3. \A u \in curUids : prompt[u].status \in Resolved
  BY <1>1, <1>2 DEF CompletenessInv, SampledAreResolved
<1>4. PartFits'
  <2>1. PartFits
    BY DEF LeakInv
  <2>2. CASE part = "train"
    BY <1>1, <2>1, <2>2 DEF PartFits
  <2>3. CASE part = "val"
    BY <1>1, <2>1, <2>3 DEF PartFits, Partition
  <2> QED BY <1>2, <2>2, <2>3 DEF Partition
<1>5. StoredAreYielded'
  BY <1>1 DEF LeakInv, StoredAreYielded, Stored
<1>6. OpenAreCurrent'
  BY <1>1, <1>3 DEF LeakInv, OpenAreCurrent, Resolved
<1>7. LooseAreHeld'
  <2> SUFFICES ASSUME NEW k \in Key, Loose(k)'
               PROVE  k \in batch'["train"] \/ (k[1] \in curUids /\ part = "val" /\ k \in batch'["val"])
    BY <1>1, <1>2 DEF LooseAreHeld, Partition
  <2>1. Loose(k)
    BY <1>1 DEF Loose, Stored, PromptOf
  <2>2. CASE k[1] \in curUids
    <3>1. k[1] \in Uid /\ k[2] \in Slot \ {MarkerSlot} /\ k = <<k[1], k[2]>>
      BY <2>1, KeyShape DEF Loose
    <3>2. prompt[k[1]].status = "finished"
      BY <1>3, <2>1, <2>2 DEF Loose, PromptOf, Resolved
    <3>3. k[2] \in Session /\ session[k[1]][k[2]] = "stored"
      BY <2>1, <3>1, <3>2 DEF Loose, LeakInv, StoredAreYielded
    <3>4. <<k[1], k[2]>> \in batch'[part]
      BY <1>1, <1>2, <2>2, <3>2, <3>3 DEF CompletenessInv, SampleIsComplete
    <3>5. k \in batch'[part]
      BY <3>1, <3>4
    <3> QED BY <1>2, <2>2, <3>5 DEF Partition
  <2>3. CASE k[1] \notin curUids
    <3>1. k \in batch["train"]
      BY <2>1, <2>3 DEF LeakInv, LooseAreHeld
    <3>2. part = "val"
      BY <1>1, <1>2, <3>1 DEF LeakInv, PartFits, Partition
    <3> QED BY <1>1, <3>1, <3>2 DEF Partition
  <2> QED BY <2>2, <2>3
<1> QED BY <1>4, <1>5, <1>6, <1>7 DEF LeakInv

LEMMA BalanceBatchKeepsLeak == CompletenessInv /\ LeakInv /\ BalanceBatch => LeakInv'
<1> SUFFICES ASSUME CompletenessInv, LeakInv, BalanceBatch PROVE LeakInv'
  OBVIOUS
<1> DEFINE pads == {<<nextUid, i>> : i \in 1 .. PadCount(batch["train"])}
<1>1. /\ pc = "balance" /\ pc' = "update" /\ pads \subseteq Key
      /\ batch' = [batch EXCEPT !["train"] = @ \cup pads]
      /\ tq' = Overwrite(tq, pads, StepTag(globalSteps, "success"))
      /\ \A u \in Uid : prompt'[u] = prompt[u] \/
            (u = nextUid /\ prompt'[u].status = "padding" /\ pads # {})
      /\ pads # {} => prompt'[nextUid].status = "padding"
      /\ UNCHANGED <<globalSteps, part, curUids, session>>
  <2>1. pads # {} => nextUid \in Uid
    BY DEF BalanceBatch, Key
  <2>2. prompt' = prompt \/
          (pads # {} /\ prompt' = [prompt EXCEPT ![nextUid] =
                           [part |-> "train", step |-> globalSteps, status |-> "padding"]])
    BY DEF BalanceBatch
  <2>3. pads # {} => prompt'[nextUid].status = "padding"
    BY <2>1 DEF BalanceBatch, CompletenessInv, TypeOK
  <2>4. \A u \in Uid : prompt'[u] = prompt[u] \/
            (u = nextUid /\ prompt'[u].status = "padding" /\ pads # {})
    BY <2>1, <2>2 DEF CompletenessInv, TypeOK
  <2> QED BY <2>3, <2>4 DEF BalanceBatch, PutPadding
<1>2. \A k \in pads : k[1] = nextUid /\ k[2] # MarkerSlot
  BY DEF MarkerSlot
<1>3. \A k \in Key : tq'[k] = IF k \in pads THEN StepTag(globalSteps, "success") ELSE tq[k]
  BY <1>1 DEF Overwrite
<1>4. batch'["val"] = batch["val"] /\ batch'["train"] = batch["train"] \cup pads
  BY <1>1 DEF CompletenessInv, TypeOK, Partition
<1>5. part = "train" /\ ~Waiting /\ ~Waiting'
  BY <1>1 DEF LeakInv, PartFits, Waiting
<1>6. nextUid \in Uid => prompt[nextUid].status = "fresh"
  BY DEF CompletenessInv, PromptsInOrder, TypeOK
<1> HIDE DEF pads
<1>7. PartFits'
  BY <1>1, <1>5 DEF LeakInv, PartFits
<1>8. StoredAreYielded'
  <2> SUFFICES ASSUME NEW u \in Uid, NEW i \in Slot \ {MarkerSlot}, Stored(<<u, i>>)',
                      prompt'[u].status # "padding"
               PROVE  i \in Session /\ session[u][i] = "stored"
    BY <1>1 DEF StoredAreYielded
  <2>1. <<u, i>> \in Key /\ <<u, i>>[1] = u
    BY KeyShape
  <2>2. prompt'[u] = prompt[u] /\ <<u, i>> \notin pads
    BY <1>1, <1>2, <2>1
  <2>3. Stored(<<u, i>>)
    BY <1>3, <2>1, <2>2 DEF Stored
  <2> QED BY <2>2, <2>3 DEF LeakInv, StoredAreYielded
<1>9. OpenAreCurrent'
  BY <1>1, <1>5 DEF LeakInv, OpenAreCurrent
<1>10. LooseAreHeld'
  <2> SUFFICES ASSUME NEW k \in Key, Loose(k)', k \notin pads PROVE k \in batch["train"]
    BY <1>1, <1>4 DEF LooseAreHeld
  <2>1. k[1] \in Uid /\ k[2] \in Slot /\ k = <<k[1], k[2]>>
    BY KeyShape
  <2>2. Stored(k) /\ k[2] # MarkerSlot
    BY <1>3 DEF Loose, Stored
  <2>3. Loose(k)
    <3>1. CASE prompt'[k[1]] = prompt[k[1]]
      BY <2>2, <3>1 DEF Loose, PromptOf
    <3>2. CASE k[1] = nextUid
      BY <1>6, <2>1, <2>2, <3>2 DEF Loose, PromptOf
    <3> QED BY <1>1, <2>1, <3>1, <3>2
  <2> QED BY <1>1, <1>5, <2>3 DEF LeakInv, LooseAreHeld
<1> QED BY <1>7, <1>8, <1>9, <1>10 DEF LeakInv

LEMMA ClearStoredKeepsLeak == TypeOK /\ LeakInv /\ ClearStored => LeakInv'
<1> SUFFICES ASSUME TypeOK, LeakInv, ClearStored PROVE LeakInv'
  OBVIOUS
<1>1. /\ pc = "clear" /\ pc' = "remove" /\ ~Waiting /\ ~Waiting'
      /\ \A k \in Key : tq'[k] = IF k \in batch[part] THEN Absent ELSE tq[k]
      /\ UNCHANGED <<globalSteps, part, curUids, batch, prompt, session>>
  BY DEF ClearStored, Overwrite, CleanupKeys, workerVars, Waiting
<1>2. \A k \in Key : Stored(k)' => Stored(k) /\ k \notin batch[part]
  BY <1>1 DEF Stored, Absent
<1>3. PartFits'
  BY <1>1 DEF LeakInv, PartFits
<1>4. StoredAreYielded'
  BY <1>1, <1>2, KeyShape DEF LeakInv, StoredAreYielded
<1>5. OpenAreCurrent'
  BY <1>1 DEF LeakInv, OpenAreCurrent
<1>6. LooseAreHeld'
  <2> SUFFICES ASSUME NEW k \in Key, Loose(k)'
               PROVE  k \in batch["train"] /\ part # "train"
    BY <1>1 DEF LooseAreHeld
  <2>1. Loose(k) /\ k \notin batch[part]
    BY <1>1, <1>2 DEF Loose, PromptOf
  <2> QED BY <1>1, <2>1 DEF LeakInv, LooseAreHeld, TypeOK, Partition
<1> QED BY <1>3, <1>4, <1>5, <1>6 DEF LeakInv

LEMMA RemoveBufferedKeepsLeak == TypeOK /\ LeakInv /\ RemoveBuffered => LeakInv'
<1> SUFFICES ASSUME TypeOK, LeakInv, RemoveBuffered PROVE LeakInv'
  OBVIOUS
<1>1. /\ pc = "remove" /\ pc' \in {"mark", "closing", "clear"} /\ ~Waiting /\ ~Waiting'
      /\ batch' = [batch EXCEPT ![part] = {}]
      /\ UNCHANGED <<curUids, prompt, session, tq>>
  BY DEF RemoveBuffered, workerVars, Waiting
<1>2. /\ part = "train" => batch'["train"] = {} /\ part' = "train" /\ pc' # "clear"
                           /\ globalSteps' \in {globalSteps, globalSteps + 1}
      /\ part = "val" => batch'["train"] = batch["train"]
  BY DEF RemoveBuffered, TypeOK, Partition
<1>3. globalSteps \in Nat
  BY RolloutAssumption DEF TypeOK, Step
<1>4. part = "val" =>
        \/ part' = "val" /\ pc' = "mark" /\ globalSteps' = globalSteps
        \/ part' = "train" /\ pc' = "mark" /\ globalSteps = 0 /\ globalSteps' = 1
        \/ part' = "train" /\ pc' = "clear" /\ globalSteps # 0 /\ globalSteps' = globalSteps
  BY DEF RemoveBuffered
<1>5. PartFits'
  <2>1. CASE part = "train"
    <3>1. globalSteps # 0
      BY <1>1, <2>1 DEF LeakInv, PartFits
    <3>2. globalSteps' # 0
      BY <1>2, <1>3, <2>1, <3>1
    <3> QED BY <1>1, <1>2, <2>1, <3>2 DEF PartFits
  <2>2. CASE part = "val"
    BY <1>1, <1>2, <1>4, <2>2 DEF LeakInv, PartFits
  <2> QED BY <2>1, <2>2 DEF TypeOK, Partition
<1>6. StoredAreYielded'
  BY <1>1 DEF LeakInv, StoredAreYielded, Stored
<1>7. OpenAreCurrent'
  BY <1>1 DEF LeakInv, OpenAreCurrent
<1>8. LooseAreHeld'
  <2> SUFFICES ASSUME NEW k \in Key, Loose(k)' PROVE k \in batch'["train"]
    BY <1>1 DEF LooseAreHeld
  <2>1. Loose(k)
    BY <1>1 DEF Loose, Stored, PromptOf
  <2>2. part # "train" /\ k \in batch["train"]
    BY <1>1, <2>1 DEF LeakInv, LooseAreHeld
  <2> QED BY <1>2, <2>2 DEF TypeOK, Partition
<1> QED BY <1>5, <1>6, <1>7, <1>8 DEF LeakInv

LEMMA WorkerKeepsLeak == CompletenessInv /\ LeakInv /\ Worker => LeakInv'
<1> SUFFICES ASSUME CompletenessInv, LeakInv, NEW u \in Uid,
                    \/ StartPrompt(u) \/ FinishPrompt(u) \/ FailPrompt(u)
                    \/ \E s \in Session : Generate(u, s) \/ PutOutputs(u, s)
                                          \/ PutNothing(u, s) \/ FailSession(u, s)
             PROVE  LeakInv'
  BY DEF Worker
<1>0. UNCHANGED driverVars /\ Waiting' = Waiting
  BY DEF StartPrompt, FinishPrompt, FailPrompt, Generate, PutOutputs, PutNothing, FailSession,
         Waiting, driverVars
<1>1. PartFits'
  BY <1>0 DEF LeakInv, PartFits, driverVars
<1> USE DEF driverVars
<1>2. CASE StartPrompt(u)
  <2>1. /\ prompt[u].status = "pending" /\ tq' = tq
        /\ prompt' = [prompt EXCEPT ![u].status = "running"]
        /\ session' = [session EXCEPT ![u] = [s \in Session |-> "generating"]]
    BY <1>2 DEF StartPrompt
  <2>2. /\ prompt'[u].status = "running"
        /\ \A v \in Uid : v # u => prompt'[v] = prompt[v] /\ session'[v] = session[v]
    BY <2>1 DEF CompletenessInv, TypeOK
  <2>3. \A i \in Slot \ {MarkerSlot} : ~Stored(<<u, i>>)
    BY <2>1 DEF CompletenessInv, PromptsInOrder, LeakInv, StoredAreYielded
  <2>4. StoredAreYielded'
    BY <2>1, <2>2, <2>3 DEF LeakInv, StoredAreYielded, Stored
  <2>5. OpenAreCurrent'
    BY <1>0, <2>1, <2>2 DEF LeakInv, OpenAreCurrent
  <2>6. \A k \in Key : Loose(k)' => Loose(k)
    BY <2>1, <2>2, KeyShape DEF Loose, PromptOf, Stored
  <2>7. LooseAreHeld'
    BY <1>0, <2>6 DEF LeakInv, LooseAreHeld
  <2> QED BY <1>1, <2>4, <2>5, <2>7 DEF LeakInv
<1>3. CASE FinishPrompt(u) \/ FailPrompt(u)
  <2>1. PICK st \in Resolved :
          /\ prompt[u].status = "running" /\ session' = session
          /\ prompt' = [prompt EXCEPT ![u].status = st]
          /\ tq' = [tq EXCEPT ![Marker(u)] = MarkerTag(st)]
    BY <1>3 DEF FinishPrompt, FailPrompt, Resolved
  <2>2. /\ prompt'[u].status \in Resolved
        /\ \A v \in Uid : v # u => prompt'[v] = prompt[v]
    BY <2>1 DEF CompletenessInv, TypeOK
  <2>3. \A k \in Key : k[2] # MarkerSlot => tq'[k] = tq[k]
    BY <2>1, KeyShape DEF CompletenessInv, TypeOK, Marker
  <2>4. StoredAreYielded'
    BY <2>1, <2>2, <2>3, KeyShape DEF LeakInv, StoredAreYielded, Stored
  <2>5. OpenAreCurrent'
    BY <1>0, <2>1, <2>2 DEF LeakInv, OpenAreCurrent, Resolved
  <2>6. \A k \in Key : Loose(k)' => Loose(k)
    BY <2>1, <2>2, <2>3, KeyShape DEF Loose, PromptOf, Stored
  <2>7. LooseAreHeld'
    BY <1>0, <2>6 DEF LeakInv, LooseAreHeld
  <2> QED BY <1>1, <2>4, <2>5, <2>7 DEF LeakInv
<1>4. ASSUME NEW s \in Session, PutOutputs(u, s) PROVE LeakInv'
  <2>1. /\ session[u][s] = "scoring" /\ prompt' = prompt
        /\ session' = [session EXCEPT ![u][s] = "stored"]
        /\ tq' = [tq EXCEPT ![<<u, s>>] = StepTag(prompt[u].step, "success")]
    BY <1>4 DEF PutOutputs
  <2>2. \A v \in Uid, r \in Session :
          session'[v][r] = IF v = u /\ r = s THEN "stored" ELSE session[v][r]
    BY <2>1 DEF CompletenessInv, TypeOK
  <2>3. \A k \in Key : k # <<u, s>> => tq'[k] = tq[k]
    BY <2>1 DEF CompletenessInv, TypeOK
  <2>4. StoredAreYielded'
    <3> SUFFICES ASSUME NEW v \in Uid, NEW i \in Slot \ {MarkerSlot}, Stored(<<v, i>>)'
                 PROVE  prompt[v].status = "padding" \/ (i \in Session /\ session'[v][i] = "stored")
      BY <2>1 DEF StoredAreYielded
    <3>1. CASE v = u /\ i = s
      BY <2>2, <3>1
    <3>2. CASE ~(v = u /\ i = s)
      <4>1. <<v, i>> \in Key /\ <<v, i>> # <<u, s>>
        BY <3>2, KeyShape
      <4>2. Stored(<<v, i>>)
        BY <2>3, <4>1 DEF Stored
      <4> QED BY <2>2, <4>2 DEF LeakInv, StoredAreYielded
    <3> QED BY <3>1, <3>2
  <2>5. OpenAreCurrent'
    BY <1>0, <2>1 DEF LeakInv, OpenAreCurrent
  <2>6. prompt[u].status \in {"running", "failure"}
    <3>1. prompt[u].status \in PromptStatus
      BY DEF CompletenessInv, TypeOK
    <3> QED BY <2>1, <3>1 DEF CompletenessInv, PromptsInOrder, AllSessionsOver, PromptStatus
  <2>7. LooseAreHeld'
    <3> SUFFICES ASSUME NEW k \in Key, Loose(k)'
                 PROVE  \/ k \in batch["train"] /\ ~(pc = "remove" /\ part = "train")
                        \/ /\ k[1] \in curUids
                           /\ \/ Waiting
                              \/ part = "val" /\ pc \in {"fetch", "clear"} /\ k \in batch["val"]
      BY <1>0 DEF LooseAreHeld
    <3>1. CASE k = <<u, s>>
      <4>1. prompt[u].status = "running" /\ k[1] = u
        BY <2>1, <2>6, <3>1, KeyShape DEF Loose, PromptOf
      <4> QED BY <4>1 DEF LeakInv, OpenAreCurrent
    <3>2. CASE k # <<u, s>>
      <4>1. Loose(k)
        BY <2>1, <2>3, <3>2 DEF Loose, Stored, PromptOf
      <4> QED BY <4>1 DEF LeakInv, LooseAreHeld
    <3> QED BY <3>1, <3>2
  <2> QED BY <1>1, <2>4, <2>5, <2>7 DEF LeakInv
<1>5. ASSUME NEW s \in Session, Generate(u, s) \/ PutNothing(u, s) \/ FailSession(u, s)
      PROVE  LeakInv'
  <2>1. PICK st \in {"scoring", "empty", "failed"} :
          /\ session[u][s] \in {"generating", "scoring"} /\ UNCHANGED <<prompt, tq>>
          /\ session' = [session EXCEPT ![u][s] = st]
    BY <1>5 DEF Generate, PutNothing, FailSession
  <2>2. \A v \in Uid, r \in Session : session[v][r] = "stored" => session'[v][r] = "stored"
    BY <2>1 DEF CompletenessInv, TypeOK
  <2>3. StoredAreYielded'
    BY <2>1, <2>2 DEF LeakInv, StoredAreYielded, Stored
  <2>4. OpenAreCurrent'
    BY <1>0, <2>1 DEF LeakInv, OpenAreCurrent
  <2>5. LooseAreHeld'
    BY <1>0, <2>1 DEF LeakInv, LooseAreHeld, Loose, Stored, PromptOf
  <2> QED BY <1>1, <2>3, <2>4, <2>5 DEF LeakInv
<1> QED BY <1>2, <1>3, <1>4, <1>5

LEMMA NextLeak == CompletenessInv /\ CompletenessInv' /\ LeakInv /\ [Next]_vars => LeakInv'
<1> SUFFICES ASSUME CompletenessInv, CompletenessInv', LeakInv, [Next]_vars PROVE LeakInv'
  OBVIOUS
<1>1. TypeOK
  BY DEF CompletenessInv
<1>2. CASE Driver
  BY <1>1, <1>2, MovingOnKeepsLeak, MarkPendingKeepsLeak, SampleBatchKeepsLeak,
     BalanceBatchKeepsLeak, ClearStoredKeepsLeak, RemoveBufferedKeepsLeak DEF Driver
<1>3. CASE Worker
  BY <1>3, WorkerKeepsLeak
<1>4. CASE Poller \/ UNCHANGED vars
  <2>1. UNCHANGED <<driverVars, workerVars, tq>>
    BY <1>4 DEF Poller, PollCheck, PollList, PollAdd, vars
  <2> QED BY <2>1 DEF driverVars, workerVars, LeakInv, PartFits, StoredAreYielded, Stored,
                      OpenAreCurrent, Waiting, LooseAreHeld, Loose, PromptOf
<1> QED BY <1>2, <1>3, <1>4 DEF Next, Terminated

LEMMA LeakInvariant == Spec => []LeakInv
BY CompletenessInvariant, InitLeak, NextLeak, PTL DEF Spec

\* Whatever is abandoned by gather or comes late, the cleanup after a batch frees all
\* it read: only outputs of failed prompts are left in the TransferQueue for good.
THEOREM OnlyLateOutputsEverLeak == Spec => []OnlyLateOutputsLeak
<1>1. LeakInv => OnlyLateOutputsLeak
  BY DEF LeakInv, LooseAreHeld, Loose, OnlyLateOutputsLeak
<1> QED BY <1>1, LeakInvariant, PTL
-----------------------------------------------------------------------------
(* What a batch holds                                                      *)

\* One batch a step: training always, validation when its data loader has one.
OneBatch(p) == p = "train" \/ ValBatches = 1 \/ ~(ValBeforeTrain \/ TestFreq > 0)

\* This step has not been validated.
NoValidationYet ==
    \/ part = "val" /\ pc = "mark"
    \/ part = "train" /\ pc \in {"mark", "dispatch", "sample", "sleep", "balance", "update", "weights"}

\* A batch is the first of its partition and step, so sample() sees no other.
StepsInOrder ==
    \A u \in Uid : prompt[u].status # "fresh" =>
        /\ pc # "start"
        /\ prompt[u].step <= globalSteps
        /\ prompt[u].part = "train" /\ part = "train" /\ pc = "mark"
              => prompt[u].step < globalSteps
        /\ prompt[u].part = "val" /\ OneBatch("val") /\ NoValidationYet
              => prompt[u].step < globalSteps
        /\ Waiting /\ OneBatch(part) /\ prompt[u].part = part /\ prompt[u].step = globalSteps
              => u \in curUids

\* What the replay buffer has of an output, however old, is its step and success.
BufferTellsTruth ==
    \A u \in Uid, i \in Slot \ {MarkerSlot} :
        \/ rb[<<u, i>>] = Absent
        \/ prompt[u].status # "fresh" /\ rb[<<u, i>>] = StepTag(prompt[u].step, "success")

\* Nothing of the batch that is waited for has been cleared.
CurrentAreStored ==
    Waiting => \A u \in curUids, i \in Slot \ {MarkerSlot} :
        snapshot[<<u, i>>] # Absent \/ rb[<<u, i>>] # Absent => Stored(<<u, i>>)

HeldAreStored ==
    \A p \in Partition : \A k \in batch[p] :
        /\ PromptOf(k).status # "fresh" /\ PromptOf(k).part = p
        /\ OneBatch(p) /\ ~(pc = "remove" /\ part = p) => Stored(k)

\* No output is used twice, and none of another batch.
UsedInOrder ==
    /\ \A k \in Key : used[k] > 0 => PromptOf(k).status # "fresh"
    /\ Waiting \/ JustSampled => curUids # {}
    /\ Waiting => \A u \in curUids, i \in Slot : used[<<u, i>>] = 0
    /\ JustSampled /\ OneBatch(part) => \A k \in batch[part] :
          used[k] = 0 /\ (PromptOf(k).status = "padding" \/ k[1] \in curUids)

HeldInv == StepsInOrder /\ BufferTellsTruth /\ CurrentAreStored /\ HeldAreStored /\ UsedInOrder


LEMMA StepNumbers ==
    TypeOK => globalSteps \in Nat /\ \A u \in Uid : prompt[u].step \in Nat
BY RolloutAssumption DEF TypeOK, Step

LEMMA InitHeld == Init => HeldInv
<1> SUFFICES ASSUME Init PROVE HeldInv
  OBVIOUS
<1>1. \A u \in Uid : prompt[u].status = "fresh"
  BY DEF Init, FreshPrompt
<1>2. pc = "start" /\ batch = [p \in Partition |-> {}]
      /\ \A k \in Key : rb[k] = Absent /\ used[k] = 0
  BY DEF Init
<1>3. StepsInOrder
  BY <1>1 DEF StepsInOrder
<1>4. BufferTellsTruth
  BY <1>2, KeyShape DEF BufferTellsTruth
<1>5. CurrentAreStored /\ HeldAreStored
  BY <1>2 DEF CurrentAreStored, HeldAreStored, Waiting
<1>6. UsedInOrder
  BY <1>2 DEF UsedInOrder, Waiting, JustSampled
<1> QED BY <1>3, <1>4, <1>5, <1>6 DEF HeldInv

\* Steps of the driver that change no batch, queue, buffer or prompt.
LEMMA MovingOnKeepsHeld ==
    ASSUME CompletenessInv, LeakInv, HeldInv,
           \/ BeginFit \/ AwaitDispatch \/ SleepReplicas \/ BalanceNothing \/ UpdateActor
           \/ UpdateWeights \/ FetchScores \/ FetchNothing \/ StopPolling \/ CloseQueue
    PROVE  HeldInv'
<1> USE DEF HeldInv
<1>1. /\ UNCHANGED <<prompt, tq, rb, snapshot, curUids, batch>>
      /\ pc # "remove" /\ pc' \notin {"start", "remove"} /\ (Waiting' => Waiting)
  BY DEF BeginFit, AwaitDispatch, SleepReplicas, BalanceNothing, UpdateActor, UpdateWeights,
         FetchScores, FetchNothing, StopPolling, CloseQueue, workerVars, pollVars, Waiting
<1>2. \/ pc = "start"
      \/ /\ globalSteps' = globalSteps
         /\ NoValidationYet' => NoValidationYet
         /\ Waiting' => part' = part
         /\ JustSampled' => JustSampled /\ part' = part /\ used' = used
         /\ ~(pc' = "mark" /\ part' = "train")
  <2>1. CASE BeginFit
    BY <2>1 DEF BeginFit
  <2>2. CASE UpdateWeights
    <3>1. pc = "weights" /\ part = "train" /\ globalSteps' = globalSteps
          /\ (pc' = "clear" \/ (pc' = "mark" /\ part' = "val"))
      BY <2>2 DEF UpdateWeights, LeakInv, PartFits
    <3> QED BY <3>1 DEF NoValidationYet, Waiting, JustSampled
  <2>3. CASE AwaitDispatch \/ SleepReplicas
    BY <2>3 DEF AwaitDispatch, SleepReplicas, NoValidationYet, Waiting, JustSampled
  <2>4. CASE UpdateActor
    BY <2>4 DEF UpdateActor, NoValidationYet, Waiting, JustSampled
  <2>5. CASE BalanceNothing \/ FetchScores \/ FetchNothing \/ StopPolling \/ CloseQueue
    BY <2>5 DEF BalanceNothing, FetchScores, FetchNothing, StopPolling, CloseQueue,
                NoValidationYet, Waiting, JustSampled
  <2> QED BY <2>1, <2>2, <2>3, <2>4, <2>5
<1>3. StepsInOrder'
  <2>1. CASE pc = "start"
    BY <1>1, <2>1 DEF StepsInOrder
  <2>2. CASE pc # "start"
    BY <1>1, <1>2, <2>2 DEF StepsInOrder
  <2> QED BY <2>1, <2>2
<1>4. BufferTellsTruth'
  BY <1>1 DEF BufferTellsTruth
<1>5. CurrentAreStored'
  BY <1>1 DEF CurrentAreStored, Stored
<1>6. HeldAreStored'
  BY <1>1 DEF HeldAreStored, Stored, PromptOf
<1>7. UsedInOrder'
  <2>1. \A k \in Key : used'[k] > 0 =>
            used[k] > 0 \/ k \in batch["train"] \/ k \in batch["val"]
    BY DEF BeginFit, AwaitDispatch, SleepReplicas, BalanceNothing, UpdateActor, UpdateWeights,
           FetchScores, FetchNothing, StopPolling, CloseQueue
  <2>2. \A k \in Key : used'[k] > 0 => PromptOf(k).status # "fresh"
    BY <2>1 DEF UsedInOrder, HeldAreStored, Partition
  <2>3. Waiting' => used' = used
    BY DEF BeginFit, AwaitDispatch, SleepReplicas, BalanceNothing, UpdateActor, UpdateWeights,
           FetchScores, FetchNothing, StopPolling, CloseQueue, Waiting
  <2>4. pc = "start" => ~Waiting' /\ ~JustSampled'
    BY DEF BeginFit, AwaitDispatch, SleepReplicas, BalanceNothing, UpdateActor, UpdateWeights,
           FetchScores, FetchNothing, StopPolling, CloseQueue, Waiting, JustSampled
  <2>5. (\A k \in Key : used[k] > 0 => PromptOf(k).status # "fresh")'
    BY <1>1, <2>2 DEF PromptOf
  <2>6. (Waiting \/ JustSampled => curUids # {})'
    BY <1>1, <1>2, <2>4 DEF UsedInOrder
  <2>7. (Waiting => \A u \in curUids, i \in Slot : used[<<u, i>>] = 0)'
    BY <1>1, <2>3 DEF UsedInOrder
  <2>8. (JustSampled /\ OneBatch(part) => \A k \in batch[part] :
            used[k] = 0 /\ (PromptOf(k).status = "padding" \/ k[1] \in curUids))'
    BY <1>1, <1>2, <2>4 DEF UsedInOrder, PromptOf, OneBatch
  <2> QED BY <2>5, <2>6, <2>7, <2>8 DEF UsedInOrder
<1> QED BY <1>3, <1>4, <1>5, <1>6, <1>7

LEMMA MarkPendingKeepsHeld ==
    CompletenessInv /\ LeakInv /\ HeldInv /\ MarkPending => HeldInv'
<1> SUFFICES ASSUME CompletenessInv, LeakInv, HeldInv, MarkPending PROVE HeldInv'
  OBVIOUS
<1> DEFINE uids == nextUid .. nextUid + PromptsPerBatch - 1
<1>1. /\ pc = "mark" /\ pc' = "dispatch" /\ uids \subseteq Uid /\ curUids' = uids
      /\ UNCHANGED <<globalSteps, part, batch, tq, snapshot, used>>
      /\ \A u \in Uid : prompt'[u] = IF u \in uids
            THEN [part |-> part, step |-> globalSteps, status |-> "pending"]
            ELSE prompt[u]
      /\ \A k \in Key : k[2] # MarkerSlot => rb'[k] = rb[k]
  BY DEF MarkPending, pollVars
<1>2. \A u \in uids : prompt[u].status = "fresh"
  BY <1>1, RolloutAssumption DEF CompletenessInv, PromptsInOrder, TypeOK
<1>3. uids # {}
  <2>1. nextUid \in uids
    BY RolloutAssumption DEF CompletenessInv, TypeOK
  <2> QED BY <2>1
<1> HIDE DEF uids
<1>4. StepsInOrder'
  <2> SUFFICES ASSUME NEW u \in Uid, prompt'[u].status # "fresh"
               PROVE  /\ pc' # "start"
                      /\ prompt'[u].step <= globalSteps
                      /\ prompt'[u].part = "val" /\ OneBatch("val") /\ NoValidationYet'
                            => prompt'[u].step < globalSteps
                      /\ OneBatch(part) /\ prompt'[u].part = part
                            /\ prompt'[u].step = globalSteps => u \in uids
    BY <1>1 DEF StepsInOrder
  <2>1. globalSteps \in Nat /\ prompt[u].step \in Nat /\ part \in Partition
    BY StepNumbers DEF CompletenessInv, TypeOK
  <2>2. NoValidationYet' <=> part = "train"
    BY <1>1, <2>1 DEF NoValidationYet, Partition
  <2>3. CASE u \in uids
    <3>1. prompt'[u] = [part |-> part, step |-> globalSteps, status |-> "pending"]
      BY <1>1, <2>3
    <3> QED BY <1>1, <2>1, <2>2, <2>3, <3>1
  <2>4. CASE u \notin uids
    <3>1. prompt'[u] = prompt[u] /\ prompt[u].status # "fresh"
      BY <1>1, <2>4
    <3>2. prompt[u].step <= globalSteps
      BY <3>1 DEF HeldInv, StepsInOrder
    <3>3. NoValidationYet
      BY <1>1, <2>1 DEF NoValidationYet, Partition
    <3>4. prompt[u].part = "val" /\ OneBatch("val") => prompt[u].step < globalSteps
      BY <3>1, <3>3 DEF HeldInv, StepsInOrder
    <3>5. prompt[u].part = "train" /\ part = "train" => prompt[u].step < globalSteps
      BY <1>1, <3>1 DEF HeldInv, StepsInOrder
    <3>6. ~(OneBatch(part) /\ prompt[u].part = part /\ prompt[u].step = globalSteps)
      BY <2>1, <3>4, <3>5 DEF Partition
    <3> QED BY <1>1, <3>1, <3>2, <3>4, <3>6
  <2> QED BY <2>3, <2>4
<1>5. \A u \in uids, i \in Slot \ {MarkerSlot} :
          /\ rb[<<u, i>>] = Absent /\ rb'[<<u, i>>] = Absent
          /\ snapshot[<<u, i>>] = Absent
  <2> SUFFICES ASSUME NEW u \in uids, NEW i \in Slot \ {MarkerSlot}
               PROVE  /\ rb[<<u, i>>] = Absent /\ rb'[<<u, i>>] = Absent
                      /\ snapshot[<<u, i>>] = Absent
    OBVIOUS
  <2>1. u \in Uid /\ prompt[u].status = "fresh"
    BY <1>1, <1>2
  <2>2. rb[<<u, i>>] = Absent
    BY <2>1 DEF HeldInv, BufferTellsTruth
  <2>3. snapshot[<<u, i>>] = Absent
    BY <2>1 DEF CompletenessInv, TagsTellTruth
  <2>4. rb'[<<u, i>>] = rb[<<u, i>>]
    BY <1>1, <2>1, KeyShape
  <2> QED BY <2>2, <2>3, <2>4
<1>6. BufferTellsTruth'
  <2> SUFFICES ASSUME NEW u \in Uid, NEW i \in Slot \ {MarkerSlot}, u \notin uids
               PROVE  \/ rb'[<<u, i>>] = Absent
                      \/ /\ prompt'[u].status # "fresh"
                         /\ rb'[<<u, i>>] = StepTag(prompt'[u].step, "success")
    BY <1>5 DEF BufferTellsTruth
  <2>1. rb'[<<u, i>>] = rb[<<u, i>>] /\ prompt'[u] = prompt[u]
    BY <1>1, KeyShape
  <2> QED BY <2>1 DEF HeldInv, BufferTellsTruth
<1>7. CurrentAreStored'
  BY <1>1, <1>5 DEF CurrentAreStored
<1>8. HeldAreStored'
  <2> SUFFICES ASSUME NEW p \in Partition, NEW k \in batch[p]
               PROVE  /\ PromptOf(k)'.status # "fresh" /\ PromptOf(k)'.part = p
                      /\ OneBatch(p) => Stored(k)
    BY <1>1 DEF HeldAreStored, Stored
  <2>1. k \in Key /\ k[1] \in Uid
    BY KeyShape DEF CompletenessInv, TypeOK
  <2>2. PromptOf(k).status # "fresh" /\ PromptOf(k).part = p /\ (OneBatch(p) => Stored(k))
    BY <1>1 DEF HeldInv, HeldAreStored
  <2>3. PromptOf(k)' = PromptOf(k)
    BY <1>1, <1>2, <2>1, <2>2 DEF PromptOf
  <2> QED BY <2>2, <2>3
<1>9. UsedInOrder'
  <2>1. (\A k \in Key : used[k] > 0 => PromptOf(k).status # "fresh")'
    <3> SUFFICES ASSUME NEW k \in Key, used[k] > 0 PROVE prompt'[k[1]].status # "fresh"
      BY <1>1 DEF PromptOf
    <3>1. k[1] \in Uid /\ prompt[k[1]].status # "fresh"
      BY KeyShape DEF HeldInv, UsedInOrder, PromptOf
    <3> QED BY <1>1, <3>1
  <2>2. \A u \in uids, i \in Slot : used[<<u, i>>] = 0
    <3> SUFFICES ASSUME NEW u \in uids, NEW i \in Slot PROVE used[<<u, i>>] = 0
      OBVIOUS
    <3>1. <<u, i>> \in Key /\ PromptOf(<<u, i>>).status = "fresh"
      BY <1>1, <1>2, KeyShape DEF PromptOf
    <3>2. ~(used[<<u, i>>] > 0) /\ used[<<u, i>>] \in Nat
      BY <3>1 DEF HeldInv, UsedInOrder, CompletenessInv, TypeOK
    <3> QED BY <3>2
  <2>3. ~JustSampled'
    BY <1>1 DEF JustSampled
  <2> QED BY <1>1, <1>3, <2>1, <2>2, <2>3 DEF UsedInOrder
<1> QED BY <1>4, <1>6, <1>7, <1>8, <1>9 DEF HeldInv

\* What sample() returns is of the prompts it waited for, and still stored.
LEMMA SampleBatchKeepsHeld ==
    CompletenessInv /\ LeakInv /\ HeldInv /\ SampleBatch => HeldInv'
<1> SUFFICES ASSUME CompletenessInv, LeakInv, HeldInv, SampleBatch PROVE HeldInv'
  OBVIOUS
<1> DEFINE sampled == {k \in Key : InSample(k) /\ rb[k].status = "success"}
<1>1. /\ pc = "sample" /\ Waiting /\ ~Waiting' /\ part \in Partition
      /\ pc' = IF part = "train" THEN "sleep" ELSE "fetch"
      /\ UNCHANGED <<globalSteps, part, curUids, prompt, tq, rb, snapshot, used>>
      /\ batch'[part] = sampled
      /\ \A p \in Partition : p # part => batch'[p] = batch[p]
  BY DEF SampleBatch, Waiting, workerVars, pollVars, CompletenessInv, TypeOK
<1>2. ASSUME NEW k \in sampled
      PROVE  /\ PromptOf(k).status # "fresh" /\ PromptOf(k).part = part
             /\ OneBatch(part) => k[1] \in curUids /\ Stored(k) /\ used[k] = 0
  <2>1. /\ k \in Key /\ k[1] \in Uid /\ k[2] \in Slot /\ k = <<k[1], k[2]>>
        /\ PromptOf(k).part = part /\ rb[k].gs = globalSteps /\ rb[k].status = "success"
    BY KeyShape DEF InSample
  <2>2. k[2] # MarkerSlot
    BY <2>1 DEF CompletenessInv, MarkersTellTruth, Marker
  <2>3. /\ prompt[k[1]].status # "fresh"
        /\ rb[<<k[1], k[2]>>] = StepTag(prompt[k[1]].step, "success")
    <3>1. rb[<<k[1], k[2]>>] # Absent
      BY <2>1 DEF Absent
    <3> QED BY <2>1, <2>2, <3>1 DEF HeldInv, BufferTellsTruth
  <2>4. prompt[k[1]].step = globalSteps
    BY <2>1, <2>3 DEF StepTag
  <2>5. ASSUME OneBatch(part) PROVE k[1] \in curUids /\ Stored(k) /\ used[k] = 0
    <3>1. k[1] \in curUids
      BY <1>1, <2>1, <2>3, <2>4, <2>5 DEF HeldInv, StepsInOrder, PromptOf
    <3>2. rb[<<k[1], k[2]>>] # Absent
      BY <2>3 DEF StepTag, Absent
    <3>3. Stored(<<k[1], k[2]>>) /\ used[<<k[1], k[2]>>] = 0
      BY <1>1, <2>1, <2>2, <3>1, <3>2 DEF HeldInv, CurrentAreStored, UsedInOrder
    <3> QED BY <2>1, <3>1, <3>3
  <2> QED BY <2>1, <2>3, <2>5 DEF PromptOf
<1> HIDE DEF sampled
<1>3. StepsInOrder'
  BY <1>1 DEF HeldInv, StepsInOrder, NoValidationYet
<1>4. BufferTellsTruth' /\ CurrentAreStored'
  BY <1>1 DEF HeldInv, BufferTellsTruth, CurrentAreStored
<1>5. HeldAreStored'
  <2> SUFFICES ASSUME NEW p \in Partition, NEW k \in batch'[p]
               PROVE  /\ PromptOf(k).status # "fresh" /\ PromptOf(k).part = p
                      /\ OneBatch(p) => Stored(k)
    BY <1>1 DEF HeldAreStored, Stored, PromptOf
  <2>1. CASE p = part
    BY <1>1, <1>2, <2>1
  <2>2. CASE p # part
    BY <1>1, <2>2 DEF HeldInv, HeldAreStored
  <2> QED BY <2>1, <2>2
<1>6. UsedInOrder'
  BY <1>1, <1>2 DEF HeldInv, UsedInOrder, PromptOf
<1> QED BY <1>3, <1>4, <1>5, <1>6 DEF HeldInv

LEMMA BalanceBatchKeepsHeld ==
    CompletenessInv /\ LeakInv /\ HeldInv /\ BalanceBatch => HeldInv'
<1> SUFFICES ASSUME CompletenessInv, LeakInv, HeldInv, BalanceBatch PROVE HeldInv'
  OBVIOUS
<1> DEFINE pads == {<<nextUid, i>> : i \in 1 .. PadCount(batch["train"])}
           padding == [part |-> "train", step |-> globalSteps, status |-> "padding"]
<1>1. /\ pc = "balance" /\ pc' = "update" /\ pads \subseteq Key
      /\ batch' = [batch EXCEPT !["train"] = @ \cup pads]
      /\ tq' = Overwrite(tq, pads, StepTag(globalSteps, "success"))
      /\ prompt' = prompt \/ (pads # {} /\ prompt' = [prompt EXCEPT ![nextUid] = padding])
      /\ pads # {} => prompt' = [prompt EXCEPT ![nextUid] = padding]
      /\ UNCHANGED <<globalSteps, part, curUids, rb, snapshot, used>>
  BY DEF BalanceBatch, PutPadding, pollVars
<1>2. \A k \in pads : k[1] = nextUid /\ k[2] # MarkerSlot
  BY DEF MarkerSlot
<1>3. pads # {} => nextUid \in Uid
  BY <1>1 DEF Key
<1>4. \A k \in Key : tq'[k] = IF k \in pads THEN StepTag(globalSteps, "success") ELSE tq[k]
  BY <1>1 DEF Overwrite
<1>5. batch'["val"] = batch["val"] /\ batch'["train"] = batch["train"] \cup pads
  BY <1>1 DEF CompletenessInv, TypeOK, Partition
<1>6. part = "train" /\ ~Waiting' /\ JustSampled
  BY <1>1 DEF LeakInv, PartFits, Waiting, JustSampled
<1>7. nextUid \in Uid => prompt[nextUid].status = "fresh"
  BY DEF CompletenessInv, PromptsInOrder, TypeOK
<1> HIDE DEF pads
<1>8. \A u \in Uid : prompt'[u] = prompt[u] \/
          (u = nextUid /\ pads # {} /\ prompt[u].status = "fresh" /\ prompt'[u] = padding)
  BY <1>1, <1>3, <1>7 DEF CompletenessInv, TypeOK
<1>9. \A k \in pads : PromptOf(k)' = padding /\ Stored(k)' /\ used[k] = 0
  <2> SUFFICES ASSUME NEW k \in pads PROVE PromptOf(k)' = padding /\ Stored(k)' /\ used[k] = 0
    OBVIOUS
  <2>1. k \in Key /\ k[1] = nextUid /\ nextUid \in Uid /\ prompt'[nextUid] = padding
    BY <1>1, <1>2, <1>3 DEF CompletenessInv, TypeOK
  <2>2. used[k] \in Nat /\ ~(used[k] > 0)
    BY <1>7, <2>1 DEF HeldInv, UsedInOrder, PromptOf, CompletenessInv, TypeOK
  <2> QED BY <1>4, <2>1, <2>2 DEF PromptOf, Stored, StepTag
<1>10. \A k \in Key : PromptOf(k).status # "fresh" => PromptOf(k)' = PromptOf(k)
  BY <1>8, KeyShape DEF PromptOf
<1>11. \A k \in Key : Stored(k) => Stored(k)'
  BY <1>4 DEF Stored, StepTag
<1>12. StepsInOrder'
  <2> SUFFICES ASSUME NEW u \in Uid, prompt'[u].status # "fresh"
               PROVE  /\ prompt'[u].step <= globalSteps
                      /\ prompt'[u].part = "val" /\ OneBatch("val") /\ NoValidationYet'
                            => prompt'[u].step < globalSteps
    BY <1>1, <1>6 DEF StepsInOrder
  <2>1. NoValidationYet
    BY <1>1, <1>6 DEF NoValidationYet
  <2>2. globalSteps \in Nat
    BY StepNumbers DEF CompletenessInv
  <2>3. CASE prompt'[u] = prompt[u]
    BY <2>1, <2>3 DEF HeldInv, StepsInOrder
  <2>4. CASE prompt'[u] = padding
    BY <2>2, <2>4
  <2> QED BY <1>8, <2>3, <2>4
<1>13. BufferTellsTruth'
  <2> SUFFICES ASSUME NEW u \in Uid, NEW i \in Slot \ {MarkerSlot}
               PROVE  \/ rb[<<u, i>>] = Absent
                      \/ /\ prompt'[u].status # "fresh"
                         /\ rb[<<u, i>>] = StepTag(prompt'[u].step, "success")
    BY <1>1 DEF BufferTellsTruth
  <2> QED BY <1>8 DEF HeldInv, BufferTellsTruth
<1>14. CurrentAreStored'
  BY <1>6 DEF CurrentAreStored
<1>15. HeldAreStored'
  <2> SUFFICES ASSUME NEW p \in Partition, NEW k \in batch'[p]
               PROVE  /\ PromptOf(k)'.status # "fresh" /\ PromptOf(k)'.part = p
                      /\ OneBatch(p) => Stored(k)'
    BY <1>1 DEF HeldAreStored
  <2>1. CASE k \in batch[p]
    <3>1. k \in Key /\ PromptOf(k).status # "fresh" /\ PromptOf(k).part = p
          /\ (OneBatch(p) => Stored(k))
      BY <1>1, <2>1 DEF HeldInv, HeldAreStored, CompletenessInv, TypeOK
    <3> QED BY <1>10, <1>11, <3>1
  <2>2. CASE k \notin batch[p]
    <3>1. k \in pads /\ p = "train"
      BY <1>5, <2>2 DEF Partition
    <3> QED BY <1>9, <3>1
  <2> QED BY <2>1, <2>2
<1>16. UsedInOrder'
  <2>1. (\A k \in Key : used[k] > 0 => PromptOf(k).status # "fresh")'
    BY <1>1, <1>10 DEF HeldInv, UsedInOrder
  <2>2. (JustSampled /\ OneBatch(part) => \A k \in batch[part] :
            used[k] = 0 /\ (PromptOf(k).status = "padding" \/ k[1] \in curUids))'
    <3> SUFFICES ASSUME OneBatch("train"), NEW k \in batch'["train"]
                 PROVE  used[k] = 0 /\ (PromptOf(k)'.status = "padding" \/ k[1] \in curUids)
      BY <1>1, <1>6
    <3>1. CASE k \in pads
      BY <1>9, <3>1
    <3>2. CASE k \in batch["train"]
      <4>1. k \in Key /\ PromptOf(k).status # "fresh"
        BY <3>2 DEF HeldInv, HeldAreStored, CompletenessInv, TypeOK, Partition
      <4>2. used[k] = 0 /\ (PromptOf(k).status = "padding" \/ k[1] \in curUids)
        BY <1>6, <3>2 DEF HeldInv, UsedInOrder
      <4> QED BY <1>10, <4>1, <4>2
    <3> QED BY <1>5, <3>1, <3>2
  <2> QED BY <1>1, <1>6, <2>1, <2>2 DEF HeldInv, UsedInOrder
<1> QED BY <1>12, <1>13, <1>14, <1>15, <1>16 DEF HeldInv

LEMMA ClearStoredKeepsHeld ==
    CompletenessInv /\ HeldInv /\ ClearStored => HeldInv'
<1> SUFFICES ASSUME CompletenessInv, HeldInv, ClearStored PROVE HeldInv'
  OBVIOUS
<1>1. /\ pc = "clear" /\ pc' = "remove" /\ ~Waiting' /\ ~JustSampled' /\ ~NoValidationYet'
      /\ \A k \in Key : tq'[k] = IF k \in batch[part] THEN Absent ELSE tq[k]
      /\ UNCHANGED <<globalSteps, part, curUids, batch, prompt, rb, snapshot, used>>
  BY DEF ClearStored, Overwrite, CleanupKeys, workerVars, pollVars, Waiting, JustSampled,
         NoValidationYet
<1>2. StepsInOrder'
  BY <1>1 DEF HeldInv, StepsInOrder
<1>3. BufferTellsTruth' /\ CurrentAreStored'
  BY <1>1 DEF HeldInv, BufferTellsTruth, CurrentAreStored
<1>4. HeldAreStored'
  <2> SUFFICES ASSUME NEW p \in Partition, NEW k \in batch[p]
               PROVE  /\ PromptOf(k).status # "fresh" /\ PromptOf(k).part = p
                      /\ OneBatch(p) /\ part # p => Stored(k)'
    BY <1>1 DEF HeldAreStored, PromptOf
  <2>1. /\ k \in Key /\ PromptOf(k).status # "fresh" /\ PromptOf(k).part = p
        /\ OneBatch(p) => Stored(k)
    BY <1>1 DEF HeldInv, HeldAreStored, CompletenessInv, TypeOK
  <2>2. part # p => k \notin batch[part]
    BY <2>1 DEF HeldInv, HeldAreStored, CompletenessInv, TypeOK
  <2> QED BY <1>1, <2>1, <2>2 DEF Stored
<1>5. UsedInOrder'
  BY <1>1 DEF HeldInv, UsedInOrder, PromptOf
<1> QED BY <1>2, <1>3, <1>4, <1>5 DEF HeldInv

\* The next batch has a step of its own, unless it is one of several of a validation.
LEMMA RemoveBufferedKeepsHeld ==
    CompletenessInv /\ LeakInv /\ HeldInv /\ RemoveBuffered => HeldInv'
<1> SUFFICES ASSUME CompletenessInv, LeakInv, HeldInv, RemoveBuffered PROVE HeldInv'
  OBVIOUS
<1>1. /\ pc = "remove" /\ pc' \in {"mark", "closing", "clear"}
      /\ ~Waiting' /\ ~JustSampled'
      /\ batch' = [batch EXCEPT ![part] = {}]
      /\ rb' = Overwrite(rb, batch[part], Absent)
      /\ UNCHANGED <<curUids, prompt, tq, snapshot, used>>
  BY DEF RemoveBuffered, workerVars, pollVars, Waiting, JustSampled, CleanupKeys
<1>2. globalSteps \in Nat /\ part \in Partition /\ valLeft \in 0 .. ValBatches
  BY StepNumbers DEF CompletenessInv, TypeOK
<1>3. globalSteps' \in {globalSteps, globalSteps + 1}
  BY <1>2 DEF RemoveBuffered
<1>4. pc' = "mark" =>
        \/ part' = "train" /\ globalSteps' = globalSteps + 1
        \/ part' = "val" /\ ~OneBatch("val")
  <2>1. part = "val" => ValBeforeTrain \/ TestFreq > 0
    BY DEF LeakInv, PartFits
  <2>2. part = "val" /\ valLeft > 1 => ~OneBatch("val")
    BY <1>2, <2>1, RolloutAssumption DEF OneBatch
  <2> QED BY <1>2, <2>2 DEF RemoveBuffered, Partition
<1>5. StepsInOrder'
  <2> SUFFICES ASSUME NEW u \in Uid, prompt[u].status # "fresh"
               PROVE  /\ prompt[u].step <= globalSteps'
                      /\ part' = "train" /\ pc' = "mark" => prompt[u].step < globalSteps'
                      /\ OneBatch("val") /\ NoValidationYet' => prompt[u].step < globalSteps'
    BY <1>1 DEF StepsInOrder
  <2>1. prompt[u].step <= globalSteps /\ prompt[u].step \in Nat
    BY StepNumbers DEF HeldInv, StepsInOrder, CompletenessInv
  <2>2. prompt[u].step <= globalSteps'
    BY <1>2, <1>3, <2>1
  <2>3. part' = "train" /\ pc' = "mark" => prompt[u].step < globalSteps'
    BY <1>2, <1>4, <2>1
  <2>4. NoValidationYet' => pc' = "mark"
    BY <1>1 DEF NoValidationYet
  <2>5. OneBatch("val") /\ pc' = "mark" => part' = "train"
    BY <1>4
  <2> QED BY <2>2, <2>3, <2>4, <2>5 DEF OneBatch
<1>6. BufferTellsTruth'
  <2> SUFFICES ASSUME NEW u \in Uid, NEW i \in Slot \ {MarkerSlot}
               PROVE  rb'[<<u, i>>] = Absent \/ rb'[<<u, i>>] = rb[<<u, i>>]
    BY <1>1 DEF HeldInv, BufferTellsTruth
  <2> QED BY <1>1, KeyShape DEF Overwrite
<1>7. CurrentAreStored'
  BY <1>1 DEF CurrentAreStored
<1>8. HeldAreStored'
  <2> SUFFICES ASSUME NEW p \in Partition, NEW k \in batch'[p]
               PROVE  /\ PromptOf(k).status # "fresh" /\ PromptOf(k).part = p
                      /\ OneBatch(p) => Stored(k)
    BY <1>1 DEF HeldAreStored, PromptOf, Stored
  <2>1. k \in batch[p] /\ p # part
    BY <1>1, <1>2 DEF CompletenessInv, TypeOK
  <2> QED BY <2>1 DEF HeldInv, HeldAreStored
<1>9. UsedInOrder'
  BY <1>1 DEF HeldInv, UsedInOrder, PromptOf
<1> QED BY <1>5, <1>6, <1>7, <1>8, <1>9 DEF HeldInv

\* Workers move prompts and sessions on and add to the queue, nothing else.
LEMMA WorkerKeepsHeld == CompletenessInv /\ HeldInv /\ Worker => HeldInv'
<1> SUFFICES ASSUME CompletenessInv, HeldInv, NEW u \in Uid,
                    \/ StartPrompt(u) \/ FinishPrompt(u) \/ FailPrompt(u)
                    \/ \E s \in Session : Generate(u, s) \/ PutOutputs(u, s)
                                          \/ PutNothing(u, s) \/ FailSession(u, s)
             PROVE  HeldInv'
  BY DEF Worker
<1>1. UNCHANGED <<driverVars, rb, snapshot, used>>
  BY DEF StartPrompt, FinishPrompt, FailPrompt, Generate, PutOutputs, PutNothing, FailSession,
         pollVars
<1>2. \A v \in Uid : /\ prompt'[v].part = prompt[v].part
                     /\ prompt'[v].step = prompt[v].step
                     /\ prompt'[v].status = "fresh" <=> prompt[v].status = "fresh"
                     /\ prompt'[v].status = "padding" <=> prompt[v].status = "padding"
  <2>1. \/ prompt' = prompt
        \/ \E st \in {"running", "finished", "failure"} :
              /\ prompt[u].status \in {"pending", "running"}
              /\ prompt' = [prompt EXCEPT ![u].status = st]
    BY DEF StartPrompt, FinishPrompt, FailPrompt, Generate, PutOutputs, PutNothing, FailSession
  <2>2. CASE prompt' = prompt
    BY <2>2
  <2>3. ASSUME NEW st \in {"running", "finished", "failure"},
               prompt[u].status \in {"pending", "running"},
               prompt' = [prompt EXCEPT ![u].status = st]
        PROVE  \A v \in Uid : /\ prompt'[v].part = prompt[v].part
                              /\ prompt'[v].step = prompt[v].step
                              /\ prompt'[v].status = "fresh" <=> prompt[v].status = "fresh"
                              /\ prompt'[v].status = "padding" <=> prompt[v].status = "padding"
    BY <2>3 DEF CompletenessInv, TypeOK
  <2> QED BY <2>1, <2>2, <2>3
<1>3. \A k \in Key : Stored(k) => Stored(k)'
  <2>1. tq' = tq \/ \E k \in Key, t \in Tag : t.status # "absent" /\ tq' = [tq EXCEPT ![k] = t]
    <3>1. CASE FinishPrompt(u) \/ FailPrompt(u)
      <4>1. Marker(u) \in Key /\ MarkerTag("finished").status = "finished"
            /\ MarkerTag("failure").status = "failure"
        BY KeyShape DEF Marker, MarkerTag
      <4> QED BY <3>1, <4>1, TagShape DEF FinishPrompt, FailPrompt
    <3>2. ASSUME NEW s \in Session, PutOutputs(u, s)
          PROVE  \E k \in Key, t \in Tag : t.status # "absent" /\ tq' = [tq EXCEPT ![k] = t]
      <4>1. <<u, s>> \in Key /\ prompt[u].step \in Step
        BY KeyShape DEF CompletenessInv, TypeOK
      <4>2. StepTag(prompt[u].step, "success") \in Tag
            /\ StepTag(prompt[u].step, "success").status # "absent"
        BY <4>1, TagShape DEF StepTag
      <4> QED BY <3>2, <4>1, <4>2 DEF PutOutputs
    <3>3. CASE StartPrompt(u)
                \/ \E s \in Session : Generate(u, s) \/ PutNothing(u, s) \/ FailSession(u, s)
      BY <3>3 DEF StartPrompt, Generate, PutNothing, FailSession
    <3> QED BY <3>1, <3>2, <3>3
  <2> QED BY <2>1 DEF Stored, CompletenessInv, TypeOK
<1>4. \A k \in Key : /\ PromptOf(k)'.part = PromptOf(k).part
                     /\ PromptOf(k)'.status = "fresh" <=> PromptOf(k).status = "fresh"
                     /\ PromptOf(k)'.status = "padding" <=> PromptOf(k).status = "padding"
  <2> TAKE k \in Key
  <2> QED BY <1>2, KeyShape DEF PromptOf
<1> USE DEF driverVars
<1>5. StepsInOrder'
  BY <1>1, <1>2 DEF HeldInv, StepsInOrder, Waiting, NoValidationYet
<1>6. BufferTellsTruth'
  <2> SUFFICES ASSUME NEW v \in Uid, NEW i \in Slot \ {MarkerSlot}, rb[<<v, i>>] # Absent
               PROVE  prompt'[v].status # "fresh"
                      /\ rb[<<v, i>>] = StepTag(prompt'[v].step, "success")
    BY <1>1 DEF BufferTellsTruth
  <2> QED BY <1>2 DEF HeldInv, BufferTellsTruth
<1>7. CurrentAreStored'
  <2> SUFFICES ASSUME Waiting, NEW v \in curUids, NEW i \in Slot \ {MarkerSlot},
                      snapshot[<<v, i>>] # Absent \/ rb[<<v, i>>] # Absent
               PROVE  Stored(<<v, i>>)'
    BY <1>1 DEF CurrentAreStored, Waiting
  <2>1. <<v, i>> \in Key
    BY KeyShape DEF CompletenessInv, TypeOK
  <2> QED BY <1>3, <2>1 DEF HeldInv, CurrentAreStored
<1>8. HeldAreStored'
  <2> SUFFICES ASSUME NEW p \in Partition, NEW k \in batch[p]
               PROVE  /\ PromptOf(k)'.status # "fresh" /\ PromptOf(k)'.part = p
                      /\ OneBatch(p) /\ ~(pc = "remove" /\ part = p) => Stored(k)'
    BY <1>1 DEF HeldAreStored
  <2>1. k \in Key
    BY DEF CompletenessInv, TypeOK
  <2> QED BY <1>3, <1>4, <2>1 DEF HeldInv, HeldAreStored
<1>9. UsedInOrder'
  <2>1. (\A k \in Key : used[k] > 0 => PromptOf(k).status # "fresh")'
    BY <1>1, <1>4 DEF HeldInv, UsedInOrder
  <2>2. (JustSampled /\ OneBatch(part) => \A k \in batch[part] :
            used[k] = 0 /\ (PromptOf(k).status = "padding" \/ k[1] \in curUids))'
    <3> SUFFICES ASSUME JustSampled, OneBatch(part), NEW k \in batch[part]
                 PROVE  used[k] = 0 /\ (PromptOf(k)'.status = "padding" \/ k[1] \in curUids)
      BY <1>1 DEF JustSampled
    <3>1. k \in Key
      BY DEF CompletenessInv, TypeOK
    <3> QED BY <1>4, <3>1 DEF HeldInv, UsedInOrder
  <2> QED BY <1>1, <2>1, <2>2 DEF HeldInv, UsedInOrder, Waiting, JustSampled
<1> QED BY <1>5, <1>6, <1>7, <1>8, <1>9 DEF HeldInv

\* The polling thread only shows the buffer what was in the queue.
LEMMA PollerKeepsHeld == CompletenessInv /\ HeldInv /\ Poller => HeldInv'
<1> SUFFICES ASSUME CompletenessInv, HeldInv, Poller PROVE HeldInv'
  OBVIOUS
<1>1. UNCHANGED <<driverVars, workerVars, tq, used>>
  BY DEF Poller, PollCheck, PollList, PollAdd
<1> USE DEF driverVars, workerVars
<1>2. \A k \in Key :
          /\ snapshot'[k] \in {snapshot[k], tq[k], Absent}
          /\ rb'[k] = rb[k] \/ (snapshot[k] # Absent /\ rb'[k] = Updated(rb[k], snapshot[k]))
  <2>1. CASE PollCheck \/ PollList
    BY <2>1 DEF PollCheck, PollList
  <2>2. ASSUME NEW p \in Partition, PollAdd(p)
        PROVE  \A k \in Key :
                  /\ snapshot'[k] \in {snapshot[k], tq[k], Absent}
                  /\ \/ rb'[k] = rb[k]
                     \/ snapshot[k] # Absent /\ rb'[k] = Updated(rb[k], snapshot[k])
    BY <2>2 DEF PollAdd, Absent
  <2> QED BY <2>1, <2>2 DEF Poller
<1>3. StepsInOrder'
  BY <1>1 DEF HeldInv, StepsInOrder, Waiting, NoValidationYet
<1>4. BufferTellsTruth'
  <2> SUFFICES ASSUME NEW u \in Uid, NEW i \in Slot \ {MarkerSlot}
               PROVE  \/ rb'[<<u, i>>] = Absent
                      \/ /\ prompt[u].status # "fresh"
                         /\ rb'[<<u, i>>] = StepTag(prompt[u].step, "success")
    BY <1>1 DEF BufferTellsTruth
  <2>1. CASE rb'[<<u, i>>] = rb[<<u, i>>]
    BY <2>1 DEF HeldInv, BufferTellsTruth
  <2>2. CASE snapshot[<<u, i>>] # Absent /\ rb'[<<u, i>>] = Updated(rb[<<u, i>>], snapshot[<<u, i>>])
    <3>1. prompt[u].status # "fresh" /\ snapshot[<<u, i>>] = StepTag(prompt[u].step, "success")
      BY <2>2 DEF CompletenessInv, TagsTellTruth
    <3>2. prompt[u].step # NoStep
      BY StepNumbers DEF CompletenessInv, NoStep
    <3> QED BY <2>2, <3>1, <3>2 DEF Updated, StepTag
  <2>3. <<u, i>> \in Key
    BY KeyShape
  <2> QED BY <1>2, <2>1, <2>2, <2>3
<1>5. CurrentAreStored'
  <2> SUFFICES ASSUME Waiting, NEW u \in curUids, NEW i \in Slot \ {MarkerSlot},
                      snapshot'[<<u, i>>] # Absent \/ rb'[<<u, i>>] # Absent
               PROVE  Stored(<<u, i>>)
    BY <1>1 DEF CurrentAreStored, Waiting, Stored
  <2>1. <<u, i>> \in Key
    BY KeyShape DEF CompletenessInv, TypeOK
  <2>2. snapshot[<<u, i>>] # Absent \/ rb[<<u, i>>] # Absent => Stored(<<u, i>>)
    BY DEF HeldInv, CurrentAreStored
  <2>3. tq[<<u, i>>] # Absent => Stored(<<u, i>>)
    <3>1. u \in Uid
      BY DEF CompletenessInv, TypeOK
    <3>2. tq[<<u, i>>] # Absent => tq[<<u, i>>] = StepTag(prompt[u].step, "success")
      BY <3>1 DEF CompletenessInv, TagsTellTruth
    <3> QED BY <3>2 DEF Stored, StepTag
  <2> QED BY <1>2, <2>1, <2>2, <2>3
<1>6. HeldAreStored' /\ UsedInOrder'
  BY <1>1 DEF HeldInv, HeldAreStored, UsedInOrder, PromptOf, Stored, Waiting, JustSampled
<1> QED BY <1>3, <1>4, <1>5, <1>6 DEF HeldInv

LEMMA NextHeld == CompletenessInv /\ LeakInv /\ HeldInv /\ [Next]_vars => HeldInv'
<1> SUFFICES ASSUME CompletenessInv, LeakInv, HeldInv, [Next]_vars PROVE HeldInv'
  OBVIOUS
<1>1. CASE Driver
  BY <1>1, MovingOnKeepsHeld, MarkPendingKeepsHeld, SampleBatchKeepsHeld,
     BalanceBatchKeepsHeld, ClearStoredKeepsHeld, RemoveBufferedKeepsHeld DEF Driver
<1>2. CASE UNCHANGED vars
  BY <1>2 DEF vars, driverVars, workerVars, pollVars, HeldInv, StepsInOrder, BufferTellsTruth,
              CurrentAreStored, HeldAreStored, UsedInOrder, Waiting, JustSampled,
              NoValidationYet, PromptOf, Stored
<1> QED BY <1>1, <1>2, WorkerKeepsHeld, PollerKeepsHeld DEF Next, Terminated

LEMMA HeldInvariant == Spec => []HeldInv
BY CompletenessInvariant, LeakInvariant, InitHeld, NextHeld, PTL DEF Spec

\* With one batch a validation, every read of a batch finds all its keys in the
\* TransferQueue: no cleanup, however it interleaves with a poll, took one of them,
\* and none comes back into a later batch.
THEOREM SampledKeysAlwaysStored ==
    ASSUME ValBatches = 1
    PROVE  Spec => []SampledKeysStored
<1>1. \A p \in Partition : OneBatch(p)
  BY DEF OneBatch, Partition
<1>2. HeldInv => SampledKeysStored
  BY <1>1 DEF HeldInv, HeldAreStored, SampledKeysStored
<1> QED BY <1>2, HeldInvariant, PTL

-----------------------------------------------------------------------------
(* The ledger: every step of the pipeline is a step of StepLedger or hidden *)

LEMMA LedgerResults ==
    \A u \in Uid :
        /\ prompt[u].status \in {"fresh", "padding"} => LedgerResult(u) = "fresh"
        /\ prompt[u].status \in {"pending", "running"} => LedgerResult(u) = "open"
        /\ prompt[u].status \in Resolved => LedgerResult(u) = prompt[u].status
BY DEF LedgerResult, Resolved

\* Prompts may be drawn or padded, and nothing else that the ledger records changes.
LEMMA HiddenFromLedger ==
    ASSUME CompletenessInv, HeldInv,
           UNCHANGED <<session, used>>,
           \A u \in Uid : /\ LedgerResult(u)' = LedgerResult(u)
                          /\ prompt'[u].status = "padding" => prompt[u].status \in {"fresh", "padding"}
                          /\ prompt[u].status = "padding" => prompt'[u].status = "padding",
           (IF AwaitingUse THEN curUids ELSE {})' = IF AwaitingUse THEN curUids ELSE {}
    PROVE  UNCHANGED Ledger!ledgerVars
<1>1. \A k \in Uid \X Session : k \in Key /\ k[1] \in Uid
  BY KeyShape
<1>2. \A k \in Uid \X Session : UsesOf(k)' = UsesOf(k)
  <2> SUFFICES ASSUME NEW k \in Uid \X Session PROVE UsesOf(k)' = UsesOf(k)
    OBVIOUS
  <2>1. k \in Key /\ k[1] \in Uid /\ used'[k] = used[k] /\ used[k] \in Nat
    BY <1>1 DEF CompletenessInv, TypeOK
  <2>2. CASE used[k] > 0
    <3>1. PromptOf(k)'.status = "padding" <=> PromptOf(k).status = "padding"
      BY <2>1, <2>2 DEF HeldInv, UsedInOrder, PromptOf
    <3> QED BY <2>1, <3>1 DEF UsesOf
  <2>3. CASE used[k] = 0
    BY <2>1, <2>3 DEF UsesOf
  <2> QED BY <2>1, <2>2, <2>3
<1> QED BY <1>2 DEF Ledger!ledgerVars

LEMMA OfferImplemented ==
    CompletenessInv /\ HeldInv /\ MarkPending => Ledger!LedgerNext
<1> SUFFICES ASSUME CompletenessInv, HeldInv, MarkPending PROVE Ledger!LedgerNext
  OBVIOUS
<1> DEFINE uids == nextUid .. nextUid + PromptsPerBatch - 1
<1>1. /\ pc = "mark" /\ pc' = "dispatch" /\ uids \subseteq Uid /\ curUids' = uids
      /\ UNCHANGED <<session, used>>
      /\ \A u \in Uid : prompt'[u] = IF u \in uids
            THEN [part |-> part, step |-> globalSteps, status |-> "pending"]
            ELSE prompt[u]
  BY DEF MarkPending
<1>2. \A u \in uids : prompt[u].status = "fresh"
  BY <1>1, RolloutAssumption DEF CompletenessInv, PromptsInOrder, TypeOK
<1>3. uids # {}
  <2>1. nextUid \in uids
    BY RolloutAssumption DEF CompletenessInv, TypeOK
  <2> QED BY <2>1
<1> HIDE DEF uids
<1>4. ~AwaitingUse /\ AwaitingUse'
  BY <1>1 DEF AwaitingUse
<1>5. \A u \in uids : LedgerResult(u) = "fresh"
  BY <1>1, <1>2, LedgerResults
<1>6. \A u \in Uid : LedgerResult(u)' = IF u \in uids THEN "open" ELSE LedgerResult(u)
  BY <1>1 DEF LedgerResult
<1>7. \A k \in Uid \X Session : UsesOf(k)' = UsesOf(k)
  <2> SUFFICES ASSUME NEW k \in Uid \X Session PROVE UsesOf(k)' = UsesOf(k)
    OBVIOUS
  <2>1. k \in Key /\ k[1] \in Uid /\ used'[k] = used[k] /\ used[k] \in Nat
    BY <1>1, KeyShape DEF CompletenessInv, TypeOK
  <2>2. CASE used[k] > 0
    <3>1. prompt[k[1]].status # "fresh"
      BY <2>1, <2>2 DEF HeldInv, UsedInOrder, PromptOf
    <3>2. prompt'[k[1]] = prompt[k[1]]
      BY <1>1, <1>2, <2>1, <3>1
    <3> QED BY <2>1, <3>2 DEF UsesOf, PromptOf
  <2>3. CASE used[k] = 0
    BY <2>1, <2>3 DEF UsesOf
  <2> QED BY <2>1, <2>2, <2>3
<1>8. Ledger!Offer(uids)
  BY <1>1, <1>4, <1>5, <1>6, <1>7 DEF Ledger!Offer
<1> QED BY <1>1, <1>3, <1>8 DEF Ledger!LedgerNext

\* The outputs of the batch's finished prompts are in the batch, and what is in it was
\* put by one of its prompts and has not been used.
LEMMA BatchIsDue ==
    ASSUME CompletenessInv, LeakInv, HeldInv, JustSampled, OneBatch(part)
    PROVE  /\ curUids # {} /\ curUids \subseteq Uid
           /\ \A u \in curUids : LedgerResult(u) \in Resolved
           /\ \A u \in curUids, s \in Session :
                 LedgerResult(u) = "finished" /\ session[u][s] = "stored"
                     => <<u, s>> \in batch[part] /\ prompt[u].status # "padding"
           /\ \A k \in batch[part] : PromptOf(k).status # "padding" =>
                 /\ k \in Uid \X Session /\ k[1] \in curUids
                 /\ session[k[1]][k[2]] = "stored" /\ used[k] = 0
<1>1. curUids # {} /\ curUids \subseteq Uid /\ pc # "remove" /\ part \in Partition
  BY DEF HeldInv, UsedInOrder, CompletenessInv, TypeOK, JustSampled
<1>2. \A u \in curUids : prompt[u].status \in Resolved /\ LedgerResult(u) = prompt[u].status
  BY <1>1, LedgerResults DEF CompletenessInv, SampledAreResolved
<1>3. ASSUME NEW u \in curUids, NEW s \in Session,
             LedgerResult(u) = "finished", session[u][s] = "stored"
      PROVE  <<u, s>> \in batch[part] /\ prompt[u].status # "padding"
  BY <1>2, <1>3 DEF CompletenessInv, SampleIsComplete
<1>4. ASSUME NEW k \in batch[part], PromptOf(k).status # "padding"
      PROVE  /\ k \in Uid \X Session /\ k[1] \in curUids
             /\ session[k[1]][k[2]] = "stored" /\ used[k] = 0
  <2>1. k \in Key /\ k[2] # MarkerSlot
    BY <1>1 DEF CompletenessInv, TypeOK, BatchesHoldNoMarker
  <2>2. k[1] \in Uid /\ k[2] \in Slot \ {MarkerSlot} /\ k = <<k[1], k[2]>>
    BY <2>1, KeyShape
  <2>3. Stored(k)
    BY <1>1 DEF HeldInv, HeldAreStored
  <2>4. k[2] \in Session /\ session[k[1]][k[2]] = "stored"
    BY <1>4, <2>2, <2>3 DEF LeakInv, StoredAreYielded, PromptOf
  <2>5. used[k] = 0 /\ k[1] \in curUids
    BY <1>4 DEF HeldInv, UsedInOrder
  <2>6. k \in Uid \X Session
    BY <2>2, <2>4
  <2> QED BY <2>4, <2>5, <2>6
<1> QED BY <1>1, <1>2, <1>3, <1>4

\* The actor update and the reading of the scores.
LEMMA ConsumeImplemented ==
    ASSUME CompletenessInv, LeakInv, HeldInv, JustSampled, OneBatch(part),
           UNCHANGED <<prompt, session>>, ~AwaitingUse',
           used' = [k \in Key |-> IF k \in batch[part] THEN used[k] + 1 ELSE used[k]]
    PROVE  Ledger!LedgerNext
<1> DEFINE keys == {k \in Uid \X Session : k \in batch[part] /\ PromptOf(k).status # "padding"}
           uses == [k \in Uid \X Session |-> UsesOf(k)]
           outs == [u \in Uid |-> {s \in Session : session[u][s] = "stored"}]
           OutsOf(us) == {k \in Uid \X Session : k[1] \in us /\ k[2] \in outs[k[1]]}
           done == {u \in curUids : LedgerResult(u) = "finished"}
<1>1. AwaitingUse
  BY DEF AwaitingUse, JustSampled
<1>2. keys \subseteq {k \in OutsOf(curUids) : uses[k] = 0}
  <2> SUFFICES ASSUME NEW k \in keys PROVE k \in OutsOf(curUids) /\ UsesOf(k) = 0
    OBVIOUS
  <2>1. k[1] \in curUids /\ session[k[1]][k[2]] = "stored" /\ used[k] = 0
    BY BatchIsDue
  <2> QED BY <2>1 DEF UsesOf
<1>3. OutsOf(done) \subseteq keys
  <2> SUFFICES ASSUME NEW k \in OutsOf(done) PROVE k \in keys
    OBVIOUS
  <2>1. k \in Uid \X Session /\ k[1] \in curUids /\ LedgerResult(k[1]) = "finished"
        /\ k[2] \in Session /\ session[k[1]][k[2]] = "stored" /\ k = <<k[1], k[2]>>
    OBVIOUS
  <2>2. k \in batch[part] /\ prompt[k[1]].status # "padding"
    BY <2>1, BatchIsDue
  <2> QED BY <2>1, <2>2 DEF PromptOf
<1>4. uses' = [k \in Uid \X Session |-> IF k \in keys THEN uses[k] + 1 ELSE uses[k]]
  <2>1. \A k \in Uid \X Session : PromptOf(k)' = PromptOf(k)
          /\ used'[k] = IF k \in batch[part] THEN used[k] + 1 ELSE used[k]
    BY KeyShape DEF CompletenessInv, TypeOK, PromptOf
  <2>2. \A k \in Uid \X Session :
          UsesOf(k)' = IF k \in keys THEN UsesOf(k) + 1 ELSE UsesOf(k)
    BY <2>1 DEF UsesOf
  <2> HIDE DEF keys
  <2> QED BY <2>2
<1>5. UNCHANGED <<outs, [u \in Uid |-> LedgerResult(u)]>>
  BY DEF LedgerResult
<1>6. \A u \in curUids : u \in Uid /\ LedgerResult(u) # "open"
  BY BatchIsDue DEF Resolved
<1>7. curUids # {}
  BY BatchIsDue
<1>8. done = {u \in curUids : [v \in Uid |-> LedgerResult(v)][u] = "finished"}
  BY <1>6
<1>9. Ledger!Consume(keys)
  BY <1>1, <1>3, <1>4, <1>5, <1>6, <1>7, <1>8
     DEF Ledger!Consume, Ledger!OutputsOf, Ledger!OutputKey
<1> DEFINE due == SUBSET {k \in Ledger!OutputsOf(IF AwaitingUse THEN curUids ELSE {}) :
                             uses[k] = 0}
<1>10. keys \in due
  BY <1>1, <1>2 DEF Ledger!OutputsOf, Ledger!OutputKey
<1>11. \E ks \in due : Ledger!Consume(ks)
  <2> HIDE DEF keys, due
  <2> QED BY <1>9, <1>10 DEF Ledger!Consume
<1> QED BY <1>11 DEF Ledger!LedgerNext

\* A batch without a sample ends the run.
LEMMA AbandonImplemented ==
    ASSUME CompletenessInv, LeakInv, HeldInv, JustSampled, batch[part] = {},
           UNCHANGED <<prompt, session, used>>, ~AwaitingUse'
    PROVE  Ledger!LedgerNext
<1> DEFINE outs == [u \in Uid |-> {s \in Session : session[u][s] = "stored"}]
           done == {u \in curUids : LedgerResult(u) = "finished"}
<1>1. AwaitingUse
  BY DEF AwaitingUse, JustSampled
<1>2. curUids # {} /\ curUids \subseteq Uid
  BY DEF HeldInv, UsedInOrder, CompletenessInv, TypeOK, JustSampled
<1>3. \A u \in curUids : prompt[u].status \in Resolved /\ LedgerResult(u) = prompt[u].status
  BY <1>2, LedgerResults DEF CompletenessInv, SampledAreResolved
<1>4. {k \in Uid \X Session : k[1] \in done /\ k[2] \in outs[k[1]]} = {}
  <2> SUFFICES ASSUME NEW k \in Uid \X Session, k[1] \in done, k[2] \in outs[k[1]] PROVE FALSE
    OBVIOUS
  <2>1. k[1] \in curUids /\ k[2] \in Session /\ prompt[k[1]].status = "finished"
        /\ session[k[1]][k[2]] = "stored"
    BY <1>3
  <2>2. <<k[1], k[2]>> \in batch[part]
    BY <2>1 DEF CompletenessInv, SampleIsComplete
  <2> QED BY <2>2
<1>5. UNCHANGED <<outs, [u \in Uid |-> LedgerResult(u)],
                  [k \in Uid \X Session |-> UsesOf(k)]>>
  BY DEF LedgerResult, UsesOf, PromptOf
<1>6. \A u \in curUids : u \in Uid /\ LedgerResult(u) # "open"
  BY <1>2, <1>3 DEF Resolved
<1>7. done = {u \in curUids : [v \in Uid |-> LedgerResult(v)][u] = "finished"}
  BY <1>6
<1>8. Ledger!Abandon
  BY <1>1, <1>2, <1>4, <1>5, <1>6, <1>7 DEF Ledger!Abandon, Ledger!OutputsOf, Ledger!OutputKey
<1> QED BY <1>8 DEF Ledger!LedgerNext

LEMMA WorkerImplements ==
    CompletenessInv /\ HeldInv /\ Worker => Ledger!LedgerNext \/ UNCHANGED Ledger!ledgerVars
<1> SUFFICES ASSUME CompletenessInv, HeldInv, NEW u \in Uid,
                    \/ StartPrompt(u) \/ FinishPrompt(u) \/ FailPrompt(u)
                    \/ \E s \in Session : Generate(u, s) \/ PutOutputs(u, s)
                                          \/ PutNothing(u, s) \/ FailSession(u, s)
             PROVE  Ledger!LedgerNext \/ UNCHANGED Ledger!ledgerVars
  BY DEF Worker
<1> DEFINE outs == [v \in Uid |-> {s \in Session : session[v][s] = "stored"}]
           uses == [k \in Uid \X Session |-> UsesOf(k)]
           result == [v \in Uid |-> LedgerResult(v)]
<1>1. /\ UNCHANGED <<used, curUids>> /\ AwaitingUse' = AwaitingUse
  BY DEF StartPrompt, FinishPrompt, FailPrompt, Generate, PutOutputs, PutNothing, FailSession,
         driverVars, AwaitingUse
<1>2. CASE StartPrompt(u)
  <2>1. /\ prompt[u].status = "pending" /\ prompt' = [prompt EXCEPT ![u].status = "running"]
        /\ session' = [session EXCEPT ![u] = [s \in Session |-> "generating"]]
    BY <1>2 DEF StartPrompt
  <2>2. \A s \in Session : session[u][s] = "none"
    BY <2>1 DEF CompletenessInv, PromptsInOrder
  <2>3. /\ prompt'[u].status = "running"
        /\ \A v \in Uid : v # u => prompt'[v] = prompt[v]
    BY <2>1 DEF CompletenessInv, TypeOK
  <2>4. \A v \in Uid, s \in Session : session'[v][s] = "stored" <=> session[v][s] = "stored"
    BY <2>1, <2>2 DEF CompletenessInv, TypeOK
  <2>5. outs' = outs
    BY <2>4
  <2>6. \A v \in Uid : LedgerResult(v)' = LedgerResult(v)
    BY <2>1, <2>3 DEF LedgerResult
  <2>7. \A k \in Uid \X Session : PromptOf(k)'.status = "padding" <=> PromptOf(k).status = "padding"
    BY <2>1, <2>3 DEF PromptOf
  <2>8. uses' = uses
    BY <1>1, <2>7 DEF UsesOf
  <2> QED BY <1>1, <2>5, <2>6, <2>8 DEF Ledger!ledgerVars
<1>3. CASE FinishPrompt(u) \/ FailPrompt(u)
  <2>1. PICK st \in {"finished", "failure"} :
            /\ prompt[u].status = "running" /\ session' = session
            /\ prompt' = [prompt EXCEPT ![u].status = st]
    BY <1>3 DEF FinishPrompt, FailPrompt
  <2>2. /\ prompt'[u].status = st
        /\ \A v \in Uid : v # u => prompt'[v] = prompt[v]
    BY <2>1 DEF CompletenessInv, TypeOK
  <2>3. LedgerResult(u) = "open" /\ LedgerResult(u)' = st
    BY <2>1, <2>2 DEF LedgerResult
  <2>4. \A v \in Uid : v # u => LedgerResult(v)' = LedgerResult(v)
    BY <2>2 DEF LedgerResult
  <2>5. result' = [result EXCEPT ![u] = st]
    BY <2>3, <2>4
  <2>6. \A k \in Uid \X Session : PromptOf(k)'.status = "padding" <=> PromptOf(k).status = "padding"
    BY <2>1, <2>2 DEF PromptOf
  <2>7. uses' = uses /\ outs' = outs
    BY <1>1, <2>1, <2>6 DEF UsesOf
  <2>8. Ledger!Resolve(u)
    BY <1>1, <2>3, <2>5, <2>7 DEF Ledger!Resolve
  <2> QED BY <2>8 DEF Ledger!LedgerNext
<1>4. ASSUME NEW s \in Session, PutOutputs(u, s)
      PROVE  Ledger!LedgerNext
  <2>1. /\ session[u][s] = "scoring" /\ prompt' = prompt
        /\ session' = [session EXCEPT ![u][s] = "stored"]
    BY <1>4 DEF PutOutputs
  <2>2. LedgerResult(u) \in {"open", "failure"}
    <3>1. prompt[u].status \in PromptStatus
      BY DEF CompletenessInv, TypeOK
    <3>2. prompt[u].status \in {"running", "failure"}
      BY <2>1, <3>1 DEF CompletenessInv, PromptsInOrder, AllSessionsOver, PromptStatus
    <3> QED BY <3>2 DEF LedgerResult
  <2>3. \A v \in Uid, r \in Session :
          session'[v][r] = IF v = u /\ r = s THEN "stored" ELSE session[v][r]
    BY <2>1 DEF CompletenessInv, TypeOK
  <2>4. outs' = [outs EXCEPT ![u] = @ \cup {s}]
    <3>1. outs'[u] = outs[u] \cup {s}
      BY <2>3
    <3>2. ASSUME NEW v \in Uid, v # u PROVE outs'[v] = outs[v]
      BY <2>3, <3>2
    <3>3. DOMAIN outs = Uid /\ outs = [v \in Uid |-> outs[v]] /\ outs' = [v \in Uid |-> outs'[v]]
      OBVIOUS
    <3> HIDE DEF outs
    <3> QED BY <3>1, <3>2, <3>3
  <2>5. UNCHANGED <<result, uses>>
    BY <1>1, <2>1 DEF LedgerResult, UsesOf, PromptOf
  <2>6. Ledger!Yield(u, s)
    BY <1>1, <2>1, <2>2, <2>4, <2>5 DEF Ledger!Yield
  <2> QED BY <2>6 DEF Ledger!LedgerNext
<1>5. ASSUME NEW s \in Session, Generate(u, s) \/ PutNothing(u, s) \/ FailSession(u, s)
      PROVE  UNCHANGED Ledger!ledgerVars
  <2>1. PICK st \in {"scoring", "empty", "failed"} :
            /\ session[u][s] \in {"generating", "scoring"} /\ prompt' = prompt
            /\ session' = [session EXCEPT ![u][s] = st]
    BY <1>5 DEF Generate, PutNothing, FailSession
  <2>2. \A v \in Uid, r \in Session : session'[v][r] = "stored" <=> session[v][r] = "stored"
    BY <2>1 DEF CompletenessInv, TypeOK
  <2>3. outs' = outs
    BY <2>2
  <2>4. UNCHANGED <<result, uses>>
    BY <1>1, <2>1 DEF LedgerResult, UsesOf, PromptOf
  <2> QED BY <1>1, <2>3, <2>4 DEF Ledger!ledgerVars
<1> QED BY <1>2, <1>3, <1>4, <1>5

LEMMA DriverImplements ==
    ASSUME OneBatch("train"), OneBatch("val"), CompletenessInv, LeakInv, HeldInv, Driver
    PROVE  Ledger!LedgerNext \/ UNCHANGED Ledger!ledgerVars
<1>1. CASE MarkPending
  BY <1>1, OfferImplemented
<1>2. CASE UpdateActor
  <2>1. /\ JustSampled /\ part = "train" /\ ~AwaitingUse' /\ UNCHANGED <<prompt, session>>
        /\ used' = [k \in Key |-> IF k \in batch["train"] THEN used[k] + 1 ELSE used[k]]
    BY <1>2 DEF UpdateActor, JustSampled, AwaitingUse, LeakInv, PartFits, workerVars
  <2> QED BY <2>1, ConsumeImplemented
<1>3. CASE FetchScores
  <2>1. /\ JustSampled /\ part = "val" /\ ~AwaitingUse' /\ UNCHANGED <<prompt, session>>
        /\ used' = [k \in Key |-> IF k \in batch["val"] THEN used[k] + 1 ELSE used[k]]
    BY <1>3 DEF FetchScores, JustSampled, AwaitingUse, LeakInv, PartFits, workerVars
  <2> QED BY <2>1, ConsumeImplemented
<1>4. CASE BalanceNothing \/ FetchNothing
  <2>1. /\ JustSampled /\ batch[part] = {} /\ ~AwaitingUse' /\ UNCHANGED <<prompt, session, used>>
    BY <1>4 DEF BalanceNothing, FetchNothing, JustSampled, AwaitingUse, LeakInv, PartFits,
                workerVars
  <2> QED BY <2>1, AbandonImplemented
<1>5. CASE BalanceBatch
  <2>1. /\ UNCHANGED <<session, used, curUids>> /\ AwaitingUse' /\ AwaitingUse
        /\ \A u \in Uid : prompt'[u] = prompt[u]
              \/ (u = nextUid /\ prompt'[u].status = "padding")
    BY <1>5 DEF BalanceBatch, AwaitingUse, CompletenessInv, TypeOK
  <2>2. nextUid \in Uid => prompt[nextUid].status = "fresh"
    BY DEF CompletenessInv, PromptsInOrder, TypeOK
  <2>3. \A u \in Uid :
          /\ LedgerResult(u)' = LedgerResult(u)
          /\ prompt'[u].status = "padding" => prompt[u].status \in {"fresh", "padding"}
          /\ prompt[u].status = "padding" => prompt'[u].status = "padding"
    BY <2>1, <2>2 DEF LedgerResult
  <2> QED BY <2>1, <2>3, HiddenFromLedger
<1>6. CASE BeginFit \/ AwaitDispatch \/ SampleBatch \/ SleepReplicas \/ UpdateWeights
           \/ ClearStored \/ RemoveBuffered \/ StopPolling \/ CloseQueue
  <2>1. UNCHANGED <<prompt, session, used, curUids>> /\ AwaitingUse' = AwaitingUse
    BY <1>6 DEF BeginFit, AwaitDispatch, SampleBatch, SleepReplicas, UpdateWeights, ClearStored,
                RemoveBuffered, StopPolling, CloseQueue, workerVars, AwaitingUse
  <2> QED BY <2>1, HiddenFromLedger DEF LedgerResult
<1> QED BY <1>1, <1>2, <1>3, <1>4, <1>5, <1>6 DEF Driver

\* With one batch a validation, consumers get every output of a finished prompt exactly
\* once, in the batch of its own step, whatever the queue, the poll and the replay buffer
\* do: the pipeline implements StepLedger, for any number of prompts, sessions and steps.
THEOREM PipelineImplementsLedger ==
    ASSUME ValBatches = 1
    PROVE  Spec => ImplementsLedger
<1>1. OneBatch("train") /\ OneBatch("val")
  BY DEF OneBatch
<1>2. Init => Ledger!LedgerInit
  <2> SUFFICES ASSUME Init PROVE Ledger!LedgerInit
    OBVIOUS
  <2>1. ~AwaitingUse /\ \A u \in Uid : LedgerResult(u) = "fresh"
    BY DEF Init, AwaitingUse, LedgerResult, FreshPrompt
  <2>2. \A u \in Uid : {s \in Session : session[u][s] = "stored"} = {}
    BY DEF Init
  <2>3. \A k \in Uid \X Session : UsesOf(k) = 0
    BY KeyShape DEF Init, UsesOf
  <2> QED BY <2>1, <2>2, <2>3 DEF Ledger!LedgerInit, Ledger!OutputKey
<1>3. CompletenessInv /\ LeakInv /\ HeldInv /\ [Next]_vars
        => [Ledger!LedgerNext]_(Ledger!ledgerVars)
  <2> SUFFICES ASSUME CompletenessInv, LeakInv, HeldInv, [Next]_vars
               PROVE  Ledger!LedgerNext \/ UNCHANGED Ledger!ledgerVars
    OBVIOUS
  <2>1. CASE Driver
    BY <1>1, <2>1, DriverImplements
  <2>2. CASE Worker
    BY <2>2, WorkerImplements
  <2>3. CASE Poller \/ UNCHANGED vars
    <3>1. UNCHANGED <<prompt, session, used, curUids, pc>>
      BY <2>3 DEF Poller, PollCheck, PollList, PollAdd, driverVars, workerVars, vars
    <3>2. AwaitingUse' = AwaitingUse
      BY <3>1 DEF AwaitingUse
    <3> QED BY <3>1, <3>2, HiddenFromLedger DEF LedgerResult
  <2> QED BY <2>1, <2>2, <2>3 DEF Next, Terminated
<1> QED BY <1>2, <1>3, CompletenessInvariant, LeakInvariant, HeldInvariant, PTL
        DEF Spec, ImplementsLedger, Ledger!LedgerSpec

=============================================================================
