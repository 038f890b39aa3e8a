--------------------------- MODULE FullyAsyncProofs ---------------------------
(***************************************************************************)
(* Machine-checked proofs about FullyAsync, for any batch sizes, staleness *)
(* bounds and number of samples: the bound on what the Rollouter submits   *)
(* between two synchronisations, that the end signal is the last thing in  *)
(* the queue, and that the checkpoint left behind misses no version.       *)
(***************************************************************************)
EXTENDS FullyAsync, FiniteSetTheorems, SequenceTheorems, TLAPS

Entry == {"sample", "end"}

FullyTypeOK ==
    /\ fed \in Nat /\ pending \in Nat
    /\ proc \in {"top", "asked", "pausing", "draining", "getting", "limit", "reaping",
                 "ended", "raised"}
    /\ finishing \in BOOLEAN
    /\ staleness \in Nat
    /\ lock \in {"free", "processor", "reset"}
    /\ tasks \in [Stage -> Nat] /\ fails \in Nat
    /\ main \in {"wait", "ending", "over"}
    /\ queue \in Seq(Entry)
    /\ trainer \in {"collect", "train", "abort", "resume", "reset", "counting", "save",
                    "stop", "over"}
    /\ hand \in Nat /\ trained \in Nat /\ version \in Nat
    /\ localStep \in 1 .. Trigger
    /\ saved \in [version : Nat, trained : Nat]
    /\ stopping \in BOOLEAN
    /\ counted \in Nat /\ base \in Nat /\ since \in Nat

\* The lock is held over an await by the processor that reaps tasks and by the
\* reset that counts them: what the reset counted is still so when it writes.
LockInv ==
    /\ lock = "processor" <=> proc = "reaping"
    /\ lock = "reset" <=> trainer = "counting"
    /\ trainer = "counting" => counted = Active

\* A sample taken off the pending queue and not yet submitted.
Held == IF proc \in {"limit", "reaping"} /\ ~finishing THEN 1 ELSE 0

QuotaInv ==
    /\ Outstanding <= base + since
    /\ base + since + Held <= staleness + 1
    /\ base + since <= MaxRequired + 1
    /\ proc = "getting" \/ Held = 1 => base + since <= MaxRequired

EndSent == \E i \in DOMAIN queue : queue[i] = "end"

EndInv ==
    /\ main # "wait" => proc \in {"ended", "raised"}
    /\ EndSent \/ trainer = "stop" \/ stopping => main # "wait"
    /\ fails = 0 => tasks.failed = 0 /\ proc # "raised"
    /\ finishing => /\ fed = Total + 1 /\ pending = 0
                    /\ proc \in {"limit", "reaping", "ended", "raised"}
    /\ proc = "ended" => finishing /\ Active = 0
    /\ fails = 0 => \A i \in DOMAIN queue : queue[i] = "end" => i = Len(queue)
    /\ fails = 0 /\ (trainer = "stop" \/ stopping) => queue = <<>>

\* The Trainer's own steps.
HandInv ==
    /\ IF trainer = "train" THEN hand = Required ELSE hand < Required
    /\ stopping => trainer \notin {"collect", "train", "stop"}

SaveInv ==
    /\ saved.version <= version
    /\ saved.version = version =>
          /\ saved.trained <= trained
          /\ trained <= saved.trained + (localStep - 1) * Required
    /\ trainer = "over" /\ SaveFreq > 0 => saved.version = version

FullyInv == FullyTypeOK /\ LockInv /\ QuotaInv /\ EndInv /\ HandInv /\ SaveInv

-----------------------------------------------------------------------------
(* Queues                                                                  *)

LEMMA Sizes ==
    /\ Required \in Nat \ {0} /\ Trigger \in Nat \ {0} /\ MaxConcurrent \in Nat \ {0}
    /\ Total \in Nat \ {0} /\ MaxRequired \in Nat \ {0} /\ SaveFreq \in Nat
    /\ MaxFails \in Nat
  BY FullyAsyncAssumption

LEMMA SamplesFinite ==
    ASSUME NEW q \in Seq(Entry)
    PROVE  /\ IsFiniteSet({i \in DOMAIN q : q[i] # "end"})
           /\ Cardinality({i \in DOMAIN q : q[i] # "end"}) \in 0 .. Len(q)
<1>1. DOMAIN q = 1 .. Len(q) /\ Len(q) \in Nat
  OBVIOUS
<1>2. IsFiniteSet(1 .. Len(q)) /\ Cardinality(1 .. Len(q)) = Len(q)
  <2>1. 1 \in Int /\ Len(q) \in Int /\ (IF 1 > Len(q) THEN 0 ELSE Len(q) - 1 + 1) = Len(q)
    BY <1>1
  <2>. QED
    BY <2>1, FS_Interval, Zenon
<1>3. {i \in DOMAIN q : q[i] # "end"} \in SUBSET (1 .. Len(q))
  BY <1>1, Zenon
<1>. QED
  BY <1>1, <1>2, <1>3, FS_Subset, FS_CardinalityType

LEMMA SamplesCount ==
    ASSUME NEW q \in Seq(Entry)
    PROVE  Samples(q) \in Nat /\ Samples(q) <= Len(q) /\ Len(q) \in Nat
<1>1. Samples(q) \in 0 .. Len(q)
  BY SamplesFinite DEF Samples
<1>2. Len(q) \in Nat
  OBVIOUS
<1>. QED
  BY <1>1, <1>2

\* An entry more is at most a sample more.
LEMMA SamplesOfAppend ==
    ASSUME NEW q \in Seq(Entry), NEW x \in Entry
    PROVE  Samples(Append(q, x)) <= Samples(q) + (IF x = "end" THEN 0 ELSE 1)
<1>. DEFINE S == {i \in DOMAIN q : q[i] # "end"}
            T == {i \in DOMAIN Append(q, x) : Append(q, x)[i] # "end"}
<1>1. /\ Append(q, x) \in Seq(Entry) /\ Len(Append(q, x)) = Len(q) + 1 /\ Len(q) \in Nat
      /\ \A i \in 1 .. Len(q) : Append(q, x)[i] = q[i]
      /\ Append(q, x)[Len(q) + 1] = x
  BY AppendProperties, LenProperties
<1>2. DOMAIN q = 1 .. Len(q) /\ DOMAIN Append(q, x) = 1 .. Len(q) + 1
  BY <1>1
<1>3. T = IF x = "end" THEN S ELSE S \cup {Len(q) + 1}
  BY <1>1, <1>2
<1>4. Len(q) + 1 \notin S
  BY <1>1, <1>2
<1>5. IsFiniteSet(S) /\ Cardinality(S) \in Nat
  BY SamplesFinite, FS_CardinalityType
<1>6. Cardinality(S \cup {Len(q) + 1}) = Cardinality(S) + 1
  BY <1>4, <1>5, FS_AddElement
<1>7. Samples(q) = Cardinality(S) /\ Samples(Append(q, x)) = Cardinality(T)
  BY DEF Samples
<1>. HIDE DEF S, T
<1>. QED
  BY <1>3, <1>5, <1>6, <1>7

LEMMA SamplesOfTail ==
    ASSUME NEW q \in Seq(Entry), q # <<>>
    PROVE  /\ Tail(q) \in Seq(Entry) /\ Len(Tail(q)) = Len(q) - 1
           /\ \A i \in 1 .. Len(q) - 1 : Tail(q)[i] = q[i + 1]
           /\ Samples(Tail(q)) <= Samples(q)
<1>. DEFINE S == {i \in DOMAIN q : q[i] # "end"}
            T == {i \in DOMAIN Tail(q) : Tail(q)[i] # "end"}
            f == [i \in T |-> i + 1]
<1>1. /\ Tail(q) \in Seq(Entry) /\ Len(Tail(q)) = Len(q) - 1 /\ Len(q) \in Nat \ {0}
      /\ \A i \in 1 .. Len(Tail(q)) : Tail(q)[i] = q[i + 1]
  BY HeadTailProperties, LenProperties, EmptySeq
<1>2. DOMAIN q = 1 .. Len(q) /\ DOMAIN Tail(q) = 1 .. Len(q) - 1
  BY <1>1
<1>3. \A i \in T : i \in Nat /\ i + 1 \in S
  BY <1>1, <1>2
<1>4. f \in Injection(T, S)
  <2>1. f \in [T -> S]
    BY <1>3
  <2>2. \A i, j \in T : f[i] = f[j] => i = j
    BY <1>3
  <2>. QED
    BY <2>1, <2>2 DEF Injection, IsInjective
<1>5. IsFiniteSet(S)
  BY SamplesFinite
<1>. QED
  BY <1>1, <1>4, <1>5, FS_Injection DEF Samples

\* What a put does, whether the queue was full or not.
LEMMA Putting ==
    ASSUME FullyTypeOK, NEW x \in Entry, PutSample(x)
    PROVE  /\ queue' \in Seq(Entry) /\ Len(queue') \in Nat /\ queue'[Len(queue')] = x
           /\ Samples(queue') <= Samples(queue) + (IF x = "end" THEN 0 ELSE 1)
           /\ EndSent' => EndSent \/ x = "end"
           /\ ~EndSent => \A i \in DOMAIN queue' : queue'[i] = "end" => i = Len(queue')
<1>. DEFINE q == IF Len(queue) >= MaxRequired THEN Tail(queue) ELSE queue
<1>1. queue \in Seq(Entry) /\ Len(queue) \in Nat /\ MaxRequired \in Nat \ {0}
  BY Sizes DEF FullyTypeOK
<1>2. Len(queue) >= MaxRequired => queue # <<>>
  BY <1>1
<1>3. /\ q \in Seq(Entry) /\ Samples(q) <= Samples(queue)
      /\ \A i \in DOMAIN q : \E j \in DOMAIN queue : q[i] = queue[j]
  <2>1. CASE Len(queue) >= MaxRequired
    <3>1. /\ Tail(queue) \in Seq(Entry) /\ Len(Tail(queue)) = Len(queue) - 1
          /\ \A i \in 1 .. Len(queue) - 1 : Tail(queue)[i] = queue[i + 1]
          /\ Samples(Tail(queue)) <= Samples(queue)
      BY <1>1, <1>2, <2>1, SamplesOfTail
    <3>2. q = Tail(queue)
      BY <2>1
    <3>. HIDE DEF q
    <3>3. DOMAIN q = 1 .. Len(queue) - 1 /\ DOMAIN queue = 1 .. Len(queue)
      BY <1>1, <3>1, <3>2
    <3>4. \A i \in DOMAIN q : i + 1 \in DOMAIN queue /\ q[i] = queue[i + 1]
      BY <1>1, <3>1, <3>2, <3>3
    <3>. QED
      BY <3>1, <3>2, <3>4
  <2>2. CASE ~(Len(queue) >= MaxRequired)
    <3>1. q = queue
      BY <2>2
    <3>2. Samples(queue) <= Samples(queue)
      BY <1>1, SamplesCount
    <3>. HIDE DEF q
    <3>. QED
      BY <1>1, <3>1, <3>2
  <2>. QED
    BY <2>1, <2>2
<1>4. queue' = Append(q, x)
  BY DEF PutSample
<1>. HIDE DEF q
<1>5. /\ queue' \in Seq(Entry) /\ Len(queue') = Len(q) + 1 /\ Len(q) \in Nat
      /\ \A i \in 1 .. Len(q) : queue'[i] = q[i]
      /\ queue'[Len(q) + 1] = x
      /\ DOMAIN queue' = 1 .. Len(q) + 1 /\ DOMAIN q = 1 .. Len(q)
  BY <1>3, <1>4, AppendProperties, LenProperties
<1>6. Samples(queue') <= Samples(queue) + (IF x = "end" THEN 0 ELSE 1)
  <2>1. Samples(queue') <= Samples(q) + (IF x = "end" THEN 0 ELSE 1)
    BY <1>3, <1>4, SamplesOfAppend
  <2>2. Samples(queue) \in Nat /\ Samples(q) \in Nat /\ Samples(queue') \in Nat
    BY <1>1, <1>3, <1>5, SamplesCount
  <2>. QED
    BY <1>3, <2>1, <2>2
<1>7. \A i \in DOMAIN queue' : i # Len(queue') => \E j \in DOMAIN queue : queue'[i] = queue[j]
  BY <1>3, <1>5
<1>8. \A i \in DOMAIN queue' : queue'[i] = "end" => EndSent \/ (i = Len(queue') /\ x = "end")
  BY <1>5, <1>7 DEF EndSent
<1>. QED
  BY <1>5, <1>6, <1>8 DEF EndSent

-----------------------------------------------------------------------------
(* Types                                                                   *)

LEMMA FullyInitInv == Init => FullyInv
<1> SUFFICES ASSUME Init PROVE FullyInv
  OBVIOUS
<1>. USE DEF Init
<1>1. Samples(queue) = 0
  <2>1. {i \in DOMAIN <<>> : <<>>[i] # "end"} = {}
    OBVIOUS
  <2>. QED
    BY <2>1, FS_EmptySet DEF Samples
<1>2. Active = 0 /\ Outstanding = 0 /\ tasks.failed = 0
  BY <1>1 DEF Active, Over, Outstanding, Stage
<1>3. FullyTypeOK
  <2>1. tasks \in [Stage -> Nat] /\ saved \in [version : Nat, trained : Nat] /\ queue \in Seq(Entry)
    OBVIOUS
  <2>2. localStep \in 1 .. Trigger
    BY Sizes
  <2>. QED
    BY <2>1, <2>2 DEF FullyTypeOK
<1>4. LockInv /\ QuotaInv
  BY <1>2, Sizes DEF LockInv, QuotaInv, Held
<1>5. EndInv
  BY <1>2 DEF EndInv, EndSent
<1>6. HandInv /\ SaveInv
  BY Sizes DEF HandInv, SaveInv
<1>. QED
  BY <1>3, <1>4, <1>5, <1>6 DEF FullyInv

LEMMA StageCounts ==
    ASSUME FullyTypeOK
    PROVE  /\ tasks.generating \in Nat /\ tasks.ready \in Nat /\ tasks.stored \in Nat
           /\ tasks.done \in Nat /\ tasks.failed \in Nat
  BY DEF FullyTypeOK, Stage

LEMMA MoveTypes ==
    ASSUME FullyTypeOK, NEW from \in Stage, NEW to \in Stage, from # to, tasks[from] > 0
    PROVE  Move(from, to) \in [Stage -> Nat]
<1>1. tasks \in [Stage -> Nat]
  BY DEF FullyTypeOK
<1>2. tasks[from] - 1 \in Nat /\ tasks[to] + 1 \in Nat
  BY <1>1
<1>. QED
  BY <1>1, <1>2 DEF Move

LEMMA TasksKeepTypes ==
    ASSUME FullyTypeOK, Feed \/ Tasks \/ FailTask
    PROVE  FullyTypeOK'
<1>1. CASE Feed
  <2>1. fed' \in Nat /\ pending' \in Nat
    BY <1>1 DEF Feed, FullyTypeOK
  <2>2. UNCHANGED <<proc, finishing, staleness, lock, tasks, fails, main, queue, trainer, hand,
                    trained, localStep, version, saved, stopping, counted, base, since>>
    BY <1>1, Zenon DEF Feed, procVars, taskVars, trainVars, quotaVars
  <2>. QED
    BY <2>1, <2>2 DEF FullyTypeOK
<1>2. CASE Generate \/ FailTask \/ Store \/ TaskReturns
  <2>1. tasks' \in [Stage -> Nat]
    <3>1. \E from, to \in Stage : from # to /\ tasks[from] > 0 /\ tasks' = Move(from, to)
      BY <1>2 DEF Generate, FailTask, Store, TaskReturns, Stage
    <3>. QED
      BY <3>1, MoveTypes
  <2>2. queue' \in Seq(Entry)
    BY <1>2, Putting DEF Generate, FailTask, Store, TaskReturns, Entry, FullyTypeOK
  <2>3. fails' \in Nat
    BY <1>2 DEF Generate, FailTask, Store, TaskReturns, FullyTypeOK
  <2>4. UNCHANGED <<fed, pending, proc, finishing, staleness, lock, main, trainer, hand,
                    trained, localStep, version, saved, stopping, counted, base, since>>
    BY <1>2, Zenon
    DEF Generate, FailTask, Store, TaskReturns, feedVars, procVars, trainVars, quotaVars
  <2>. QED
    BY <2>1, <2>2, <2>3, <2>4 DEF FullyTypeOK
<1>. QED
  BY <1>1, <1>2 DEF Tasks

LEMMA ProcessorKeepsTypes ==
    ASSUME FullyTypeOK, Processor
    PROVE  FullyTypeOK'
<1>. DEFINE State == {"top", "asked", "pausing", "draining", "getting", "limit", "reaping",
                      "ended", "raised"}
            Lock == {"free", "processor", "reset"}
<1>1. UNCHANGED <<fed, fails, main, queue, trainer, hand, trained, localStep, version, saved,
                  stopping, counted, base>>
  BY Zenon DEF Processor, ProcAsk, ProcDecide, ProcPause, ProcResume, ProcDrain, ProcGet,
               ProcReap, ProcLock, ProcSubmit, ProcEnd, feedVars, taskVars, trainVars, quotaVars
<1>2. tasks' \in [Stage -> Nat]
  <2>1. CASE ProcDrain
    <3>1. PICK d \in 0 .. tasks.done, f \in 0 .. tasks.failed :
              tasks' = [tasks EXCEPT !.done = @ - d, !.failed = @ - f]
      BY <2>1 DEF ProcDrain
    <3>2. tasks.done - d \in Nat /\ tasks.failed - f \in Nat
      BY StageCounts
    <3>. QED
      BY <3>1, <3>2 DEF Stage, FullyTypeOK
  <2>2. CASE ProcReap
    <3>1. tasks \in [Stage -> Nat]
      BY DEF FullyTypeOK
    <3>2. tasks' = [tasks EXCEPT !.done = 0, !.failed = 0]
      BY <2>2 DEF ProcReap
    <3>. QED
      BY <3>1, <3>2
  <2>3. CASE ProcSubmit
    <3>1. tasks.generating + 1 \in Nat
      BY StageCounts
    <3>2. tasks' = [tasks EXCEPT !.generating = tasks.generating + 1]
      BY <2>3 DEF ProcSubmit
    <3>3. tasks \in [Stage -> Nat]
      BY DEF FullyTypeOK
    <3>. QED
      BY <3>1, <3>2, <3>3
  <2>4. CASE UNCHANGED tasks
    BY <2>4 DEF FullyTypeOK
  <2>. QED
    BY <2>1, <2>2, <2>3, <2>4, Zenon
    DEF Processor, ProcAsk, ProcDecide, ProcPause, ProcResume, ProcLock, ProcGet, ProcEnd,
        taskVars
<1>3. proc' \in State
  BY DEF Processor, ProcAsk, ProcDecide, ProcPause, ProcResume, ProcDrain, ProcGet, ProcReap,
         ProcLock, ProcSubmit, ProcEnd
<1>4. lock' \in Lock
  <2>1. lock' \in {lock, "free", "processor"}
    BY Zenon DEF Processor, ProcAsk, ProcDecide, ProcPause, ProcResume, ProcDrain, ProcGet,
                 ProcReap, ProcLock, ProcSubmit, ProcEnd
  <2>. QED
    BY <2>1 DEF FullyTypeOK
<1>5. pending' \in Nat /\ staleness' \in Nat /\ since' \in Nat /\ finishing' \in BOOLEAN
  <2>1. CASE ProcGet
    <3>1. finishing' \in BOOLEAN /\ since' = since
      BY <2>1 DEF ProcGet, NextIsEnd, quotaVars
    <3>2. pending > 0 /\ pending' = pending - 1 /\ staleness' = staleness + 1
      BY <2>1 DEF ProcGet
    <3>. QED
      BY <3>1, <3>2 DEF FullyTypeOK
  <2>2. CASE ProcSubmit
    <3>1. UNCHANGED <<pending, staleness, finishing>> /\ since' = since + 1
      BY <2>2 DEF ProcSubmit, feedVars
    <3>. QED
      BY <3>1 DEF FullyTypeOK
  <2>3. CASE UNCHANGED <<pending, staleness, since, finishing>>
    BY <2>3 DEF FullyTypeOK
  <2>. QED
    BY <2>1, <2>2, <2>3, Zenon
    DEF Processor, ProcAsk, ProcDecide, ProcPause, ProcResume, ProcDrain, ProcReap, ProcLock,
        ProcEnd, feedVars, quotaVars
<1>. QED
  BY <1>1, <1>2, <1>3, <1>4, <1>5 DEF FullyTypeOK

LEMMA ActiveIsNat ==
    ASSUME FullyTypeOK
    PROVE  /\ tasks.generating \in Nat /\ tasks.ready \in Nat /\ tasks.stored \in Nat
           /\ tasks.done \in Nat /\ tasks.failed \in Nat
           /\ Active \in Nat /\ Samples(queue) \in Nat /\ Outstanding \in Nat
           /\ Outstanding <= Active + Len(queue) /\ Len(queue) \in Nat
<1>1. Samples(queue) \in Nat /\ Samples(queue) <= Len(queue) /\ Len(queue) \in Nat
  BY SamplesCount DEF FullyTypeOK
<1>2. /\ Active = tasks.generating + tasks.ready + tasks.stored + (tasks.done + tasks.failed)
      /\ Outstanding = tasks.generating + tasks.ready + Samples(queue)
  BY DEF Active, Over, Outstanding
<1>3. /\ tasks.generating \in Nat /\ tasks.ready \in Nat /\ tasks.stored \in Nat
      /\ tasks.done \in Nat /\ tasks.failed \in Nat
  BY StageCounts
<1>4. Active \in Nat /\ Outstanding \in Nat
  <2>1. \A a, b, c \in Nat : a + b \in Nat /\ a + b + c \in Nat
    OBVIOUS
  <2>2. Over \in Nat /\ tasks.generating + tasks.ready + tasks.stored \in Nat
    BY <1>3, <2>1 DEF Over
  <2>3. Active = (tasks.generating + tasks.ready + tasks.stored) + Over
    BY DEF Active
  <2>4. Active \in Nat
    BY <2>2, <2>3
  <2>5. Outstanding \in Nat
    BY <1>1, <1>3, <2>1 DEF Outstanding
  <2>. QED
    BY <2>4, <2>5
<1>5. Outstanding <= Active + Len(queue)
  <2>1. ASSUME NEW a \in Nat, NEW b \in Nat, NEW c \in Nat, NEW d \in Nat, NEW e \in Nat,
               NEW n \in Nat, NEW l \in Nat, n <= l
        PROVE  a + b + n <= a + b + c + (d + e) + l
    BY <2>1
  <2>. QED
    BY <1>1, <1>2, <1>3, <2>1, Zenon
<1>. QED
  BY <1>1, <1>3, <1>4, <1>5, Zenon

LEMMA OthersKeepTypes ==
    ASSUME FullyTypeOK, Main \/ Monitor \/ Trainer
    PROVE  FullyTypeOK'
<1>1. CASE Main
  <2>1. queue' \in Seq(Entry) /\ main' \in {"wait", "ending", "over"}
    BY <1>1, Putting DEF Main, MainPutsEnd, MainStops, Entry, FullyTypeOK
  <2>2. UNCHANGED <<fed, pending, proc, finishing, staleness, lock, tasks, fails, trainer, hand,
                    trained, localStep, version, saved, stopping, counted, base, since>>
    BY <1>1, Zenon
    DEF Main, MainPutsEnd, MainStops, feedVars, procVars, taskVars, trainVars, quotaVars
  <2>. QED
    BY <2>1, <2>2 DEF FullyTypeOK
<1>2. CASE Monitor
  <2>1. UNCHANGED <<fed, pending, proc, finishing, staleness, lock, tasks, fails, main, queue,
                    trainer, hand, trained, localStep, version, saved, stopping, counted, base,
                    since>>
    BY <1>2, Zenon
    DEF Monitor, MonitorAsk, MonitorDecide, MonitorResume, feedVars, procVars, taskVars,
        trainVars, quotaVars
  <2>. QED
    BY <2>1 DEF FullyTypeOK
<1>3. CASE Trainer
  <2>. DEFINE State == {"collect", "train", "abort", "resume", "reset", "counting", "save",
                        "stop", "over"}
  <2>1. UNCHANGED <<fed, pending, proc, finishing, tasks, fails, main>>
    BY <1>3, Zenon
    DEF Trainer, Take, Train, Abort, Resume, Stop, Save, ResetBegin, ResetCount, feedVars,
        procVars, taskVars
  <2>2. trainer' \in State
    BY <1>3 DEF Trainer, Take, Train, Abort, Resume, Stop, Save, ResetBegin, ResetCount
  <2>3. lock' \in {"free", "processor", "reset"}
    <3>1. lock' \in {lock, "free", "reset"}
      BY <1>3, Zenon
      DEF Trainer, Take, Train, Abort, Resume, Stop, Save, ResetBegin, ResetCount
    <3>. QED
      BY <3>1 DEF FullyTypeOK
  <2>4. staleness' \in Nat /\ counted' \in Nat /\ base' \in Nat /\ since' \in Nat
    <3>1. CASE ResetBegin
      <4>1. counted' = Active /\ UNCHANGED <<staleness, base, since>>
        BY <3>1 DEF ResetBegin, quotaVars
      <4>. QED
        BY <4>1, ActiveIsNat DEF FullyTypeOK
    <3>2. CASE ResetCount
      <4>1. /\ staleness' = counted + Len(queue) /\ base' = Outstanding
            /\ since' = 0 /\ counted' = 0
        BY <3>2 DEF ResetCount
      <4>2. counted \in Nat
        BY DEF FullyTypeOK
      <4>. QED
        BY <4>1, <4>2, ActiveIsNat
    <3>3. CASE UNCHANGED <<staleness, counted, base, since>>
      BY <3>3 DEF FullyTypeOK
    <3>. QED
      BY <1>3, <3>1, <3>2, <3>3, Zenon
      DEF Trainer, Take, Train, Abort, Resume, Stop, Save, quotaVars
  <2>5. hand' \in Nat /\ queue' \in Seq(Entry)
    <3>1. CASE Take
      BY <3>1, SamplesOfTail DEF Take, FullyTypeOK
    <3>2. CASE Train
      BY <3>2 DEF Train, FullyTypeOK
    <3>3. CASE UNCHANGED <<hand, queue>>
      BY <3>3 DEF FullyTypeOK
    <3>. QED
      BY <1>3, <3>1, <3>2, <3>3, Zenon
      DEF Trainer, Abort, Resume, Stop, Save, ResetBegin, ResetCount
  <2>6. trained' \in Nat /\ version' \in Nat /\ localStep' \in 1 .. Trigger
    <3>1. CASE Train
      <4>1. trained' = trained + Required /\ version' \in {version, version + 1}
        BY <3>1 DEF Train
      <4>2. localStep' \in 1 .. Trigger
        BY <3>1, Sizes DEF Train, FullyTypeOK
      <4>. QED
        BY <4>1, <4>2, Sizes DEF FullyTypeOK
    <3>2. CASE UNCHANGED <<trained, version, localStep>>
      BY <3>2 DEF FullyTypeOK
    <3>. QED
      BY <1>3, <3>1, <3>2, Zenon
      DEF Trainer, Take, Abort, Resume, Stop, Save, ResetBegin, ResetCount
  <2>7. saved' \in [version : Nat, trained : Nat] /\ stopping' \in BOOLEAN
    <3>1. CASE Save
      <4>1. stopping' = stopping /\ saved' \in {saved, [version |-> version, trained |-> trained]}
        BY <3>1 DEF Save
      <4>. QED
        BY <4>1 DEF FullyTypeOK
    <3>2. CASE UNCHANGED saved /\ stopping' \in {stopping, TRUE}
      BY <3>2 DEF FullyTypeOK
    <3>. QED
      BY <1>3, <3>1, <3>2, Zenon
      DEF Trainer, Take, Train, Abort, Resume, Stop, ResetBegin, ResetCount
  <2>. QED
    BY <2>1, <2>2, <2>3, <2>4, <2>5, <2>6, <2>7 DEF FullyTypeOK
<1>. QED
  BY <1>1, <1>2, <1>3

-----------------------------------------------------------------------------
(* How steps change the counts                                             *)

LEMMA FullyTypesKept == ASSUME FullyTypeOK, [Next]_vars PROVE FullyTypeOK'
<1>1. CASE UNCHANGED vars
  BY <1>1 DEF vars, FullyTypeOK, feedVars, procVars, taskVars, trainVars, quotaVars
<1>. QED
  BY <1>1, TasksKeepTypes, ProcessorKeepsTypes, OthersKeepTypes DEF Next

\* A task that moves is active before and after; nothing new is outstanding.
LEMMA TasksMove ==
    ASSUME FullyTypeOK, Tasks \/ FailTask
    PROVE  Active' = Active /\ Active > 0 /\ Outstanding' <= Outstanding
<1>1. /\ tasks.generating \in Nat /\ tasks.ready \in Nat /\ tasks.stored \in Nat
      /\ tasks.done \in Nat /\ tasks.failed \in Nat /\ Samples(queue) \in Nat
  BY StageCounts, ActiveIsNat
<1>. USE <1>1 DEF Active, Over, Outstanding
<1>2. CASE Generate
  <2>1. /\ tasks.generating > 0 /\ tasks'.generating = tasks.generating - 1
        /\ tasks'.ready = tasks.ready + 1 /\ tasks'.stored = tasks.stored
        /\ tasks'.done = tasks.done /\ tasks'.failed = tasks.failed /\ queue' = queue
    BY <1>2 DEF Generate, Move, FullyTypeOK, Stage
  <2>. QED
    BY <2>1
<1>3. CASE FailTask
  <2>1. /\ tasks.generating > 0 /\ tasks'.generating = tasks.generating - 1
        /\ tasks'.ready = tasks.ready /\ tasks'.stored = tasks.stored
        /\ tasks'.done = tasks.done /\ tasks'.failed = tasks.failed + 1 /\ queue' = queue
    BY <1>3 DEF FailTask, Move, FullyTypeOK, Stage
  <2>. QED
    BY <2>1
<1>4. CASE Store
  <2>1. /\ tasks.ready > 0 /\ tasks'.generating = tasks.generating
        /\ tasks'.ready = tasks.ready - 1 /\ tasks'.stored = tasks.stored + 1
        /\ tasks'.done = tasks.done /\ tasks'.failed = tasks.failed
    BY <1>4 DEF Store, Move, FullyTypeOK, Stage
  <2>2. Samples(queue') \in Nat /\ Samples(queue') <= Samples(queue) + 1
    BY <1>4, Putting, SamplesCount DEF Store, Entry
  <2>. QED
    BY <2>1, <2>2
<1>5. CASE TaskReturns
  <2>1. /\ tasks.stored > 0 /\ tasks'.generating = tasks.generating
        /\ tasks'.ready = tasks.ready /\ tasks'.stored = tasks.stored - 1
        /\ tasks'.done = tasks.done + 1 /\ tasks'.failed = tasks.failed /\ queue' = queue
    BY <1>5 DEF TaskReturns, Move, FullyTypeOK, Stage
  <2>. QED
    BY <2>1
<1>. QED
  BY <1>2, <1>3, <1>4, <1>5 DEF Tasks

\* The processor takes tasks out when they are over, and adds one.
LEMMA ProcessorMoves ==
    ASSUME FullyTypeOK, Processor
    PROVE  /\ queue' = queue
           /\ IF ProcSubmit THEN Outstanding' = Outstanding + 1 ELSE Outstanding' = Outstanding
           /\ ~(ProcSubmit \/ ProcDrain \/ ProcReap) => tasks' = tasks
<1>1. queue' = queue
  BY DEF Processor, ProcAsk, ProcDecide, ProcPause, ProcDrain, ProcResume, ProcGet, ProcLock,
     ProcReap, ProcSubmit, ProcEnd
<1>2. ~(ProcSubmit \/ ProcDrain \/ ProcReap) => tasks' = tasks
  BY DEF Processor, ProcAsk, ProcDecide, ProcPause, ProcResume, ProcGet, ProcLock, ProcEnd,
     taskVars
<1>3. CASE ProcSubmit
  <2>1. tasks'.generating = tasks.generating + 1 /\ tasks'.ready = tasks.ready
    BY <1>3 DEF ProcSubmit, FullyTypeOK, Stage
  <2>2. Outstanding = tasks.generating + tasks.ready + Samples(queue)
        /\ Outstanding' = (tasks.generating + 1) + tasks.ready + Samples(queue)
    BY <1>1, <2>1, Zenon DEF Outstanding
  <2>3. Outstanding' = Outstanding + 1
    <3>1. tasks.generating \in Nat /\ tasks.ready \in Nat /\ Samples(queue) \in Nat
      BY ActiveIsNat
    <3>. QED
      BY <2>2, <3>1
  <2>. QED
    BY <1>1, <1>2, <1>3, <2>3
<1>4. CASE (ProcDrain \/ ProcReap) /\ ~ProcSubmit
  <2>1. tasks'.generating = tasks.generating /\ tasks'.ready = tasks.ready
    BY <1>4 DEF ProcDrain, ProcReap, FullyTypeOK, Stage
  <2>. QED
    BY <1>1, <1>2, <1>4, <2>1 DEF Outstanding
<1>5. CASE ~(ProcSubmit \/ ProcDrain \/ ProcReap)
  BY <1>1, <1>2, <1>5 DEF Outstanding
<1>. QED
  BY <1>3, <1>4, <1>5, <1>1, <1>2

\* Everybody else leaves the tasks alone and adds no sample.
LEMMA OthersMove ==
    ASSUME FullyTypeOK, Feed \/ Main \/ Monitor \/ Trainer \/ UNCHANGED vars
    PROVE  tasks' = tasks /\ fails' = fails /\ Active' = Active /\ Outstanding' <= Outstanding
<1>1. tasks' = tasks /\ fails' = fails
  BY DEF Feed, Main, MainPutsEnd, MainStops, Monitor, MonitorAsk, MonitorDecide, MonitorResume,
     Trainer, Take, Train, Abort, Resume, ResetBegin, ResetCount, Save, Stop, vars, taskVars
<1>2. Samples(queue') <= Samples(queue)
  <2>1. CASE MainPutsEnd
    <3>1. Samples(queue') <= Samples(queue) + 0
      BY <2>1, Putting DEF MainPutsEnd, Entry
    <3>2. Samples(queue') \in Nat /\ Samples(queue) \in Nat
      BY <2>1, Putting, SamplesCount DEF MainPutsEnd, Entry, FullyTypeOK
    <3>. QED
      BY <3>1, <3>2
  <2>2. CASE Take
    BY <2>2, SamplesOfTail DEF Take, FullyTypeOK
  <2>3. CASE ~MainPutsEnd /\ ~Take
    <3>1. queue' = queue
      BY <2>3 DEF Feed, Main, MainStops, Monitor, MonitorAsk, MonitorDecide, MonitorResume,
         Trainer, Train, Abort, Resume, ResetBegin, ResetCount, Save, Stop, vars
    <3>. QED
      BY <3>1, ActiveIsNat
  <2>. QED
    BY <2>1, <2>2, <2>3
<1>3. Samples(queue') \in Nat
  <2>1. FullyTypeOK'
    BY FullyTypesKept DEF Next
  <2>. QED
    BY <2>1, SamplesCount DEF FullyTypeOK
<1>4. Active' = Active
  BY <1>1 DEF Active, Over
<1>5. Outstanding' <= Outstanding
  <2>1. Outstanding' = tasks.generating + tasks.ready + Samples(queue')
    BY <1>1 DEF Outstanding
  <2>2. /\ tasks.generating \in Nat /\ tasks.ready \in Nat /\ Samples(queue) \in Nat
        /\ Outstanding = tasks.generating + tasks.ready + Samples(queue)
    BY ActiveIsNat DEF Outstanding
  <2>. QED
    BY <1>2, <1>3, <2>1, <2>2
<1>. QED
  BY <1>1, <1>4, <1>5

-----------------------------------------------------------------------------
(* The lock and the quota                                                  *)

LEMMA LockKept == ASSUME FullyTypeOK, LockInv, [Next]_vars PROVE LockInv'
<1>1. CASE Tasks \/ FailTask
  <2>1. UNCHANGED <<lock, proc, trainer, counted>>
    BY <1>1 DEF Tasks, FailTask, Generate, Store, TaskReturns, procVars, trainVars
  <2>. QED
    BY <1>1, <2>1, TasksMove DEF LockInv
<1>2. CASE Feed \/ Main \/ Monitor \/ UNCHANGED vars
  <2>1. UNCHANGED <<lock, proc, trainer, counted>>
    BY <1>2 DEF Feed, Main, MainPutsEnd, MainStops, Monitor, MonitorAsk, MonitorDecide,
       MonitorResume, vars, procVars, trainVars
  <2>. QED
    BY <1>2, <2>1, OthersMove DEF LockInv
<1>3. CASE Trainer
  <2>1. Active' = Active /\ proc' = proc
    BY <1>3, OthersMove DEF Trainer, Take, Train, Abort, Resume, ResetBegin, ResetCount, Save, Stop,
       procVars
  <2>2. CASE ResetBegin \/ ResetCount
    BY <2>1, <2>2 DEF LockInv, ResetBegin, ResetCount
  <2>3. CASE ~ResetBegin /\ ~ResetCount
    <3>1. lock' = lock /\ counted' = counted /\ trainer # "counting" /\ trainer' # "counting"
      BY <1>3, <2>3 DEF Trainer, Take, Train, Abort, Resume, Save, Stop
    <3>. QED
      BY <2>1, <3>1 DEF LockInv
  <2>. QED
    BY <2>2, <2>3
<1>4. CASE Processor
  <2>1. trainer' = trainer /\ counted' = counted
    BY <1>4 DEF Processor, ProcAsk, ProcDecide, ProcPause, ProcDrain, ProcResume, ProcGet, ProcLock,
       ProcReap, ProcSubmit, ProcEnd, trainVars
  <2>2. CASE ProcDrain \/ ProcReap \/ ProcSubmit
    <3>1. trainer # "counting" /\ lock' = "free" /\ proc' # "reaping"
      BY <2>2 DEF LockInv, ProcDrain, ProcReap, ProcSubmit
    <3>. QED
      BY <2>1, <3>1 DEF LockInv
  <2>3. CASE ~(ProcDrain \/ ProcReap \/ ProcSubmit)
    <3>1. Active' = Active
      BY <1>4, <2>3, ProcessorMoves DEF Active, Over
    <3>2. (lock' = lock /\ proc # "reaping" /\ proc' # "reaping") \/ ProcLock
      BY <1>4, <2>3 DEF Processor, ProcAsk, ProcDecide, ProcPause, ProcResume, ProcGet, ProcEnd
    <3>3. ProcLock => trainer # "counting" /\ lock' = "processor" /\ proc' = "reaping"
      BY DEF LockInv, ProcLock
    <3>. QED
      BY <2>1, <3>1, <3>2, <3>3 DEF LockInv
  <2>. QED
    BY <2>2, <2>3
<1>. QED
  BY <1>1, <1>2, <1>3, <1>4 DEF Next

\* Only the processor raises staleness, and only the reset writes it anew.
LEMMA QuotaKept ==
    ASSUME FullyTypeOK, LockInv, QuotaInv, EndInv, [Next]_vars
    PROVE  QuotaInv'
<1>1. /\ base \in Nat /\ since \in Nat /\ staleness \in Nat /\ Held \in {0, 1} /\ Held' \in {0, 1}
      /\ Outstanding \in Nat /\ counted \in Nat /\ Active \in Nat /\ Len(queue) \in Nat
  BY ActiveIsNat DEF FullyTypeOK, Held
<1>2. Outstanding' \in Nat
  <2>1. FullyTypeOK'
    BY FullyTypesKept
  <2>2. tasks'.generating \in Nat /\ tasks'.ready \in Nat /\ Samples(queue') \in Nat
    BY <2>1, SamplesCount DEF FullyTypeOK, Stage
  <2>. QED
    BY <2>2 DEF Outstanding
<1>. USE <1>1, <1>2, Sizes DEF QuotaInv
<1>3. ASSUME UNCHANGED <<base, since, staleness, proc, finishing>>, Outstanding' <= Outstanding
      PROVE  QuotaInv'
  BY <1>3 DEF Held
<1>4. CASE Tasks \/ FailTask
  <2>1. UNCHANGED <<base, since, staleness, proc, finishing>>
    BY <1>4 DEF Tasks, FailTask, Generate, Store, TaskReturns, procVars, quotaVars
  <2>. QED
    BY <1>3, <1>4, <2>1, TasksMove
<1>5. CASE (Feed \/ Main \/ Monitor \/ Trainer \/ UNCHANGED vars) /\ ~ResetCount
  <2>1. UNCHANGED <<base, since, staleness, proc, finishing>>
    BY <1>5 DEF Feed, Main, MainPutsEnd, MainStops, Monitor, MonitorAsk, MonitorDecide,
       MonitorResume, Trainer, Take, Train, Abort, Resume, ResetBegin, Save, Stop, vars,
       procVars, quotaVars
  <2>. QED
    BY <1>3, <1>5, <2>1, OthersMove
<1>6. CASE ResetCount
  <2>1. /\ base' = Outstanding /\ since' = 0 /\ staleness' = Active + Len(queue)
        /\ Held' = Held /\ proc' = proc
    BY <1>6 DEF ResetCount, LockInv, Held, procVars
  <2>2. Outstanding' <= Outstanding /\ Outstanding <= Active + Len(queue)
    BY <1>6, OthersMove, ActiveIsNat DEF Trainer
  <2>3. base' + since' = Outstanding /\ base' + since' <= base + since
    BY <2>1
  <2>4. base' + since' + Held' <= staleness' + 1
    BY <2>1, <2>2
  <2>5. proc' = "getting" \/ Held' = 1 => base' + since' <= MaxRequired
    BY <2>1, <2>3
  <2>6. base' + since' <= MaxRequired + 1
    BY <2>1, <2>3
  <2>. QED
    BY <2>2, <2>3, <2>4, <2>5, <2>6
<1>7. CASE ProcGet
  <2>1. /\ base' = base /\ since' = since /\ staleness' = staleness + 1
        /\ proc = "getting" /\ proc' = "limit" /\ Held = 0
    BY <1>7 DEF ProcGet, Held, quotaVars
  <2>2. Outstanding' = Outstanding
    BY <1>7, ProcessorMoves DEF Processor, ProcGet, ProcSubmit
  <2>3. base + since <= MaxRequired /\ base' + since' = base + since
    BY <2>1
  <2>4. base' + since' + Held' <= staleness' + 1
    <3>1. Held' = 0 \/ Held' = 1
      OBVIOUS
    <3>2. base' + since' \in Nat /\ staleness' \in Nat /\ base' + since' <= staleness'
      BY <2>1
    <3>3. base' + since' + 0 <= staleness' + 1 /\ base' + since' + 1 <= staleness' + 1
      BY <3>2
    <3>. QED
      BY <3>1, <3>3
  <2>. QED
    BY <2>1, <2>2, <2>3, <2>4
<1>8. CASE ProcSubmit
  <2>1. /\ base' = base /\ since' = since + 1 /\ staleness' = staleness
        /\ proc' = "top" /\ Held = 1 /\ Held' = 0
    BY <1>8 DEF ProcSubmit, Held
  <2>2. Outstanding' = Outstanding + 1
    BY <1>8, ProcessorMoves DEF Processor
  <2>. QED
    BY <2>1, <2>2
<1>9. CASE ProcDecide
  <2>1. /\ UNCHANGED <<base, since, staleness>> /\ Held = 0 /\ Held' = 0
        /\ proc' = "getting" => staleness < MaxRequired
    BY <1>9 DEF ProcDecide, ShouldPause, Held, quotaVars
  <2>2. Outstanding' = Outstanding
    BY <1>9, ProcessorMoves DEF Processor, ProcDecide, ProcSubmit
  <2>. QED
    BY <2>1, <2>2
<1>10. CASE Processor /\ ~ProcGet /\ ~ProcSubmit /\ ~ProcDecide
  <2>1. /\ UNCHANGED <<base, since, staleness, finishing>>
        /\ proc' # "getting"
        /\ proc' \in {"limit", "reaping"} => proc \in {"limit", "reaping"}
    BY <1>10 DEF Processor, ProcAsk, ProcPause, ProcDrain, ProcResume, ProcLock, ProcReap, ProcEnd,
       quotaVars
  <2>2. Held' <= Held
    BY <2>1 DEF Held
  <2>3. Outstanding' = Outstanding
    BY <1>10, ProcessorMoves
  <2>4. base' + since' + Held' <= staleness' + 1
    <3>1. Held' = Held \/ (Held = 1 /\ Held' = 0)
      BY <2>2
    <3>2. base + since + Held <= staleness + 1
      OBVIOUS
    <3>3. Held = 1 => base + since + 0 <= staleness + 1
      BY <3>2
    <3>. QED
      BY <2>1, <3>1, <3>2, <3>3
  <2>5. Held' = 1 => base' + since' <= MaxRequired
    BY <2>1, <2>2
  <2>. QED
    BY <2>1, <2>3, <2>4, <2>5
<1>. QED
  BY <1>4, <1>5, <1>6, <1>7, <1>8, <1>9, <1>10 DEF Next, Processor

-----------------------------------------------------------------------------
(* The end signal                                                          *)

\* Once the processor is over without a failure there is no task any more, so
\* nothing is put behind the end signal.
LEMMA OverWhenSent ==
    ASSUME EndInv, fails = 0, main # "wait"
    PROVE  proc = "ended" /\ Active = 0
  BY DEF EndInv

LEMMA FeedKeepsEnd == ASSUME EndInv, Feed PROVE EndInv'
<1>1. /\ fed < Total + 1
      /\ UNCHANGED <<main, proc, finishing, tasks, fails, queue, trainer, stopping>>
  BY DEF Feed, procVars, taskVars, trainVars
<1>2. ~finishing
  BY <1>1, Sizes DEF EndInv
<1>3. EndSent' = EndSent /\ Active' = Active
  BY <1>1 DEF EndSent, Active, Over
<1>. QED
  BY <1>1, <1>2, <1>3 DEF EndInv

LEMMA TasksKeepEnd ==
    ASSUME FullyTypeOK, EndInv, Tasks \/ FailTask
    PROVE  EndInv'
<1>1. /\ UNCHANGED <<main, proc, finishing, fed, pending, trainer, stopping>>
      /\ (fails' = fails /\ tasks'.failed = tasks.failed) \/ fails' = fails + 1
  BY DEF Tasks, FailTask, Generate, Store, TaskReturns, procVars, feedVars, trainVars, Move,
     FullyTypeOK, Stage
<1>2. Active' = Active /\ Active > 0 /\ Active \in Nat /\ fails \in Nat
  BY TasksMove, ActiveIsNat DEF FullyTypeOK
<1>3. CASE fails' # 0
  <2>1. EndSent' => EndSent
    <3>1. CASE Store
      BY <3>1, Putting DEF Store, Entry
    <3>2. CASE ~Store
      <4>1. queue' = queue
        BY <3>2 DEF Tasks, FailTask, Generate, TaskReturns
      <4>. QED
        BY <4>1 DEF EndSent
    <3>. QED
      BY <3>1, <3>2
  <2>. QED
    BY <1>1, <1>2, <1>3, <2>1 DEF EndInv
<1>4. CASE fails' = 0
  <2>1. fails = 0 /\ tasks'.failed = tasks.failed
    BY <1>1, <1>2, <1>4
  <2>2. main = "wait"
    BY <1>2, <2>1, OverWhenSent
  <2>3. ~EndSent /\ trainer # "stop" /\ ~stopping
    BY <2>2 DEF EndInv
  <2>4. ~EndSent'
    <3>1. CASE Store
      BY <2>3, <3>1, Putting DEF Store, Entry
    <3>2. CASE ~Store
      <4>1. queue' = queue
        BY <3>2 DEF Tasks, FailTask, Generate, TaskReturns
      <4>. QED
        BY <2>3, <4>1 DEF EndSent
    <3>. QED
      BY <3>1, <3>2
  <2>5. \A i \in DOMAIN queue' : queue'[i] # "end"
    BY <2>4 DEF EndSent
  <2>. QED
    BY <1>1, <1>2, <2>1, <2>2, <2>3, <2>4, <2>5 DEF EndInv
<1>. QED
  BY <1>3, <1>4

LEMMA ProcessorKeepsEnd ==
    ASSUME FullyTypeOK, EndInv, Processor
    PROVE  EndInv'
<1>1. main = "wait" /\ ~EndSent /\ trainer # "stop" /\ ~stopping
  <2>1. proc \notin {"ended", "raised"}
    BY DEF Processor, ProcAsk, ProcDecide, ProcPause, ProcDrain, ProcResume, ProcGet, ProcLock,
       ProcReap, ProcSubmit, ProcEnd
  <2>. QED
    BY <2>1 DEF EndInv
<1>2. UNCHANGED <<main, queue, trainer, stopping, fails, fed>>
  BY DEF Processor, ProcAsk, ProcDecide, ProcPause, ProcDrain, ProcResume, ProcGet, ProcLock,
     ProcReap, ProcSubmit, ProcEnd, feedVars, taskVars, trainVars
<1>3. ~EndSent' /\ \A i \in DOMAIN queue' : queue'[i] # "end"
  BY <1>1, <1>2 DEF EndSent
<1>4. fails = 0 => tasks'.failed = 0 /\ proc' # "raised"
  <2> SUFFICES ASSUME fails = 0 PROVE tasks'.failed = 0 /\ proc' # "raised"
    OBVIOUS
  <2>1. tasks.failed = 0 /\ proc # "raised"
    BY DEF EndInv
  <2>2. CASE ProcDrain
    <3>1. PICK d \in 0 .. tasks.done, f \in 0 .. tasks.failed :
              /\ tasks' = [tasks EXCEPT !.done = @ - d, !.failed = @ - f]
              /\ proc' = IF f > 0 THEN "raised" ELSE "draining"
      BY <2>2 DEF ProcDrain
    <3>2. f = 0
      BY <2>1
    <3>. QED
      BY <2>1, <3>1, <3>2 DEF FullyTypeOK, Stage
  <2>3. CASE ProcReap
    BY <2>1, <2>3 DEF ProcReap, FullyTypeOK, Stage
  <2>4. CASE ProcSubmit
    BY <2>1, <2>4 DEF ProcSubmit, FullyTypeOK, Stage
  <2>5. CASE ~ProcDrain /\ ~ProcReap /\ ~ProcSubmit
    BY <2>1, <2>5 DEF Processor, ProcAsk, ProcDecide, ProcPause, ProcResume, ProcGet, ProcLock,
       ProcEnd, taskVars
  <2>. QED
    BY <2>2, <2>3, <2>4, <2>5
<1>5. finishing' => /\ fed' = Total + 1 /\ pending' = 0
                    /\ proc' \in {"limit", "reaping", "ended", "raised"}
  <2>1. CASE ProcGet
    <3>1. pending' = pending - 1 /\ proc' = "limit" /\ fed' = fed
      BY <2>1 DEF ProcGet
    <3>2. finishing' => NextIsEnd
      BY <2>1, Zenon DEF ProcGet
    <3>. QED
      BY <3>1, <3>2 DEF NextIsEnd
  <2>2. CASE ~ProcGet
    <3>1. finishing' = finishing /\ pending' = pending
      BY <2>2 DEF Processor, ProcAsk, ProcDecide, ProcPause, ProcDrain, ProcResume, ProcLock,
         ProcReap, ProcSubmit, ProcEnd, feedVars
    <3>2. finishing => ProcLock \/ ProcReap \/ ProcEnd
      BY <2>2 DEF EndInv, Processor, ProcAsk, ProcDecide, ProcPause, ProcDrain, ProcResume, ProcSubmit
    <3>. QED
      BY <1>2, <3>1, <3>2 DEF EndInv, ProcLock, ProcReap, ProcEnd
  <2>. QED
    BY <2>1, <2>2
<1>6. proc' = "ended" => finishing' /\ Active' = 0
  <2>1. proc' = "ended" => ProcEnd
    BY DEF Processor, ProcAsk, ProcDecide, ProcPause, ProcDrain, ProcResume, ProcGet, ProcLock,
       ProcReap, ProcSubmit
  <2>2. ProcEnd => finishing' /\ Active = 0 /\ tasks' = tasks
    BY ActiveIsNat DEF ProcEnd, MustWait, taskVars
  <2>. QED
    BY <2>1, <2>2 DEF Active, Over
<1>. QED
  BY <1>1, <1>2, <1>3, <1>4, <1>5, <1>6 DEF EndInv

LEMMA OthersKeepEnd ==
    ASSUME FullyTypeOK, EndInv, HandInv, Main \/ Monitor \/ Trainer
    PROVE  EndInv'
<1>1. tasks' = tasks /\ fails' = fails /\ Active' = Active
  BY OthersMove
<1>2. UNCHANGED <<proc, finishing, fed, pending>>
  BY DEF Main, MainPutsEnd, MainStops, Monitor, MonitorAsk, MonitorDecide, MonitorResume,
     Trainer, Take, Train, Abort, Resume, ResetBegin, ResetCount, Save, Stop, procVars, feedVars
<1>3. CASE MainPutsEnd
  <2>1. main = "wait" /\ ~EndSent /\ trainer # "stop" /\ ~stopping
    BY <1>3 DEF MainPutsEnd, EndInv
  <2>2. /\ main' # "wait" /\ proc \in {"ended", "raised"}
        /\ trainer' = trainer /\ stopping' = stopping
    BY <1>3 DEF MainPutsEnd, trainVars
  <2>3. \A i \in DOMAIN queue' : queue'[i] = "end" => i = Len(queue')
    BY <1>3, <2>1, Putting DEF MainPutsEnd, Entry
  <2>. QED
    BY <1>1, <1>2, <2>1, <2>2, <2>3 DEF EndInv
<1>4. CASE Take
  <2>1. /\ queue # <<>> /\ queue' = Tail(queue) /\ trainer = "collect" /\ main' = main
        /\ stopping' = stopping
        /\ trainer' = "stop" => Head(queue) = "end"
    BY <1>4 DEF Take, HandInv
  <2>2. /\ queue \in Seq(Entry) /\ queue' \in Seq(Entry)
        /\ Len(queue) \in Nat /\ Len(queue') = Len(queue) - 1
        /\ \A i \in 1 .. Len(queue) - 1 : queue'[i] = queue[i + 1]
    BY <2>1, SamplesOfTail DEF FullyTypeOK
  <2>3. \A i \in DOMAIN queue' : i + 1 \in DOMAIN queue /\ queue'[i] = queue[i + 1]
    BY <2>2
  <2>4. EndSent' => EndSent
    BY <2>3 DEF EndSent
  <2>5. trainer' = "stop" => EndSent /\ queue[1] = "end" /\ 1 \in DOMAIN queue
    BY <2>1, <2>2 DEF EndSent
  <2>6. fails = 0 => \A i \in DOMAIN queue' : queue'[i] = "end" => i = Len(queue')
    BY <2>2, <2>3 DEF EndInv
  <2>7. fails = 0 /\ trainer' = "stop" => queue' = <<>>
    <3> SUFFICES ASSUME fails = 0, trainer' = "stop" PROVE queue' = <<>>
      OBVIOUS
    <3>1. Len(queue) = 1
      BY <2>5 DEF EndInv
    <3>. QED
      BY <2>2, <3>1
  <2>8. ~stopping
    BY <2>1 DEF HandInv
  <2>. QED
    BY <1>1, <1>2, <2>1, <2>4, <2>5, <2>6, <2>7, <2>8 DEF EndInv
<1>5. CASE ~MainPutsEnd /\ ~Take
  <2>1. /\ queue' = queue
        /\ main' = main \/ (main' # "wait" /\ main # "wait")
        /\ trainer' = "stop" \/ stopping' => trainer = "stop" \/ stopping
    BY <1>5 DEF Main, MainStops, Monitor, MonitorAsk, MonitorDecide, MonitorResume,
       Trainer, Train, Abort, Resume, ResetBegin, ResetCount, Save, Stop, trainVars
  <2>2. EndSent' = EndSent
    BY <2>1 DEF EndSent
  <2>. QED
    BY <1>1, <1>2, <2>1, <2>2 DEF EndInv
<1>. QED
  BY <1>3, <1>4, <1>5

-----------------------------------------------------------------------------
(* The Trainer's steps and what it saves                                   *)

LEMMA HandKept == ASSUME FullyTypeOK, HandInv, [Next]_vars PROVE HandInv'
<1>1. CASE ~Trainer
  <2>1. UNCHANGED <<trainer, hand, stopping>>
    BY <1>1 DEF Next, Feed, Tasks, Generate, Store, TaskReturns, FailTask, Processor, ProcAsk,
       ProcDecide, ProcPause, ProcDrain, ProcResume, ProcGet, ProcLock, ProcReap, ProcSubmit,
       ProcEnd, Main, MainPutsEnd, MainStops, Monitor, MonitorAsk, MonitorDecide, MonitorResume,
       vars, trainVars
  <2>. QED
    BY <2>1 DEF HandInv
<1>2. CASE Take
  <2>1. trainer = "collect" /\ hand \in Nat /\ hand < Required /\ ~stopping /\ stopping' = stopping
    BY <1>2 DEF Take, HandInv, FullyTypeOK
  <2>2. \/ trainer' = "stop" /\ hand' = hand
        \/ hand' = hand + 1 /\ trainer' = IF hand + 1 = Required THEN "train" ELSE "collect"
    BY <1>2 DEF Take
  <2>. QED
    BY <2>1, <2>2, Sizes DEF HandInv
<1>3. CASE Train
  BY <1>3, Sizes DEF Train, HandInv
<1>4. CASE Abort \/ Resume \/ ResetBegin \/ ResetCount \/ Save \/ Stop
  BY <1>4 DEF Abort, Resume, ResetBegin, ResetCount, Save, Stop, HandInv
<1>. QED
  BY <1>1, <1>2, <1>3, <1>4 DEF Trainer

LEMMA SaveKept == ASSUME FullyTypeOK, SaveInv, [Next]_vars PROVE SaveInv'
<1>1. /\ trained \in Nat /\ version \in Nat /\ localStep \in 1 .. Trigger /\ localStep \in Nat \ {0}
      /\ saved.version \in Nat /\ saved.trained \in Nat /\ Required \in Nat /\ Trigger \in Nat
  BY Sizes DEF FullyTypeOK
<1>2. CASE UNCHANGED <<trained, version, localStep, saved>> /\ (trainer' = "over" => trainer = "over")
  BY <1>2 DEF SaveInv
<1>3. CASE Train
  <2>1. /\ trained' = trained + Required /\ saved' = saved /\ trainer' # "over"
        /\ \/ localStep' = localStep + 1 /\ version' = version
           \/ localStep' = 1 /\ version' = version + 1
    BY <1>3 DEF Train
  <2>2. CASE localStep' = localStep + 1 /\ version' = version
    <3>1. (localStep' - 1) * Required = (localStep - 1) * Required + Required
      BY <1>1, <2>2
    <3>2. (localStep - 1) * Required \in Nat
      BY <1>1
    <3>3. saved.version = version => trained + Required <= saved.trained + (localStep' - 1) * Required
      BY <1>1, <3>1, <3>2 DEF SaveInv
    <3>. QED
      BY <1>1, <2>1, <2>2, <3>3 DEF SaveInv
  <2>3. CASE localStep' = 1 /\ version' = version + 1
    BY <1>1, <2>1, <2>3 DEF SaveInv
  <2>. QED
    BY <2>1, <2>2, <2>3
<1>4. CASE Save
  <2>1. /\ UNCHANGED <<trained, version, localStep>>
        /\ \/ saved' = [version |-> version, trained |-> trained]
           \/ saved' = saved /\ (trainer' = "over" /\ SaveFreq > 0 => saved.version = version)
    BY <1>4 DEF Save
  <2>2. CASE saved' = [version |-> version, trained |-> trained]
    <3>1. (localStep - 1) * Required \in Nat
      BY <1>1
    <3>. QED
      BY <1>1, <2>1, <2>2, <3>1 DEF SaveInv
  <2>3. CASE saved' = saved /\ (trainer' = "over" /\ SaveFreq > 0 => saved.version = version)
    BY <2>1, <2>3 DEF SaveInv
  <2>. QED
    BY <2>1, <2>2, <2>3
<1>5. CASE Trainer /\ ~Train /\ ~Save
  BY <1>2, <1>5 DEF Trainer, Take, Abort, Resume, ResetBegin, ResetCount, Stop
<1>6. CASE ~Trainer
  <2>1. UNCHANGED <<trainer, trained, version, localStep, saved>>
    BY <1>6 DEF Next, Feed, Tasks, Generate, Store, TaskReturns, FailTask, Processor, ProcAsk,
       ProcDecide, ProcPause, ProcDrain, ProcResume, ProcGet, ProcLock, ProcReap, ProcSubmit,
       ProcEnd, Main, MainPutsEnd, MainStops, Monitor, MonitorAsk, MonitorDecide, MonitorResume,
       vars, trainVars
  <2>. QED
    BY <1>2, <2>1
<1>. QED
  BY <1>3, <1>4, <1>5, <1>6

\* The lock, the quota, the end signal, the Trainer's hand and its checkpoint
\* together are inductive.
THEOREM FullyInvariant == Spec => []FullyInv
<1>1. Init => FullyInv
  BY FullyInitInv
<1>2. FullyInv /\ [Next]_vars => FullyInv'
  <2> SUFFICES ASSUME FullyInv, [Next]_vars PROVE FullyInv'
    OBVIOUS
  <2>. USE DEF FullyInv
  <2>1. EndInv'
    <3>1. CASE UNCHANGED vars
      BY <3>1 DEF vars, EndInv, EndSent, Active, Over, feedVars, procVars, taskVars, trainVars
    <3>. QED
      BY <3>1, FeedKeepsEnd, TasksKeepEnd, ProcessorKeepsEnd, OthersKeepEnd DEF Next
  <2>. QED
    BY <2>1, FullyTypesKept, LockKept, QuotaKept, HandKept, SaveKept
<1>. QED
  BY <1>1, <1>2, PTL DEF Spec

\* Between two synchronisations the Rollouter submits at most
\* max_required_samples, less what was left over, and one more: the sample the
\* processor held when reset_staleness counted.
THEOREM RolloutAlwaysBounded == Spec => []RolloutNumBounded
<1>1. FullyInv => RolloutNumBounded
  BY DEF FullyInv, QuotaInv, RolloutNumBounded
<1>. QED
  BY <1>1, FullyInvariant, PTL

\* When no generation failed the Trainer stops with nothing behind it, neither
\* in the queue nor with a task, and less than a step in its hand.
THEOREM EndAlwaysLast == Spec => []EndIsLast
<1>1. FullyInv => EndIsLast
  <2> SUFFICES ASSUME FullyInv, stopping, fails = 0
               PROVE  Outstanding = 0 /\ Active = 0 /\ pending = 0 /\ hand < Required
    BY DEF EndIsLast
  <2>. USE DEF FullyInv
  <2>1. queue = <<>> /\ proc = "ended" /\ Active = 0 /\ pending = 0
    BY DEF EndInv
  <2>2. Samples(queue) = 0
    <3>1. {i \in DOMAIN <<>> : <<>>[i] # "end"} = {}
      OBVIOUS
    <3>. QED
      BY <2>1, <3>1, FS_EmptySet DEF Samples
  <2>3. tasks.generating = 0 /\ tasks.ready = 0
    <3>1. Active = tasks.generating + tasks.ready + tasks.stored + (tasks.done + tasks.failed)
      BY Zenon DEF Active, Over
    <3>2. /\ tasks.generating \in Nat /\ tasks.ready \in Nat /\ tasks.stored \in Nat
          /\ tasks.done \in Nat /\ tasks.failed \in Nat
      BY StageCounts
    <3>3. \A a, b, c, d, e \in Nat : a + b + c + (d + e) = 0 => a = 0 /\ b = 0
      OBVIOUS
    <3>4. tasks.generating + tasks.ready + tasks.stored + (tasks.done + tasks.failed) = 0
      BY <2>1, <3>1
    <3>. QED
      BY <3>2, <3>3, <3>4
  <2>4. hand < Required
    BY DEF HandInv
  <2>. QED
    BY <2>1, <2>2, <2>3, <2>4 DEF Outstanding
<1>. QED
  BY <1>1, FullyInvariant, PTL

\* Every step but those since the last synchronisation is in the checkpoint the
\* Trainer leaves behind.
THEOREM TailAlwaysSaved == Spec => []TailIsSaved
<1>1. FullyInv => TailIsSaved
  <2> SUFFICES ASSUME FullyInv, trainer = "over", SaveFreq > 0
               PROVE  trained - saved.trained <= (Trigger - 1) * Required
    BY DEF TailIsSaved
  <2>. USE DEF FullyInv
  <2>1. /\ trained \in Nat /\ localStep \in 1 .. Trigger /\ saved.trained \in Nat
        /\ Required \in Nat /\ Trigger \in Nat
    BY Sizes DEF FullyTypeOK
  <2>2. trained <= saved.trained + (localStep - 1) * Required
    BY DEF SaveInv
  <2>3. (localStep - 1) * Required <= (Trigger - 1) * Required
    <3>1. PICK k \in Nat : Trigger - 1 = (localStep - 1) + k
      <4>1. Trigger - localStep \in Nat /\ Trigger - 1 = (localStep - 1) + (Trigger - localStep)
        BY <2>1
      <4>. QED
        BY <4>1
    <3>2. \A a, b, c \in Nat : (a + b) * c = a * c + b * c /\ b * c \in Nat /\ a * c \in Nat
      OBVIOUS
    <3>3. localStep - 1 \in Nat
      BY <2>1
    <3>4. (Trigger - 1) * Required = (localStep - 1) * Required + k * Required
      BY <2>1, <3>1, <3>2, <3>3
    <3>5. (localStep - 1) * Required \in Nat /\ k * Required \in Nat
      BY <2>1, <3>2, <3>3
    <3>. QED
      BY <3>4, <3>5
  <2>4. (localStep - 1) * Required \in Nat /\ (Trigger - 1) * Required \in Nat
    BY <2>1
  <2>. QED
    BY <2>1, <2>2, <2>3, <2>4
<1>. QED
  BY <1>1, FullyInvariant, PTL

=============================================================================
