------------------------------ MODULE Algorithms ------------------------------
(***************************************************************************)
(* The index and selection algorithms of the repository, each evaluated on *)
(* the cases of a bounded set and compared with a reference definition.    *)
(* A behaviour takes one case, computes its answer, and stops.  The turns  *)
(* of the probe layout's and of the teacher alignment's loops are steps,   *)
(* so that what the loops establish is an invariant.                       *)
(***************************************************************************)
EXTENDS ProbeLayout, StepSelection
Align   == INSTANCE TeacherAlignment
Balance == INSTANCE SequenceBalance

CONSTANTS
  ProbeCases,   \* rollouts with their reasoning steps and a probe
  StudyCases,   \* [k, correct, incorrect]: quotas and responses
  BatchCases,   \* batches of teacher, student and response lengths
  LengthCases   \* [lengths, ranks, maxTokens]: a global batch to divide

\* What the code checks before it lays out a rollout, or raises.
ASSUME ProbeAssumption ==
  /\ ProbeCases \subseteq [prompt : Nat \ {0}, response : Nat, ends : Seq(Nat),
                           probe : Nat \ {0}, answers : Seq(Nat)]
  /\ \A c \in ProbeCases :
       /\ \A i \in DOMAIN c.ends : c.ends[i] <= c.response
       /\ c.answers # <<>>
       /\ \A a \in DOMAIN c.answers : c.answers[a] \in 1..(c.probe - 1)

\* Prompts are truncated to their width, responses are not empty and fit theirs.
ASSUME BatchAssumption ==
  /\ BatchCases \subseteq [promptWidth : Nat, responseWidth : Nat,
                           samples : Seq([teacher : Nat \ {0}, student : Nat \ {0},
                                          response : Nat \ {0}])]
  /\ \A c \in BatchCases : \A s \in DOMAIN c.samples :
       c.samples[s].student <= c.promptWidth /\ c.samples[s].response <= c.responseWidth

None == [none |-> TRUE]

VARIABLES
  kind,    \* the algorithm
  case,    \* its input
  answer   \* its result so far, or None

vars == <<kind, case, answer>>

Init ==
  /\ \/ kind = "probe"  /\ case \in ProbeCases
     \/ kind = "study"  /\ case \in StudyCases
     \/ kind = "align"  /\ case \in BatchCases
     \/ kind = "divide" /\ case \in LengthCases
  /\ answer = None

Computes(result) == answer' = result /\ UNCHANGED <<kind, case>>
Asked(k)    == kind = k /\ answer = None
Answered(k) == kind = k /\ answer # None

----------------------------------------------------------------------------
(***************************************************************************)
(* The packed forward: the layout, then the worker's scores.               *)
(***************************************************************************)

LayRollout ==
  Asked("probe") /\ Computes([layout |-> StartLayout(case), scores |-> StartScores])

LayProbe ==
  /\ Answered("probe") /\ ~LaidOut(case, answer.layout)
  /\ Computes([layout |-> AppendBranch(case, answer.layout), scores |-> answer.scores])

\* The worker raises on a layout it does not accept.
GatherProbe ==
  /\ Answered("probe") /\ LaidOut(case, answer.layout)
  /\ Accepts(answer.layout)
  /\ ~Gathered(answer.layout, answer.scores)
  /\ Computes([layout |-> answer.layout, scores |-> GatherBranch(answer.layout, answer.scores)])

CutProbe ==
  /\ Answered("probe") /\ LaidOut(case, answer.layout)
  /\ Gathered(answer.layout, answer.scores)
  /\ Len(answer.scores.values) < Len(answer.scores.widths)
  /\ Computes([layout |-> answer.layout, scores |-> CutBranch(answer.scores)])

Probes == LayRollout \/ LayProbe \/ GatherProbe \/ CutProbe

----------------------------------------------------------------------------
(***************************************************************************)
(* The teacher's scores on their way to the loss.                          *)
(***************************************************************************)

StartAlign == Asked("align") /\ Computes([batch |-> Align!StartBatch, rows |-> <<>>])

PackScores ==
  /\ Answered("align") /\ ~Align!Packed(case, answer.batch)
  /\ Computes([batch |-> Align!PackSample(case, answer.batch), rows |-> answer.rows])

CutScores ==
  /\ Answered("align") /\ Align!Packed(case, answer.batch)
  /\ Len(answer.rows) < Len(case.samples)
  /\ Computes([batch |-> answer.batch,
               rows  |-> Append(answer.rows,
                                Align!LossRows(case, answer.batch, Len(answer.rows) + 1))])

Aligns == StartAlign \/ PackScores \/ CutScores

----------------------------------------------------------------------------
(***************************************************************************)
(* The algorithms of one step.                                             *)
(***************************************************************************)

SelectResponses == Asked("study") /\ Computes(Study(case, case.k))

\* The controller divides the global batch, then each rank its chunk.
BalanceBatch ==
  /\ Asked("divide")
  /\ Computes([chunks |-> Balance!Chunks(case.lengths, case.ranks), batches |-> <<>>])

RankLengths == Balance!RankLengths(case.lengths, answer.chunks)

RearrangeMicroBatches ==
  /\ Answered("divide") /\ answer.batches = <<>>
  /\ Computes([answer EXCEPT !.batches =
                  Balance!RearrangeMicroBatches(RankLengths, case.maxTokens)])

Next == Probes \/ Aligns \/ SelectResponses \/ BalanceBatch \/ RearrangeMicroBatches

Spec == Init /\ [][Next]_vars

----------------------------------------------------------------------------
(***************************************************************************)
(* Properties.                                                             *)
(***************************************************************************)

\* The packed forward scores every probe as if it were alone: the worker
\* accepts the layout, and each branch has the tokens, logical positions,
\* attention and scored rows of its own prefix-and-probe sequence, never a
\* later part of the rollout or another probe (utils/fast_oa_opd.py:62,
\* vllm_rollout/utils.py:224).
ProbesAreIndependent ==
  Answered("probe") =>
    /\ LaidOut(case, answer.layout) => Accepts(answer.layout)
    /\ \A i \in DOMAIN answer.layout.branches : SameAsAlone(case, answer.layout, i)
    /\ RaggedIsDense(answer.layout)
    /\ \A i \in DOMAIN answer.scores.values :
         answer.scores.values[i] = ScoredAlone(case, answer.layout, i)

\* The margin is the largest at which disjoint groups exist, judged from the
\* steps themselves; whenever there is one the selection finds such groups,
\* though a response may qualify both ways (oa_opd_step_selection.py:125).
SelectionIsPossible ==
  Answered("study") =>
    /\ answer.margin # 0 =>
         \A o \in Outcomes : /\ Possible(case[o], answer.margin, case.k)
                             /\ Fills(case[o], answer.margin, case.k, answer.groups[o])
    /\ \A g \in 1..Strongest(case) :
         (\A o \in Outcomes : Possible(case[o], g, case.k)) => g <= answer.margin

\* Row t of the teacher's and of the student's values that the loss pairs is
\* about token t of the same response, with prompts of any lengths and by the
\* padded as by the jagged way (teacher_manager.py:76, padding.py:144).
TeacherScoresAlign ==
  Answered("align") =>
    \A s \in DOMAIN answer.rows : Align!PairsSameTokens(case, s, answer.rows[s])

\* Every sequence lands in exactly one micro-batch of exactly one rank, no
\* part is empty, all ranks run the same number of micro-batches, loads differ
\* by no more than one sequence's, and results return in the order of the
\* chunk (seqlen_balancing.py:49, main_ppo_sync.py:1401).
PartsAreBalanced ==
  Answered("divide") =>
    /\ Balance!BalancedChunks(case.lengths, answer.chunks)
    /\ answer.batches # <<>> => Balance!BalancedMicroBatches(RankLengths, answer.batches)
=============================================================================
