---------------------------- MODULE ProbeLayout ----------------------------
(***************************************************************************)
(* The packed forward of Fast OA-OPD (utils/fast_oa_opd.py and the vLLM    *)
(* worker extension vllm_rollout/utils.py).  OA-OPD asks the teacher how   *)
(* likely the gold answer is after each reasoning step: one sequence       *)
(* "prefix, probe" per step boundary.  Fast OA-OPD appends all probes to   *)
(* one copy of the rollout and scores them in one forward: every probe     *)
(* must see its own prefix and itself, and nothing else.                   *)
(*                                                                         *)
(* A case is a record: prompt and response lengths, the ends of the        *)
(* reasoning steps, the probe's length and the local positions of its      *)
(* answer tokens.  Token values are symbols, one per origin.  Physical     *)
(* rows are counted from 0, as in the code.  The loops of the code are     *)
(* operators that take one turn; the module Algorithms takes the turns.    *)
(***************************************************************************)
EXTENDS Integers, SequencesExt

Tokens(kind, n) == [k \in 1..n |-> <<kind, k>>]
Prompt(c)   == Tokens("prompt", c.prompt)
Response(c) == Tokens("response", c.response)
Probe(c)    == Tokens("probe", c.probe)

\* The integers from..to-1 in order, as Python's range.
Range0(from, to) == [k \in 1..(to - from) |-> from + k - 1]

----------------------------------------------------------------------------
(***************************************************************************)
(* build_masked_probe_layout: the rollout, then one branch per boundary.   *)
(***************************************************************************)

\* The boundary before the first reasoning step and after each of them.
BoundaryEnds(c) == <<0>> \o c.ends

\* Where a probe stands logically: straight after the prefix it may see.
ProbePositions(visible, length) == Range0(visible, visible + length)

\* Before the loop: the rollout alone.
StartLayout(c) ==
  [ids       |-> Prompt(c) \o Response(c),
   positions |-> Range0(0, c.prompt + c.response),
   original  |-> c.prompt + c.response,
   branches  |-> <<>>]

\* One turn: a probe for the next boundary.
AppendBranch(c, layout) ==
  LET visible == c.prompt + BoundaryEnds(c)[Len(layout.branches) + 1]
      start   == Len(layout.ids)
  IN [ids       |-> layout.ids \o Probe(c),
      positions |-> layout.positions \o ProbePositions(visible, c.probe),
      original  |-> layout.original,
      branches  |-> Append(layout.branches,
                           [visible |-> visible, start |-> start, end |-> start + c.probe,
                            answers |-> [a \in DOMAIN c.answers |-> start + c.answers[a]]])]

LaidOut(c, layout) == Len(layout.branches) = Len(BoundaryEnds(c))

----------------------------------------------------------------------------
(***************************************************************************)
(* What the worker does with a layout it accepts.                          *)
(***************************************************************************)

Rows(layout) == 0..(Len(layout.ids) - 1)
BranchRows(b) == b.start..(b.end - 1)

\* Both validations, before and after the RPC, test the same conditions.
Accepts(layout) ==
  LET n == Len(layout.ids)
      b == layout.branches
  IN /\ Len(layout.positions) = n
     /\ layout.original \in 1..n
     /\ SubSeq(layout.positions, 1, layout.original) = Range0(0, layout.original)
     /\ b # <<>>
     /\ \A i \in DOMAIN b :
          /\ b[i].start = IF i = 1 THEN layout.original ELSE b[i - 1].end
          /\ 1 <= b[i].visible /\ b[i].visible <= layout.original
          /\ layout.original <= b[i].start /\ b[i].start < b[i].end /\ b[i].end <= n
          /\ SubSeq(layout.positions, b[i].start + 1, b[i].end)
               = ProbePositions(b[i].visible, b[i].end - b[i].start)
          /\ b[i].answers # <<>>
          /\ \A a \in DOMAIN b[i].answers :
               b[i].start < b[i].answers[a] /\ b[i].answers[a] < b[i].end
     /\ b[Len(b)].end = n

\* Mutant: a probe sees the whole rollout.
VisiblePrefix_WholeRollout(layout, b) == Range0(0, layout.original)

VisiblePrefix(layout, b) == Range0(0, b.visible)

\* The ragged batch: query rows stay in place, and the keys of one segment are
\* the rollout's, or a branch's visible prefix followed by its own probe.
RolloutSegment(layout) ==
  [queries |-> Range0(0, layout.original), keys |-> Range0(0, layout.original)]
BranchSegment(layout, b) ==
  [queries |-> Range0(b.start, b.end),
   keys    |-> VisiblePrefix(layout, b) \o Range0(b.start, b.end)]
Segments(layout) ==
  <<RolloutSegment(layout)>> \o
  [i \in DOMAIN layout.branches |-> BranchSegment(layout, layout.branches[i])]

\* flash_attn_varlen_func, causal: query q of a segment sees the keys up to
\* the one aligned with it at the bottom right.
LastKey(segment, q) == Len(segment.keys) - Len(segment.queries) + q

\* The keys the worker lets a physical row attend to.
SegmentKeys(segment, row) ==
  UNION {{segment.keys[k] : k \in 1..LastKey(segment, q)} :
          q \in {p \in DOMAIN segment.queries : segment.queries[p] = row}}
RaggedKeys(layout, row) == UNION {SegmentKeys(s, row) : s \in ToSet(Segments(layout))}

\* build_dense_attention_mask: the visibility matrix the tests compare with.
DenseKeys(layout, row) ==
  IF row < layout.original
    THEN 0..row
    ELSE UNION {0..(b.visible - 1) \union {k \in BranchRows(b) : k <= row} :
                  b \in {x \in ToSet(layout.branches) : row \in BranchRows(x)}}

\* compute_fast_oa_opd_probe_logprobs gathers one row and one target per answer
\* token of every branch, one branch a turn, ...
StartScores == [predictors |-> <<>>, widths |-> <<>>, offset |-> 0, values |-> <<>>]

GatherBranch(layout, scores) ==
  LET b == layout.branches[Len(scores.widths) + 1]
  IN [predictors |-> scores.predictors \o
                       [a \in DOMAIN b.answers |->
                         <<b.answers[a] - 1, layout.ids[b.answers[a] + 1]>>],
      widths     |-> Append(scores.widths, Len(b.answers)),
      offset     |-> scores.offset,
      values     |-> scores.values]

Gathered(layout, scores) == Len(scores.widths) = Len(layout.branches)

\* ... and cuts the values, one per predictor, back by the branches' widths.
CutBranch(scores) ==
  LET width == scores.widths[Len(scores.values) + 1]
  IN [predictors |-> scores.predictors,
      widths     |-> scores.widths,
      offset     |-> scores.offset + width,
      values     |-> Append(scores.values, SubSeq(scores.predictors, scores.offset + 1,
                                                  scores.offset + width))]

----------------------------------------------------------------------------
(***************************************************************************)
(* The reference: utils/oa_opd.py asks for one sequence per boundary.      *)
(***************************************************************************)

IndependentSequence(c, end) == Prompt(c) \o SubSeq(Response(c), 1, end) \o Probe(c)
IndependentAnswers(c, end) ==
  [a \in DOMAIN c.answers |-> c.prompt + end + c.answers[a]]

\* The physical row of branch b that stands for row k of its own sequence.
RowOf(b, k) == IF k < b.visible THEN k ELSE b.start + (k - b.visible)

\* In the packed forward, branch i has the tokens, the positions and the
\* attention of the sequence probed alone.
SameAsAlone(c, layout, i) ==
  LET b     == layout.branches[i]
      alone == IndependentSequence(c, BoundaryEnds(c)[i])
  IN \A k \in 0..(Len(alone) - 1) :
       LET row == RowOf(b, k)
       IN /\ layout.ids[row + 1] = alone[k + 1]
          /\ layout.positions[row + 1] = k
          /\ RaggedKeys(layout, row) = {RowOf(b, j) : j \in 0..k}

\* What scoring the sequence alone would gather: the same targets, from the
\* same rows.
ScoredAlone(c, layout, i) ==
  LET end   == BoundaryEnds(c)[i]
      alone == IndependentSequence(c, end)
      p     == IndependentAnswers(c, end)
  IN [a \in DOMAIN c.answers |-> <<RowOf(layout.branches[i], p[a] - 1), alone[p[a] + 1]>>]

\* The ragged batch and the dense mask say the same of every row.
RaggedIsDense(layout) == \A row \in Rows(layout) : RaggedKeys(layout, row) = DenseKeys(layout, row)
=============================================================================
