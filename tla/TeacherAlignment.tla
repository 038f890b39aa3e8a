--------------------------- MODULE TeacherAlignment ---------------------------
(***************************************************************************)
(* How the teacher's scores of a response reach the loss                   *)
(* (teacher_loop/teacher_manager.py, agent_loop/agent_loop.py,             *)
(* workers/utils/padding.py).  The teacher may read a prompt of another    *)
(* length than the student's; causal outputs are shifted by one row, the   *)
(* batch is padded and unpadded, and the loss cuts the response rows out   *)
(* of both models' outputs.                                                *)
(*                                                                         *)
(* A case is a batch: the widths its prompts and responses are padded to   *)
(* (the rollout's prompt_length and response_length), and per sample the   *)
(* lengths teacher, student (prompts) and response.  A score is written    *)
(* <<sample, t>>, "of token t of this sample's response"; <<sample, 0>>    *)
(* stands for the score of any prompt token, and Zero for a padding value. *)
(* Samples are packed and cut one a turn, as the code's loops do; the      *)
(* module Algorithms takes the turns.                                      *)
(***************************************************************************)
EXTENDS Integers, Sequences

Zero == <<0, 0>>
Fill(n, x) == [k \in 1..n |-> x]
Tokens(c, s) == [t \in 1..c.samples[s].response |-> <<s, t>>]

----------------------------------------------------------------------------
(***************************************************************************)
(* The teacher: one sample's rows, moved to the student's prompt.          *)
(***************************************************************************)

\* vLLM's prompt log probabilities, read from the second token on and closed
\* by a dummy: row k scores token k + 1.
PromptLogprobs(c, s) == Fill(c.samples[s].teacher - 1, <<s, 0>>) \o Tokens(c, s) \o <<Zero>>

\* Mutant: the last rows, as if row t scored token t.
SliceResponsePredictions_Unshifted(rows, response) ==
  SubSeq(rows, Len(rows) - response + 1, Len(rows))

\* [S - R - 1 : S - 1]: the rows that predict the response.
SliceResponsePredictions(rows, response) ==
  SubSeq(rows, Len(rows) - response, Len(rows) - 1)

\* The rows of a student sequence, its prompt's left empty.
CausalLayout(rows, studentPrompt) == Fill(studentPrompt - 1, Zero) \o rows \o <<Zero>>

Aligned(c, s) ==
  LET sample == c.samples[s]
  IN CausalLayout(SliceResponsePredictions(PromptLogprobs(c, s), sample.response), sample.student)

----------------------------------------------------------------------------
(***************************************************************************)
(* The batch, padded to common widths and unpadded again, or jagged.       *)
(***************************************************************************)

\* Left-padded prompts, right-padded responses.
Pad(c, s, rows) ==
  Fill(c.promptWidth - c.samples[s].student, Zero) \o rows \o
  Fill(c.responseWidth - c.samples[s].response, Zero)

\* index_first_axis: the columns the sample's attention mask keeps.
Unpad(c, s, padded) ==
  SubSeq(padded, c.promptWidth - c.samples[s].student + 1,
                 c.promptWidth + c.samples[s].response)

InputTokens(c, s) == Fill(c.samples[s].student, <<s, 0>>) \o Tokens(c, s)

\* The flat values of the batch: the teacher's, padded and unpadded or jagged,
\* the student's inputs, and the offset at which each sample ends.
StartBatch == [padded |-> <<>>, jagged |-> <<>>, inputs |-> <<>>, offsets |-> <<>>]

PackSample(c, batch) ==
  LET s == Len(batch.offsets) + 1
      last == IF s = 1 THEN 0 ELSE batch.offsets[s - 1]
  IN [padded  |-> batch.padded \o Unpad(c, s, Pad(c, s, Aligned(c, s))),
      jagged  |-> batch.jagged \o Aligned(c, s),
      inputs  |-> batch.inputs \o InputTokens(c, s),
      offsets |-> Append(batch.offsets, last + c.samples[s].student + c.samples[s].response)]

Packed(c, batch) == Len(batch.offsets) = Len(c.samples)

----------------------------------------------------------------------------
(***************************************************************************)
(* The student: every row scores the input rolled left by one.             *)
(***************************************************************************)

StudentLogprobs(ids) == [k \in DOMAIN ids |-> IF k = Len(ids) THEN ids[1] ELSE ids[k + 1]]

----------------------------------------------------------------------------
(***************************************************************************)
(* The loss: no_padding_2_padding and response_from_nested.                *)
(***************************************************************************)

\* The rows of sample s that predict its response.
ResponseRows(c, batch, values, s) ==
  SubSeq(values, batch.offsets[s] - c.samples[s].response, batch.offsets[s] - 1)

NoPadding2Padding(c, batch, values, s) ==
  ResponseRows(c, batch, values, s) \o Fill(c.responseWidth - c.samples[s].response, Zero)

\* What the loss pairs of sample s: teacher and student rows, by both ways
\* through.
LossRows(c, batch, s) ==
  [padded  |-> NoPadding2Padding(c, batch, batch.padded, s),
   jagged  |-> ResponseRows(c, batch, batch.jagged, s),
   student |-> NoPadding2Padding(c, batch, StudentLogprobs(batch.inputs), s)]

\* Row t of a sample is about token t of its response, on both sides; what
\* follows is padding.
PairsSameTokens(c, s, rows) ==
  LET padding == Fill(c.responseWidth - c.samples[s].response, Zero)
  IN /\ rows.padded = Tokens(c, s) \o padding
     /\ rows.jagged = Tokens(c, s)
     /\ rows.student = Tokens(c, s) \o padding
=============================================================================
