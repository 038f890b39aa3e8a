---------------------------- MODULE StepSelection ----------------------------
(***************************************************************************)
(* The choice of the responses an OA-OPD step study shows                  *)
(* (utils/oa_opd_step_selection.py): among the correct and among the       *)
(* incorrect responses, k whose steps raise the answer's probability       *)
(* significantly and k others whose steps lower it, at the largest common  *)
(* margin that allows it.                                                  *)
(*                                                                         *)
(* A case holds k and, per outcome, a sequence of responses; a response is *)
(* the sequence of its steps' deltas (integers), and its record_index is   *)
(* its place in the sequence.                                              *)
(***************************************************************************)
EXTENDS Integers, FiniteSets, SequencesExt

Outcomes == {"correct", "incorrect"}
Signs == {"positive", "negative"}

\* How far a delta goes in one direction.
Magnitude(sign, delta) == IF sign = "positive" THEN delta ELSE -delta

\* The second largest magnitude in a direction, 0 for "fewer than two" (None).
SecondStrength(deltas, sign) ==
  LET magnitudes == SortSeq([t \in DOMAIN deltas |-> Magnitude(sign, deltas[t])],
                            LAMBDA a, b : a > b)
  IN IF Len(magnitudes) >= 2 /\ magnitudes[2] > 0 THEN magnitudes[2] ELSE 0

\* The responses' strengths, and the rows that qualify at a margin.
RowsOf(responses) ==
  [i \in DOMAIN responses |-> [sign \in Signs |-> SecondStrength(responses[i], sign)]]
Qualified(rows, sign, margin) == {i \in DOMAIN rows : rows[i][sign] # 0 /\ rows[i][sign] >= margin}

\* feasibility_counts and the test made of them.
Feasible(rows, margin, k) ==
  LET positive == Qualified(rows, "positive", margin)
      negative == Qualified(rows, "negative", margin)
  IN /\ Cardinality(positive) >= k
     /\ Cardinality(negative) >= k
     /\ Cardinality(positive \union negative) >= 2 * k

\* Every strength that occurs, largest first.
Margins(rows) ==
  SetToSortSeq({r[sign] : r \in UNION {ToSet(rows[o]) : o \in Outcomes}, sign \in Signs} \ {0}, >)

\* The largest margin all quotas can be met at; 0 when the code raises.
LargestMargin(rows, k) ==
  LET good == SelectSeq(Margins(rows), LAMBDA g : \A o \in Outcomes : Feasible(rows[o], g, k))
  IN IF good = <<>> THEN 0 ELSE good[1]

----------------------------------------------------------------------------
(***************************************************************************)
(* _select_one_outcome.                                                    *)
(***************************************************************************)

\* Rows by descending strength or lean, ties by record index.
BySign(rows, S, sign) ==
  SetToSortSeq(S, LAMBDA i, j : \/ rows[i][sign] > rows[j][sign]
                                \/ rows[i][sign] = rows[j][sign] /\ i < j)
Lean(row) == row.positive - row.negative
ByLean(rows, S) ==
  SetToSortSeq(S, LAMBDA i, j : \/ Lean(rows[i]) > Lean(rows[j])
                                \/ Lean(rows[i]) = Lean(rows[j]) /\ i < j)

\* How many overlapping rows a group needs beside its own.
Need(k, S) == IF k > Cardinality(S) THEN k - Cardinality(S) ELSE 0
Firsts(s, n) == SubSeq(s, 1, IF n < Len(s) THEN n ELSE Len(s))

\* Mutant: nothing is kept back.
Reserved_None(rest, need) == {}

\* The overlap kept back for the negative group before the positive group is
\* chosen: the last of what remains.
Reserved(rest, need) == {rest[i] : i \in (Len(rest) - need + 1)..Len(rest)}

\* What the function returns; "raised" tells its errors.
SelectOne(rows, margin, k) ==
  LET P    == Qualified(rows, "positive", margin)
      N    == Qualified(rows, "negative", margin)
      both == ByLean(rows, P \intersect N)
      needPositive == Need(k, P \ N)
      needNegative == Need(k, N \ P)
      reserved == Reserved(SubSeq(both, needPositive + 1, Len(both)), needNegative)
      positive == Firsts(BySign(rows, P \ reserved, "positive"), k)
      negative == Firsts(BySign(rows, N \ ToSet(positive), "negative"), k)
      raised   == needPositive + needNegative > Len(both) \/ Len(positive) # k \/ Len(negative) # k
  IN [raised |-> raised, positive |-> positive, negative |-> negative]

\* The study: the margin, and both outcomes' groups at it.
Study(responses, k) ==
  LET rows   == [o \in Outcomes |-> RowsOf(responses[o])]
      margin == LargestMargin(rows, k)
  IN [margin |-> margin,
      groups |-> IF margin = 0 THEN <<>>
                 ELSE [o \in Outcomes |-> SelectOne(rows[o], margin, k)]]

----------------------------------------------------------------------------
(***************************************************************************)
(* The reference, stated of the deltas: a response is significant when two *)
(* of its steps are, and the quotas can be met when disjoint sets of k     *)
(* significant responses exist.                                            *)
(***************************************************************************)

Significant(deltas, sign, margin) ==
  Cardinality({t \in DOMAIN deltas : Magnitude(sign, deltas[t]) >= margin}) >= 2

SignificantOnes(responses, sign, margin) ==
  {i \in DOMAIN responses : Significant(responses[i], sign, margin)}

Possible(responses, margin, k) ==
  \E P \in kSubset(k, SignificantOnes(responses, "positive", margin)),
     N \in kSubset(k, SignificantOnes(responses, "negative", margin)) : P \intersect N = {}

\* No margin above the largest delta can be met.
Strongest(responses) ==
  Max({0} \union {Magnitude(sign, d) :
        sign \in Signs, d \in UNION {ToSet(r) : r \in UNION {ToSet(responses[o]) : o \in Outcomes}}})

\* Both groups are filled with different responses that are significant.
Fills(responses, margin, k, s) ==
  /\ ~s.raised
  /\ IsInjective(s.positive \o s.negative)
  /\ Len(s.positive) = k /\ Len(s.negative) = k
  /\ ToSet(s.positive) \subseteq SignificantOnes(responses, "positive", margin)
  /\ ToSet(s.negative) \subseteq SignificantOnes(responses, "negative", margin)
=============================================================================
