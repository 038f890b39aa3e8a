----------------------------- MODULE MCAlgorithms -----------------------------
\* Bounded inputs of the algorithms: every boundary value up to the bounds.
EXTENDS Algorithms

\* Rollouts of up to four response tokens, every set of step ends in them.
MCProbeCases ==
  {[prompt |-> p, response |-> r, ends |-> SetToSortSeq(E, <), probe |-> l,
    answers |-> SetToSortSeq(A, <)] :
     <<p, r, E, l, A>> \in
       {<<p, r, E, l, A>> \in (1..2) \X (1..4) \X (SUBSET (1..4)) \X (2..3) \X (SUBSET (1..2)) :
          E \subseteq 1..r /\ A # {} /\ A \subseteq 1..(l - 1)}}

\* Deltas that qualify one way, both ways (leaning either way) or not at all.
Deltas == {<<>>, <<3, 1, -2>>, <<1, 2>>, <<2, 3>>, <<-1, -1>>, <<-3, -2>>,
           <<1, -1, 2, -2>>, <<3, 2, -1, -1>>, <<1, 1, -2, -3>>}
BothWays == {<<3, 1, -2>>, <<2, 3>>, <<-3, -2>>, <<1, -1, 2, -2>>, <<3, 2, -1, -1>>, <<1, 1, -2, -3>>}
Generous == <<<<3, 3>>, <<3, 3>>, <<-3, -3>>, <<-3, -3>>>>

MCStudyCases ==
  {[k |-> 1, correct |-> <<a, b>>, incorrect |-> <<c, d>>] :
     a \in Deltas, b \in Deltas, c \in Deltas, d \in Deltas}
  \union
  {[k |-> 2, correct |-> rows, incorrect |-> Generous] : rows \in [1..4 -> Deltas]}
  \union \* more responses than the groups take
  {[k |-> 1, correct |-> rows, incorrect |-> Generous] : rows \in [1..3 -> Deltas]}
  \union
  {[k |-> 2, correct |-> rows, incorrect |-> Generous] : rows \in [1..5 -> BothWays]}

MCBatchCases ==
  {[promptWidth |-> 3, responseWidth |-> 3, samples |-> s] :
     s \in [1..2 -> [teacher : 1..3, student : 1..3, response : 1..3]]}

MCLengthCases ==
  {[lengths |-> l, ranks |-> 2, maxTokens |-> m] : l \in [1..6 -> 1..3], m \in {3, 4, 6}}
  \union
  {[lengths |-> l, ranks |-> 1, maxTokens |-> m] : l \in [1..5 -> 1..4], m \in {4, 6}}
=============================================================================
