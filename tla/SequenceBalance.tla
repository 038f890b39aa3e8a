---------------------------- MODULE SequenceBalance ----------------------------
(***************************************************************************)
(* Dividing sequences over ranks and micro-batches                         *)
(* (utils/seqlen_balancing.py): the largest differencing method, the       *)
(* order the micro-batches are run in, and the way back.  The single       *)
(* controller reorders the global batch so that equal chunks are balanced  *)
(* (trainer/main_ppo_sync.py, _balance_batch); each rank then cuts its     *)
(* chunk into micro-batches and restores the order of the results.         *)
(*                                                                         *)
(* Lengths are a sequence of positive integers; items are the places in    *)
(* it, counted from 1.                                                     *)
(***************************************************************************)
EXTENDS Integers, FiniteSets, SequencesExt, FiniteSetsExt

\* An approximation of the work a sequence costs.
Workload(length) == 24576 * length + length * length
Workloads(lengths) == [i \in DOMAIN lengths |-> Workload(lengths[i])]

Total(loads, part) == FoldLeft(LAMBDA sum, i : sum + loads[i], 0, part)

----------------------------------------------------------------------------
(***************************************************************************)
(* karmarkar_karp.  A set is the sequence of its items, a state the        *)
(* sequence of its k sets, the heaviest first.                             *)
(***************************************************************************)

\* Set.__lt__: by sum, by size, by the items in their order.
FirstDifference(a, b) == Min({i \in DOMAIN a : a[i] # b[i]})
Heavier(loads, a, b) ==
  \/ Total(loads, a) > Total(loads, b)
  \/ Total(loads, a) = Total(loads, b) /\ Len(a) > Len(b)
  \/ /\ Total(loads, a) = Total(loads, b) /\ Len(a) = Len(b) /\ a # b
     /\ a[FirstDifference(a, b)] > b[FirstDifference(a, b)]

Ordered(loads, sets) == SortSeq(sets, LAMBDA a, b : Heavier(loads, a, b))

\* The states before merging: k items each when the parts must be of equal
\* size, else one item each, in ascending order of load.
Ascending(loads) ==
  SetToSortSeq(DOMAIN loads,
               LAMBDA i, j : loads[i] < loads[j] \/ (loads[i] = loads[j] /\ i < j))

InitialStates(loads, k, equal) ==
  LET items == Ascending(loads)
      step  == IF equal THEN k ELSE 1
  IN {Ordered(loads, [i \in 1..k |-> IF i <= step THEN <<items[offset * step + i]>> ELSE <<>>]) :
        offset \in 0..((Len(items) \div step) - 1)}

Spread(loads, state) == Total(loads, state[1]) - Total(loads, state[Len(state)])

\* The state the heap gives first: largest spread, then heaviest first set.
PopsBefore(loads, a, b) ==
  \/ Spread(loads, a) > Spread(loads, b)
  \/ Spread(loads, a) = Spread(loads, b) /\ Heavier(loads, a[1], b[1])

Popped(loads, states) ==
  CHOOSE a \in states : \A b \in states \ {a} : PopsBefore(loads, a, b)

\* Mutant: the heaviest set takes the other state's heaviest.
Merge_Aligned(loads, a, b) ==
  Ordered(loads, [i \in DOMAIN a |-> a[i] \o b[i]])

\* The heaviest set takes the other state's lightest.
Merge(loads, a, b) ==
  Ordered(loads, [i \in DOMAIN a |-> a[i] \o b[Len(b) + 1 - i]])

MergeTwo(loads, states) ==
  LET a == Popped(loads, states)
      b == Popped(loads, states \ {a})
  IN (states \ {a, b}) \union {Merge(loads, a, b)}

KarmarkarKarp(loads, k, equal) ==
  LET start == InitialStates(loads, k, equal)
      final == FoldLeft(LAMBDA states, n : MergeTwo(loads, states), start,
                        [n \in 1..(Cardinality(start) - 1) |-> n])
  IN CHOOSE state \in final : TRUE

\* get_seqlen_balanced_partitions: the parts, their items in order.
BalancedPartitions(loads, k, equal) ==
  LET sets == KarmarkarKarp(loads, k, equal)
  IN [p \in 1..k |-> SortSeq(sets[p], <)]

----------------------------------------------------------------------------
(***************************************************************************)
(* _balance_batch: the global batch is reordered part by part, and the     *)
(* dispatch gives every rank an equal, contiguous chunk.                   *)
(***************************************************************************)

GlobalOrder(lengths, ranks) ==
  FlattenSeq(BalancedPartitions(Workloads(lengths), ranks, TRUE))

\* What each rank is given.
Chunks(lengths, ranks) ==
  LET order == GlobalOrder(lengths, ranks)
      size  == Len(lengths) \div ranks
  IN [r \in 1..ranks |-> SubSeq(order, (r - 1) * size + 1, r * size)]

RankLengths(lengths, chunks) ==
  [r \in DOMAIN chunks |-> [i \in DOMAIN chunks[r] |-> lengths[chunks[r][i]]]]

----------------------------------------------------------------------------
(***************************************************************************)
(* rearrange_micro_batches on one rank.                                    *)
(***************************************************************************)

CeilDiv(a, b) == (a + b - 1) \div b

\* How many a rank needs at maxTokens a batch, and how many all ranks make:
\* the largest need of any (all_reduce MAX).
NeededMicroBatches(lengths, maxTokens) ==
  Min({Len(lengths), CeilDiv(Total(lengths, [i \in DOMAIN lengths |-> i]), maxTokens)})
NumMicroBatches(rankLengths, maxTokens) ==
  Max({NeededMicroBatches(rankLengths[r], maxTokens) : r \in DOMAIN rankLengths})

\* Heaviest first; then every second one reversed, and the others after it.
EveryOther(s, from) == [i \in 1..((Len(s) - from) \div 2 + 1) |-> s[from + 2 * (i - 1)]]
RunOrder(loads, parts) ==
  LET sorted == SortSeq(parts, LAMBDA a, b :
                  \/ Total(loads, a) > Total(loads, b)
                  \/ Total(loads, a) = Total(loads, b) /\ a[1] > b[1])
  IN Reverse(EveryOther(sorted, 1)) \o (IF Len(sorted) < 2 THEN <<>> ELSE EveryOther(sorted, 2))

MicroBatches(lengths, count) ==
  RunOrder(Workloads(lengths), BalancedPartitions(Workloads(lengths), count, FALSE))

\* get_reverse_idx and restore_dynamic_batch: result i of the concatenated
\* micro-batches goes back to the place its item came from.
ReverseIndex(indices) == [j \in DOMAIN indices |-> CHOOSE i \in DOMAIN indices : indices[i] = j]
Restored(results, batches) ==
  LET back == ReverseIndex(FlattenSeq(batches))
  IN [j \in DOMAIN results |-> results[back[j]]]

\* What a rank computes item by item comes back in the order of its chunk.
RankResults(batches) == Restored(FlattenSeq(batches), batches)

\* Every rank's micro-batches.
RearrangeMicroBatches(rankLengths, maxTokens) ==
  LET count == NumMicroBatches(rankLengths, maxTokens)
  IN [r \in DOMAIN rankLengths |-> MicroBatches(rankLengths[r], count)]

----------------------------------------------------------------------------
(***************************************************************************)
(* What the callers rely on.                                               *)
(***************************************************************************)

\* Nonempty parts that hold every item once.
Partitions(parts, n) ==
  /\ \A p \in DOMAIN parts : parts[p] # <<>>
  /\ IsInjective(FlattenSeq(parts))
  /\ ToSet(FlattenSeq(parts)) = 1..n

\* The parts' loads differ by no more than the bound of the method.
Even(loads, parts, bound) ==
  LET sums == {Total(loads, parts[p]) : p \in DOMAIN parts} IN Max(sums) - Min(sums) <= bound

\* Rising and then falling: the small micro-batches are at both ends.
SmallAtBothEnds(loads, batches) ==
  \E top \in DOMAIN batches :
    \A i \in 1..(Len(batches) - 1) :
      LET now   == Total(loads, batches[i])
          later == Total(loads, batches[i + 1])
      IN IF i < top THEN now <= later ELSE now >= later

LoadRange(loads) ==
  LET values == {loads[i] : i \in DOMAIN loads} IN Max(values) - Min(values)

\* The global batch over the ranks.
BalancedChunks(lengths, chunks) ==
  /\ Partitions(chunks, Len(lengths))
  /\ Even(Workloads(lengths), chunks, LoadRange(Workloads(lengths)))

\* The ranks' lengths over their micro-batches.
BalancedMicroBatches(rankLengths, batches) ==
  /\ \A r, q \in DOMAIN batches : Len(batches[r]) = Len(batches[q])
  /\ \A r \in DOMAIN batches :
       LET loads == Workloads(rankLengths[r])
       IN /\ Partitions(batches[r], Len(loads))
          /\ Even(loads, batches[r], Max({loads[i] : i \in DOMAIN loads}))
          /\ SmallAtBothEnds(loads, batches[r])
          /\ RankResults(batches[r]) = [i \in DOMAIN loads |-> i]
=============================================================================
