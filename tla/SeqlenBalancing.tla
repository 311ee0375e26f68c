--------------------------- MODULE SeqlenBalancing ---------------------------
(***************************************************************************)
(* utils/seqlen_balancing.py: the Karmarkar-Karp partition of a batch by   *)
(* workload, the micro-batches a rank splits its rows into, and the way    *)
(* back to the order of the rows.  Indices start at 1.                     *)
(***************************************************************************)
EXTENDS Integers, Sequences, FiniteSets, SequencesExt, FiniteSetsExt

Workload(len) == 24576 * len + len * len

Total(val, idxs) == FoldSeq(LAMBDA i, t : t + val[i], 0, idxs)

\* list.sort and sorted, for an order of the places of s: equal ones as they
\* came.
Pairs(s) == (DOMAIN s) \X (DOMAIN s)
Sorted(s, less) ==
  LET place == [i \in DOMAIN s |->
        Cardinality({j \in DOMAIN s : <<j, i>> \in less \/ (<<i, j>> \notin less /\ j < i)}) + 1]
  IN [k \in DOMAIN s |-> s[CHOOSE i \in DOMAIN s : place[i] = k]]

\* The first of a list, for comparison with another; 0 if there is none.
First(items) == IF items = <<>> THEN 0 ELSE items[1]

-----------------------------------------------------------------------------
\* class Set: a set of indices with its sum, as <<sum, indices>>; classes are
\* compared by sum, size and first index.
NoItems == <<0, <<>>>>
SetLess(s, t) ==
  \/ s[1] < t[1]
  \/ s[1] = t[1] /\ Len(s[2]) < Len(t[2])
  \/ s[1] = t[1] /\ Len(s[2]) = Len(t[2]) /\ First(s[2]) < First(t[2])

\* class State: k sets in decreasing order; the state of the largest spread is
\* popped first.
Decreasing(sets) == Sorted(sets, {p \in Pairs(sets) : SetLess(sets[p[2]], sets[p[1]])})
Spread(state) == state[1][1] - state[Len(state)][1]
StateLess(s, t) ==
  \/ Spread(s) > Spread(t)
  \/ Spread(s) = Spread(t) /\ SetLess(t[1], s[1])

\* State.merge: the largest set of one with the smallest of the other.
Merge(s, t) ==
  Decreasing([i \in DOMAIN s |->
    LET j == Len(t) + 1 - i IN <<s[i][1] + t[j][1], s[i][2] \o t[j][2]>>])

\* The states at first: groups of k in increasing order of workload, or single
\* items.
Initial(val, k, equal_size) ==
  LET sorted == Sorted([i \in DOMAIN val |-> i], {p \in Pairs(val) : val[p[1]] < val[p[2]]})
      width  == IF equal_size THEN k ELSE 1
      Item(g, i) == LET x == sorted[(g - 1) * width + i] IN <<val[x], <<x>>>>
      Sets(g) == [i \in 1 .. k |-> IF i <= width THEN Item(g, i) ELSE NoItems]
  IN {Decreasing(sets) : sets \in {Sets(g) : g \in 1 .. (Len(val) \div width)}}

\* What heapq.heappop may return.
Least(states) == {x \in states : \A y \in states : ~StateLess(y, x)}

MergeTwo(states) ==
  CHOOSE rest \in UNION {{(states \ {s, t}) \cup {Merge(s, t)} : t \in Least(states \ {s})} :
                           s \in Least(states)} : TRUE

\* Two states are merged as long as there are two.
Reduced(states) ==
  FoldSeq(LAMBDA i, S : MergeTwo(S), states, [i \in 1 .. Cardinality(states) - 1 |-> i])

\* get_seqlen_balanced_partitions: k sequences of indices, each sorted.
Ascending(items) == Sorted(items, {p \in Pairs(items) : items[p[1]] < items[p[2]]})
Partitions(val, k, equal_size) ==
  CHOOSE parts \in {[i \in 1 .. k |-> Ascending(state[i][2])] :
                      state \in Reduced(Initial(val, k, equal_size))} : TRUE

-----------------------------------------------------------------------------
CeilDiv(a, b) == (a + b - 1) \div b

\* The number of micro-batches a rank needs on its own.
MicroCount(lens, max_token_len) ==
  Min({Len(lens), CeilDiv(Total(lens, [i \in DOMAIN lens |-> i]), max_token_len)})

\* micro_bsz_idx[::2][::-1] + micro_bsz_idx[1::2] of the partitions in
\* decreasing order of workload: the small ones at both ends.
SmallAtBothEnds(parts, val) ==
  LET More(a, b) == \/ Total(val, a) > Total(val, b)
                    \/ Total(val, a) = Total(val, b) /\ First(a) > First(b)
      p    == Sorted(parts, {q \in Pairs(parts) : More(parts[q[1]], parts[q[2]])})
      odd  == [i \in 1 .. CeilDiv(Len(p), 2) |-> p[2 * i - 1]]
      even == [i \in 1 .. (Len(p) \div 2) |-> p[2 * i]]
  IN Reverse(odd) \o even

\* rearrange_micro_batches, for the number of micro-batches agreed upon.
MicroBatches(lens, num) ==
  LET val == [i \in DOMAIN lens |-> Workload(lens[i])] IN
  SmallAtBothEnds(Partitions(val, num, FALSE), val)

\* Mutation of Restore: the map is not inverted.
RestoreUninverted(out, parts) ==
  LET idx == FlattenSeq(parts) IN [i \in DOMAIN idx |-> out[idx[i]]]

\* restore_dynamic_batch: outputs of the micro-batches, in the order of the rows.
Restore(out, parts) ==
  LET idx == FlattenSeq(parts) IN
  [i \in DOMAIN idx |-> out[CHOOSE j \in DOMAIN idx : idx[j] = i]]
=============================================================================
