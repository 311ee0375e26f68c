--------------------------- MODULE GrpoAdvantage ---------------------------
(***************************************************************************)
(* The GRPO outcome advantage (core_algos.py) of rows with a score and a   *)
(* group id: the loop over the groups and its vectorized form, and the     *)
(* broadcast over the outputs of a session (v1/utils.py).                  *)
(*                                                                         *)
(* An advantage stands for itself times the size of its group and, with    *)
(* norm_adv_by_std_in_grpo, times the group's standard deviation plus      *)
(* epsilon: a positive factor all its members share, so that signs, order  *)
(* and sums to zero are those of the code.                                 *)
(***************************************************************************)
EXTENDS Integers, FiniteSets, FiniteSetsExt

GroupOf(uid, i) == {j \in DOMAIN uid : uid[j] = uid[i]}
Total(score, S) == MapThenSumSet(LAMBDA j : score[j], S)

\* Mutation of Normalized: invalid rows get a place in the baseline too.
NormalizedInvalid(score, uid, valid, i) ==
  LET sound == GroupOf(uid, i) \cap valid
  IN IF Cardinality(sound) < 2 THEN 0
     ELSE Cardinality(sound) * score[i] - Total(score, sound)

\* compute_grpo_outcome_advantage before the response mask.
Normalized(score, uid, valid, i) ==
  LET sound == GroupOf(uid, i) \cap valid
  IN IF Cardinality(sound) < 2 \/ i \notin sound THEN 0
     ELSE Cardinality(sound) * score[i] - Total(score, sound)

\* compute_grpo_vectorized_outcome_advantage with a mask: group after group,
\* the scores themselves overwritten.
VectorizedGroup(score, group, mask) ==
  LET sound == group \cap mask
  IN [i \in DOMAIN score |->
        IF i \notin group THEN score[i]
        ELSE IF Cardinality(sound) < 2 \/ i \notin mask THEN 0
        ELSE Cardinality(sound) * score[i] - Total(score, sound)]

Vectorized(score, uid, mask) ==
  FoldSet(LAMBDA u, s : VectorizedGroup(s, {i \in DOMAIN uid : uid[i] = u}, mask),
          score, {uid[i] : i \in DOMAIN uid})

\* The same without a mask, through group_mean_std: a group of one has mean 0
\* and deviation 1.
VectorizedUnmasked(score, uid, i) ==
  LET group == GroupOf(uid, i)
  IN IF Cardinality(group) = 1 THEN score[i]
     ELSE Cardinality(group) * score[i] - Total(score, group)

\* RLOO, the loop: the score against the mean of the others; a group of one
\* keeps its score.  The factor is the number of the others.
Rloo(score, uid, i) ==
  LET n == Cardinality(GroupOf(uid, i))
  IN IF n = 1 THEN score[i] ELSE n * score[i] - Total(score, GroupOf(uid, i))

\* RLOO by bincounts: a group of one gets nothing.
RlooVectorized(score, uid, i) ==
  LET n == Cardinality({j \in DOMAIN score : uid[j] = uid[i]})
      sum == FoldSet(LAMBDA j, t : IF uid[j] = uid[i] THEN t + score[j] ELSE t, 0, DOMAIN score)
  IN IF n > 1 THEN n * score[i] - sum ELSE 0
=============================================================================
