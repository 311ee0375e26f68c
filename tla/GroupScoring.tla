---------------------------- MODULE GroupScoring ----------------------------
(***************************************************************************)
(* From the trajectories of a batch to the advantages they are trained     *)
(* with: reward, trajectory filter and GRPO, as the legacy trainer         *)
(* (RayPPOTrainer.fit) and the V1 trainer (PPOTrainer._compute_advantage)  *)
(* chain them.  In the V1 trainer a session may have stored any number of  *)
(* outputs, each a row of the batch; in the legacy one it has one row.     *)
(***************************************************************************)
EXTENDS SearchReward, SessionAdvantage, TokenCredit

CONSTANT Batches  \* the batches an instance explores: [v1, uid, inputs, outputs]

ASSUME ScoringAssumption ==
  \A b \in Batches :
    /\ b.v1 \in BOOLEAN           \* trainer.use_v1: which of the two trainers runs
    /\ b.uid \in Seq(Nat)         \* the prompt of each session
    /\ b.inputs \subseteq Trajectory
    /\ b.outputs \subseteq Nat    \* how many outputs a session may store

VARIABLES
  cfg,           \* the batch: which trainer, and what may come
  stage,         \* "rollout", "scored", "filtered" or "done"
  trajs,         \* the trajectories so far, one a session
  outputs,       \* how many outputs each session stored
  score,         \* token_level_scores of a session, summed over the tokens
  rows,          \* the rows of the batch: [session, index, trained]
  valid,         \* valid_sample_mask of the sessions; all of them where there is none
  response_mask, \* the sessions whose response mask is not zero
  advantage      \* of each row

vars == <<cfg, stage, trajs, outputs, score, rows, valid, response_mask, advantage>>

Sessions == DOMAIN cfg.uid
Keys == UNION {{i} \X (0 .. outputs[i] - 1) : i \in Sessions}
Sampled == {<<rows[r].session, rows[r].index>> : r \in DOMAIN rows}

Init ==
  /\ cfg \in Batches
  /\ stage = "rollout"
  /\ trajs = <<>> /\ outputs = <<>> /\ rows = <<>> /\ advantage = <<>>
  /\ score = [i \in Sessions |-> 0]
  /\ valid = Sessions /\ response_mask = Sessions

\* The agent loops hand in their trajectories.
Rollout ==
  /\ stage = "rollout" /\ Len(trajs) < Len(cfg.uid)
  /\ \E t \in cfg.inputs : trajs' = Append(trajs, t)
  /\ \E n \in cfg.outputs : outputs' = Append(outputs, n)
  /\ UNCHANGED <<cfg, stage, score, rows, valid, response_mask, advantage>>

\* extract_reward, rm_scores: all outputs of a session get the score of the last.
Reward ==
  /\ stage = "rollout" /\ Len(trajs) = Len(cfg.uid)
  /\ score' = [i \in Sessions |-> Score(trajs[i])]
  /\ stage' = "scored"
  /\ UNCHANGED <<cfg, trajs, outputs, rows, valid, response_mask, advantage>>

\* V1: the batch holds every output of its sessions, in any order; an output
\* may have no trained token.
Sample ==
  /\ stage = "scored" /\ cfg.v1
  /\ \E k \in Keys \ Sampled, t \in BOOLEAN :
       rows' = Append(rows, [session |-> k[1], index |-> k[2], trained |-> t])
  /\ UNCHANGED <<cfg, stage, trajs, outputs, score, valid, response_mask, advantage>>

\* V1: _compute_advantage, which comes here without a mask.
SessionAdvantages ==
  /\ stage = "scored" /\ cfg.v1 /\ Sampled = Keys
  /\ advantage' = Broadcast(rows, score, cfg.uid)
  /\ stage' = "done"
  /\ UNCHANGED <<cfg, trajs, outputs, score, rows, valid, response_mask>>

\* Mutation of Filter: the rows are masked in the baseline but not in the loss.
FilterBaselineOnly ==
  /\ stage = "scored" /\ ~cfg.v1
  /\ valid' = {i \in Sessions : ~ShouldMask(trajs[i])}
  /\ stage' = "filtered"
  /\ UNCHANGED <<cfg, trajs, outputs, score, rows, response_mask, advantage>>

\* Legacy: build_trajectory_filter_outputs and the zeroing of response_mask.
Filter ==
  /\ stage = "scored" /\ ~cfg.v1
  /\ valid' = {i \in Sessions : ~ShouldMask(trajs[i])}
  /\ response_mask' = response_mask \cap valid'
  /\ stage' = "filtered"
  /\ UNCHANGED <<cfg, trajs, outputs, score, rows, advantage>>

\* Legacy: compute_advantage, one row a session.
Advantage ==
  /\ stage = "filtered"
  /\ rows' = [i \in Sessions |-> [session |-> i, index |-> 0, trained |-> i \in response_mask]]
  /\ advantage' = [i \in Sessions |->
       IF i \in response_mask THEN Normalized(score, cfg.uid, valid, i) ELSE 0]
  /\ stage' = "done"
  /\ UNCHANGED <<cfg, trajs, outputs, score, valid, response_mask>>

Next == Rollout \/ Reward \/ Sample \/ SessionAdvantages \/ Filter \/ Advantage
Spec == Init /\ [][Next]_vars

-----------------------------------------------------------------------------
(* Properties of the reward: they compare two trajectories of the batch.   *)

Scored == stage # "rollout"
Alike(s, t) == s.multi = t.multi /\ s.answer = t.answer
\* No search, and no block that looks like one.
NoSearch(t) == Number(t.calls, Counted) = 0 /\ ~t.written
OnlyFailures(t) == /\ Number(t.calls, Failed) > 0 /\ Number(t.calls, Succeeded) = 0

\* "Searching and being correct > not searching and being correct": with the
\* same answer and source a successful search scores more than none.
SearchPays ==
  Scored => \A i, j \in Sessions :
    (/\ Alike(trajs[i], trajs[j]) /\ Number(trajs[i].calls, Succeeded) > 0
     /\ NoSearch(trajs[j]))
    => score[i] > score[j]

\* A failed search does not get round the penalty of a multi-hop question: it
\* scores what no search scores, unless an error text holds the answer.
FailedSearchNeverPays ==
  Scored => \A i, j \in Sessions :
    (/\ Alike(trajs[i], trajs[j]) /\ OnlyFailures(trajs[i]) /\ ~trajs[i].evidence
     /\ NoSearch(trajs[j]))
    => score[i] = score[j]

\* No search, evidence or format outweighs the answer: a right answer scores
\* more than every wrong or missing one.
CorrectDominates ==
  Scored => \A i, j \in Sessions : Correct(trajs[i]) /\ ~Correct(trajs[j]) => score[i] > score[j]

\* The order the reward puts trajectories in: the answer first, then whether a
\* search found something, and a search that failed counts for none.
RewardOrder == CorrectDominates /\ SearchPays /\ FailedSearchNeverPays

-----------------------------------------------------------------------------
(* Properties of the filter and the advantage.                             *)

Done == stage = "done"
LegacyDone == Done /\ ~cfg.v1

\* The legacy trainer: a masked trajectory has no advantage and no token in any
\* loss, and the groups TrajectoryFilter.filter_group would skip have none
\* either: two implementations of one rule.
MaskedHasNoGradient ==
  LegacyDone => \A i \in Sessions :
    LET group == GroupOf(cfg.uid, i)
    IN /\ ShouldMask(trajs[i]) => advantage[i] = 0 /\ i \notin response_mask
       /\ advantage[i] # 0 => i \in FilterGroup([j \in group |-> trajs[j]])

\* The vectorized estimators return what the loops return: GRPO with a mask
\* and, for groups of at least two, GRPO without and RLOO.
VectorizedAgrees ==
  Done => \A i \in Sessions :
    /\ Normalized(score, cfg.uid, valid, i) = Vectorized(score, cfg.uid, valid)[i]
    /\ Cardinality(GroupOf(cfg.uid, i)) > 1 =>
         /\ Normalized(score, cfg.uid, Sessions, i) = VectorizedUnmasked(score, cfg.uid, i)
         /\ Rloo(score, cfg.uid, i) = RlooVectorized(score, cfg.uid, i)

\* The tokens of a trajectory the model wrote: a turn for every call, each
\* followed by an observation, and the answer.
Written(t) == [k \in 1 .. 2 * Len(t.calls) + 1 |-> k % 2 = 1]

\* What the tools returned has no part in the credit: with GAE and ReMax every
\* token of the model has the advantage it would have in the response without
\* the observations, whatever the critic makes of these. REINFORCE++ resets at
\* an observation, and agrees only on the answer. (Stated when the batch has one
\* trajectory: it does not depend on the others.)
ObservationsInvisible ==
  Len(trajs) = 1 =>
    LET mask == Written(trajs[1])
        all == [k \in DOMAIN ModelTokens(mask) |-> TRUE]
        reward == [t \in DOMAIN mask |-> IF t = Len(mask) THEN Score(trajs[1]) ELSE 0]
    IN \A value \in [DOMAIN mask -> {0, 7}], gamma \in {1, 2} :
         /\ Without(Gae(reward, value, mask, gamma, 3), mask)
              = Gae(Without(reward, mask), Without(value, mask), all, gamma, 3)
         /\ Without(ReMax(reward, value[1], mask), mask)
              = ReMax(Without(reward, mask), value[1], all)
         /\ ReinforcePlusPlus(reward, mask, gamma)[Len(mask)]
              = Last(ReinforcePlusPlus(Without(reward, mask), all, gamma))

-----------------------------------------------------------------------------
(* Properties of the sessions of the V1 trainer.                           *)

Siblings(s) == {q \in Sessions : cfg.uid[q] = cfg.uid[s] /\ outputs[q] > 0}
LastUntrained(s) ==
  \E q \in RowsOf(rows, s) : rows[q].index = outputs[s] - 1 /\ ~rows[q].trained

\* A session weighs once in the baseline, however many outputs it stored: its
\* trained rows all have the number of siblings times its score minus the sum
\* of their scores, or nothing if its last output has no trained token.
SessionsCountOnce ==
  Done /\ cfg.v1 => \A r \in DOMAIN rows :
    LET s == rows[r].session
    IN rows[r].trained =>
         \/ advantage[r] = (IF Cardinality(Siblings(s)) < 2 THEN 0
                            ELSE Cardinality(Siblings(s)) * score[s] - Total(score, Siblings(s)))
         \/ advantage[r] = 0 /\ LastUntrained(s)
=============================================================================
