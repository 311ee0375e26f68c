---------------------------- MODULE DataParallel ----------------------------
(***************************************************************************)
(* A sampled batch on its way through the data-parallel workers: padding   *)
(* and balancing by the V1 trainer (_balance_batch), the dispatch of a     *)
(* call to the ranks and the collection of its outputs (decorator.py), the *)
(* micro-batches of a rank (engine/utils.py, seqlen_balancing.py), and the *)
(* gradient of the actor's mini-batches (engine_workers.py, the FSDP       *)
(* engine, agg_loss).                                                      *)
(*                                                                         *)
(* A row stands for a trajectory: its length and how many of its tokens    *)
(* carry a loss.  A gradient is the weight it gives a token of each row, a *)
(* fraction.  A data-parallel rank is one process; what its sequence-      *)
(* parallel workers do in lockstep is not told apart.                      *)
(***************************************************************************)
EXTENDS SeqlenBalancing

CONSTANTS
  Samples,         \* the batches that may be sampled: sequences of rows
  DpSize,          \* data-parallel ranks
  SpSize,          \* workers of a rank, consecutive in the world
  MiniBatch,       \* ppo_mini_batch_size * rollout.n
  CriticMiniBatch, \* that of the critic; 0 without critic
  Epochs,          \* ppo_epochs
  Shuffle,         \* whether the mini-batches are shuffled
  MaxTokenLen,     \* max_token_len_per_gpu * sp_size
  Modes,           \* values of loss_agg_mode
  NumWorkers       \* agent loop workers of a validation

ASSUME DataParallelAssumption ==
  /\ DpSize \in Nat \ {0} /\ SpSize \in Nat \ {0} /\ NumWorkers \in Nat \ {0}
  /\ MiniBatch \in Nat \ {0} /\ MiniBatch % DpSize = 0
  /\ CriticMiniBatch \in Nat /\ Epochs \in Nat \ {0}
  /\ Shuffle \in BOOLEAN
  /\ Modes \subseteq {"token-mean", "seq-mean-token-sum", "seq-mean-token-mean"}
  /\ MaxTokenLen \in Nat
  /\ \A s \in Samples : s \in Seq([len : 1 .. MaxTokenLen, mask : Nat]) /\ s # <<>>

Ranks == 1 .. DpSize
World == 1 .. DpSize * SpSize

VARIABLES
  mode,     \* loss_agg_mode
  stage,    \* of the trainer: what the batch goes through next
  batch,    \* the rows, as the trainer orders them
  values,   \* what the workers computed for the rows: their keys
  local,    \* rows of each rank in the present call, mini-batches in order
  mini,     \* index of the mini-batch
  pc,       \* of each rank, within forward_backward_batch
  micro,    \* its micro-batches: sequences of indices into its rows
  at,       \* the next micro-batch
  gradient, \* gradient[r][key]: accumulated by rank r since the last step
  steps     \* history: the gradients the optimizer was given

vars == <<mode, stage, batch, values, local, mini, pc, micro, at, gradient, steps>>
rankVars == <<local, mini, pc, micro, at, gradient, steps>>

Zero == <<0, 1>>
Add(a, b) == <<a[1] * b[2] + b[1] * a[2], a[2] * b[2]>>
Same(a, b) == a[2] # 0 /\ b[2] # 0 /\ a[1] * b[2] = b[1] * a[2]

Keys == {batch[i].key : i \in DOMAIN batch}
NoGradient == [r \in Ranks |-> [k \in Keys |-> Zero]]

Keyed(s) == [i \in DOMAIN s |-> [key |-> i, len |-> s[i].len, mask |-> s[i].mask]]

Init ==
  /\ mode \in Modes
  /\ stage \in {"sampled", "validation"}
  /\ \E s \in Samples : batch = Keyed(s)
  /\ values = <<>>
  /\ local = [r \in Ranks |-> <<>>] /\ mini = 1
  /\ pc = [r \in Ranks |-> "idle"]
  /\ micro = [r \in Ranks |-> <<>>] /\ at = [r \in Ranks |-> 1]
  /\ gradient = [r \in Ranks |-> <<>>] /\ steps = <<>>

-----------------------------------------------------------------------------
\* DataProto.chunk, chunk_tensordict: n equal parts, in order.
Chunk(s, n) ==
  LET size == Len(s) \div n IN [i \in 1 .. n |-> SubSeq(s, (i - 1) * size + 1, i * size)]

\* dispatch_nd_compute: each worker gets the part of its data-parallel rank.
DpRank(w) == ((w - 1) \div SpSize) + 1
Dispatch(s) == [w \in World |-> Chunk(s, DpSize)[DpRank(w)]]

\* collect_nd_compute: the first worker of each rank, in the order of the world.
Collect(out) == FlattenSeq([r \in Ranks |-> out[(r - 1) * SpSize + 1]])

\* pad_dataproto_to_divisor: the rows again, from the first, as often as needed.
PadToDivisor(s, n) ==
  [i \in 1 .. CeilDiv(Len(s), n) * n |-> s[((i - 1) % Len(s)) + 1]]

\* unpad_dataproto: s[:-n], nothing for n = 0.
Unpad(s, n) == SubSeq(s, 1, Len(s) - n)

\* _validate: padded, spread over the agent loop workers, collected, unpadded.
Validate ==
  LET padded == PadToDivisor(batch, NumWorkers)
      outs   == [w \in 1 .. NumWorkers |->
                  [i \in DOMAIN Chunk(padded, NumWorkers)[w] |-> Chunk(padded, NumWorkers)[w][i].key]]
  IN
  /\ stage = "validation"
  /\ values' = Unpad(FlattenSeq(outs), Len(padded) - Len(batch))
  /\ stage' = "validated"
  /\ UNCHANGED <<mode, batch, rankVars>>

-----------------------------------------------------------------------------
Divides(a, b) == b % a = 0
Lcm(a, b) == CHOOSE m \in 1 .. a * b :
  /\ Divides(a, m) /\ Divides(b, m)
  /\ \A k \in 1 .. m - 1 : ~(Divides(a, k) /\ Divides(b, k))

\* _get_required_batch_multiple, for a step that trains the actor.
BatchMultiple ==
  LET m == Lcm(DpSize, MiniBatch) IN IF CriticMiniBatch = 0 THEN m ELSE Lcm(m, CriticMiniBatch)

PadSize == (BatchMultiple - (Len(batch) % BatchMultiple)) % BatchMultiple

\* upsample_batch_to_divisible_size: rows of one prompt and one response token
\* without a loss.
Upsample ==
  LET n == Len(batch) IN
  /\ stage = "sampled"
  /\ batch' = batch \o [i \in 1 .. PadSize |-> [key |-> n + i, len |-> 2, mask |-> 0]]
  /\ stage' = "padded"
  /\ UNCHANGED <<mode, values, rankVars>>

WorkloadsOf(rows) == [i \in DOMAIN rows |-> Workload(rows[i].len)]

\* _balance_batch
Balance ==
  LET order == FlattenSeq(Partitions(WorkloadsOf(batch), DpSize, TRUE)) IN
  /\ stage = "padded"
  /\ batch' = [i \in DOMAIN order |-> batch[order[i]]]
  /\ stage' = "balanced"
  /\ UNCHANGED <<mode, values, rankVars>>

-----------------------------------------------------------------------------

\* Rows of the k-th mini-batch of a rank.
MiniBatchRows(rows, k) ==
  LET size == MiniBatch \div DpSize IN SubSeq(rows, (k - 1) * size + 1, k * size)

Training == stage = "update"
MiniBatches == Len(batch) \div MiniBatch

\* What rank r goes through in the present forward_backward_batch.
RowsOf(r) == IF Training THEN MiniBatchRows(local[r], mini) ELSE local[r]
LensOf(r) == [i \in DOMAIN RowsOf(r) |-> RowsOf(r)[i].len]

Enter == pc' = [r \in Ranks |-> "tokens"]

\* compute_log_prob, infer_batch
CallInfer ==
  /\ stage = "balanced"
  /\ local' = [r \in Ranks |-> Dispatch(batch)[(r - 1) * SpSize + 1]]
  /\ stage' = "infer" /\ Enter
  /\ UNCHANGED <<mode, batch, values, mini, micro, at, gradient, steps>>

\* The order in which a rank's iterator yields its rows, for all epochs.
Orders(rows) ==
  LET n == Len(rows)
      perms == IF Shuffle THEN {p \in [1 .. n -> 1 .. n] : \A i, j \in 1 .. n : p[i] = p[j] => i = j}
                          ELSE {[i \in 1 .. n |-> i]}
  IN {FlattenSeq([e \in 1 .. Epochs |-> [i \in 1 .. n |-> rows[ps[e][i]]]]) : ps \in [1 .. Epochs -> perms]}

\* update_actor, train_mini_batch
CallUpdate ==
  /\ stage = "computed"
  /\ LET rows == Chunk(batch, DpSize) IN
     \E l \in [Ranks -> UNION {Orders(rows[r]) : r \in Ranks}] :
       (\A r \in Ranks : l[r] \in Orders(rows[r])) /\ local' = l
  /\ stage' = "update" /\ mini' = 1 /\ Enter
  /\ gradient' = NoGradient
  /\ UNCHANGED <<mode, batch, values, micro, at, steps>>

\* The collectives that the ranks enter together: the sum of the tokens, then
\* the maximum of the numbers of micro-batches.
ReduceTokens ==
  /\ \A r \in Ranks : pc[r] = "tokens"
  /\ pc' = [r \in Ranks |-> "count"]
  /\ UNCHANGED <<mode, stage, batch, values, local, mini, micro, at, gradient, steps>>

\* Mutation of Agreed: each rank takes what it needs itself.
AgreedAlone(r) == MicroCount(LensOf(r), MaxTokenLen)

\* The number of micro-batches agreed upon, same_micro_num_in_dp.
Agreed(r) == Max({MicroCount(LensOf(q), MaxTokenLen) : q \in Ranks})

ReduceCount ==
  /\ \A r \in Ranks : pc[r] = "count"
  /\ micro' = [r \in Ranks |-> MicroBatches(LensOf(r), Agreed(r))]
  /\ at' = [r \in Ranks |-> 1]
  /\ pc' = [r \in Ranks |-> "forward"]
  /\ UNCHANGED <<mode, stage, batch, values, local, mini, gradient, steps>>

\* batch_num_tokens, of all ranks.
Tokens ==
  LET rows == FlattenSeq([r \in Ranks |-> RowsOf(r)])
      mask == [i \in DOMAIN rows |-> rows[i].mask]
  IN Total(mask, [i \in DOMAIN rows |-> i])

\* Mutation of TokenWeight: the mean of the rank's own share.
TokenWeightUnscaled(row, tokens, dp_size) ==
  CASE mode = "token-mean"          -> <<1, tokens>>
    [] mode = "seq-mean-token-sum"  -> <<1, MiniBatch>>
    [] mode = "seq-mean-token-mean" -> <<1, MiniBatch * row.mask>>

\* agg_loss: the weight it gives each token of a row that carries a loss; the
\* global batch size is that of the mini-batch.  A mini-batch without such tokens
\* divides by zero, but masked_sum keeps that out of every gradient.
TokenWeight(row, tokens, dp_size) ==
  CASE mode = "token-mean"          -> <<dp_size, tokens>>
    [] mode = "seq-mean-token-sum"  -> <<dp_size, MiniBatch>>
    [] mode = "seq-mean-token-mean" -> <<dp_size, MiniBatch * row.mask>>

\* Rank r is in the loop over its micro-batches, and has one left.
Looping(r) == pc[r] = "forward" /\ at[r] <= Len(micro[r])

\* The rows of the micro-batch rank r has come to.
Current(r) == {RowsOf(r)[i] : i \in ToSet(micro[r][at[r]])}

\* A forward pass gathers the parameters from all ranks, a backward pass
\* accumulates the gradient.
Forward ==
  /\ \A r \in Ranks : Looping(r)
  /\ at' = [r \in Ranks |-> at[r] + 1]
  /\ gradient' =
       IF ~Training THEN gradient
       ELSE [r \in Ranks |->
              [k \in Keys |->
                LET hit == {row \in Current(r) : row.key = k /\ row.mask > 0} IN
                IF hit = {} THEN gradient[r][k]
                ELSE Add(gradient[r][k], TokenWeight(CHOOSE row \in hit : TRUE, Tokens, DpSize))]]
  /\ UNCHANGED <<mode, stage, batch, values, local, mini, pc, micro, steps>>

\* The loop over the micro-batches ends.
Leave(r) ==
  /\ pc[r] = "forward" /\ ~Looping(r)
  /\ pc' = [pc EXCEPT ![r] = IF Training THEN "step" ELSE "return"]
  /\ UNCHANGED <<mode, stage, batch, values, local, mini, micro, at, gradient, steps>>

\* optimizer_step: FSDP has averaged the gradients of the ranks.
Average == [k \in Keys |->
  LET sum == FoldSeq(LAMBDA r, g : Add(g, gradient[r][k]), Zero, [r \in Ranks |-> r])
  IN <<sum[1], sum[2] * DpSize>>]

OptimizerStep ==
  /\ \A r \in Ranks : pc[r] = "step"
  /\ steps' = Append(steps, Average)
  /\ gradient' = NoGradient
  /\ IF mini < MiniBatches * Epochs
     THEN mini' = mini + 1 /\ Enter /\ UNCHANGED stage
     ELSE stage' = "trained" /\ pc' = [r \in Ranks |-> "idle"] /\ UNCHANGED mini
  /\ UNCHANGED <<mode, batch, values, local, micro, at>>

\* postprocess_batch_func: outputs in the order of the rank's rows.
OutputOf(r) ==
  Restore(FlattenSeq([j \in DOMAIN micro[r] |->
            [i \in DOMAIN micro[r][j] |-> RowsOf(r)[micro[r][j][i]].key]]), micro[r])

\* The trainer takes the outputs when every worker has returned.
CollectInfer ==
  /\ stage = "infer" /\ \A r \in Ranks : pc[r] = "return"
  /\ values' = Collect([w \in World |-> OutputOf(DpRank(w))])
  /\ stage' = "computed"
  /\ pc' = [r \in Ranks |-> "idle"]
  /\ UNCHANGED <<mode, batch, local, mini, micro, at, gradient, steps>>

-----------------------------------------------------------------------------
Done == stage \in {"trained", "validated"} /\ UNCHANGED vars

Next ==
  \/ Done \/ Validate \/ Upsample \/ Balance \/ CallInfer \/ CallUpdate
  \/ ReduceTokens \/ ReduceCount \/ Forward \/ OptimizerStep \/ CollectInfer
  \/ \E r \in Ranks : Leave(r)

Spec == Init /\ [][Next]_vars

-----------------------------------------------------------------------------
Stages == {"sampled", "padded", "balanced", "infer", "computed", "update", "trained",
           "validation", "validated"}
RowSet == [key : Nat, len : 1 .. MaxTokenLen, mask : Nat]

TypeOK ==
  /\ mode \in Modes /\ stage \in Stages
  /\ \A i \in DOMAIN batch : batch[i] \in RowSet
  /\ \A r \in Ranks : \A i \in DOMAIN local[r] : local[r][i] \in RowSet
  /\ Training => mini \in 1 .. MiniBatches * Epochs
  /\ pc \in [Ranks -> {"idle", "tokens", "count", "forward", "step", "return"}]
  /\ \A r \in Ranks : at[r] \in 1 .. Len(micro[r]) + 1

\* What the workers computed for a row is what the trainer finds at its place,
\* over padding, balancing, dispatch, micro-batches and collection.
OutputsAligned ==
  stage \in {"computed", "update", "trained", "validated"} =>
    values = [i \in DOMAIN batch |-> batch[i].key]

\* The gradient of a mini-batch is what one process would compute for all its
\* rows at once: a token has the weight agg_loss gives it over the global
\* batch, however rows are split into ranks and micro-batches.
GradientInvariant ==
  (\A r \in Ranks : pc[r] = "step") =>
    \A k \in Keys :
      LET hit == {row \in UNION {ToSet(RowsOf(r)) : r \in Ranks} : row.key = k /\ row.mask > 0} IN
      Same(Average[k], IF hit = {} THEN Zero ELSE TokenWeight(CHOOSE row \in hit : TRUE, Tokens, 1))

\* No rank waits in a forward pass, for which it gathers the parameters from
\* all, while another has left its loop: both would wait for ever.
SameForwards == \A q, r \in Ranks : Looping(q) => Looping(r)
=============================================================================
