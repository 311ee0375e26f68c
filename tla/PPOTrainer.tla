------------------------------ MODULE PPOTrainer ------------------------------
(***************************************************************************)
(* The V1 trainer (trainer/ppo/v1/trainer_base.py, trainer_sync.py,        *)
(* trainer_colocate_async.py) running against its rollout workers, its     *)
(* replay buffer and the colocated rollout engine.                         *)
(*                                                                         *)
(* One training step: submit a batch of prompts, poll until enough GRPO    *)
(* groups are reported, take the oldest ones, put the engine to sleep,     *)
(* train, wake the engine with the new weights, clear the batch.  The      *)
(* asynchronous mode submits Warmup batches ahead, aborts what is still    *)
(* generating at the end of sampling and resumes it after the update.      *)
(***************************************************************************)
EXTENDS AgentLoopTQ, ReplayBuffer

CONSTANT Mode   (* trainer.v1.trainer_mode of a colocated trainer          *)

ASSUME ModeAssumption == Mode \in {"sync", "colocate_async"}

VARIABLES
  pc,      (* where the trainer's control is                               *)
  g,       (* global_steps                                                 *)
  fed,     (* prompts the dataloader has handed out                        *)
  batch,   (* KVBatchMeta.keys of the step                                 *)
  taken    (* history: prompts some sample call has selected               *)

trainerVars == <<pc, g, fed, batch, taken, snap>>
vars == <<kvVars, loopVars, engineVars, trainerVars>>

TrainerStates ==
  {"warmup", "add", "sample", "take", "abort", "drain", "sleep", "balance",
   "update", "resume", "cleanup", "done", "crashed"}

WarmupBatches == IF Mode = "sync" THEN 0 ELSE Warmup
WarmupPrompts == WarmupBatches * BatchSize

(* on_init_end loaded the engine with the weights of step 0; fit moves     *)
(* global_steps to 1 before on_train_begin.                                *)
Init ==
  /\ KvInit
  /\ LoopInit
  /\ awake = TRUE /\ paused = FALSE /\ version = 0
  /\ snap = EmptySnap
  /\ pc = "warmup" /\ g = 1 /\ fed = 0 /\ batch = {} /\ taken = {}

(* _add_batch_to_generate: register the next batch_size prompts as         *)
(* pending, hand them to the workers.                                      *)
AddBatch ==
  LET us == fed + 1 .. fed + BatchSize IN
  /\ KvRegister(us, g)
  /\ task' = [u \in Prompts |-> IF u \in us THEN "queued" ELSE task[u]]
  /\ fed' = fed + BatchSize
  /\ UNCHANGED <<session, engineVars, g, batch, taken, snap>>

(* on_train_begin of the asynchronous mode.                                *)
WarmupBatch ==
  /\ pc = "warmup" /\ fed < WarmupPrompts
  /\ AddBatch
  /\ UNCHANGED pc

WarmupEnd ==
  /\ pc = "warmup" /\ fed >= WarmupPrompts
  /\ pc' = "add"
  /\ UNCHANGED <<g, fed, batch, taken, snap, kvVars, loopVars, engineVars>>

StepBegin ==
  /\ pc = "add"
  /\ AddBatch
  /\ pc' = "sample"

(* The last poll of ReplayBuffer.sample; the polls before it, which find   *)
(* too few samples, leave nothing a later step reads.                      *)
Poll ==
  /\ pc = "sample"
  /\ HasEnoughSamples(SyncMetadata, g)
  /\ snap' = SyncMetadata
  /\ pc' = "take"
  /\ UNCHANGED <<g, fed, batch, taken, kvVars, loopVars, engineVars>>

(* The rest of ReplayBuffer.sample: select, clear the prompt keys, collect *)
(* the trajectories of the snapshot, drop and clear the stale ones.        *)
Take ==
  /\ pc = "take"
  /\ \E S \in Selections(snap) :
       LET keys    == Collect(snap, S)
           dropped == TooStale(keys, g)
       IN /\ KvClear(S, dropped)
          /\ batch' = keys \ dropped
          /\ taken' = taken \cup S
  /\ snap' = EmptySnap
  /\ pc' = IF Mode = "sync" THEN "drain" ELSE "abort"
  /\ UNCHANGED <<g, fed, loopVars, engineVars>>

(* on_sample_end: abort (asynchronous mode), wait for the engine to drain, *)
(* sleep.                                                                  *)
Abort ==
  /\ pc = "abort"
  /\ AbortAll
  /\ pc' = "drain"
  /\ UNCHANGED <<g, fed, batch, taken, snap, kvVars>>

Drain ==
  /\ pc = "drain"
  /\ Drained
  /\ pc' = "sleep"
  /\ UNCHANGED <<g, fed, batch, taken, snap, kvVars, loopVars, engineVars>>

Sleep ==
  /\ pc = "sleep"
  /\ awake' = FALSE
  /\ pc' = "balance"
  /\ UNCHANGED <<paused, version, g, fed, batch, taken, snap, kvVars, loopVars>>

(* Padding samples added so that the batch size divides: none if it does.  *)
Padding(keys) ==
  {t \in PadKeys :
     /\ Cardinality(keys) % BatchMultiple # 0
     /\ t[2] <= BatchMultiple - (Cardinality(keys) % BatchMultiple)}

(* _balance_batch pads the batch, then fails its assertion on a batch      *)
(* smaller than the data-parallel size, which only an empty one is.        *)
Balance ==
  /\ pc = "balance"
  /\ batch # {}
  /\ KvPutTraj(Padding(batch))
  /\ batch' = batch \cup Padding(batch)
  /\ pc' = "update"
  /\ UNCHANGED <<g, fed, taken, snap, loopVars, engineVars>>

Crash ==
  /\ pc = "balance"
  /\ batch = {}
  /\ pc' = "crashed"
  /\ UNCHANGED <<g, fed, batch, taken, snap, kvVars, loopVars, engineVars>>

(* update_actor, then on_step_end: update_weights wakes the engine with    *)
(* the weights of this step.                                               *)
UpdateWeights ==
  /\ pc = "update"
  /\ awake' = TRUE
  /\ version' = g
  /\ pc' = IF Mode = "sync" THEN "cleanup" ELSE "resume"
  /\ UNCHANGED <<paused, g, fed, batch, taken, snap, kvVars, loopVars>>

(* Mutation of Resume: generation stays paused after the update.           *)
ResumeForgotten ==
  /\ pc = "resume"
  /\ pc' = "cleanup"
  /\ UNCHANGED <<engineVars, g, fed, batch, taken, snap, kvVars, loopVars>>

Resume ==
  /\ pc = "resume"
  /\ paused' = FALSE
  /\ pc' = "cleanup"
  /\ UNCHANGED <<awake, version, g, fed, batch, taken, snap, kvVars, loopVars>>

(* The end of fit's loop body: clear the batch, go to the next step.       *)
Cleanup ==
  /\ pc = "cleanup"
  /\ KvClearTraj(batch)
  /\ batch' = {}
  /\ IF g >= TotalSteps THEN pc' = "done" /\ g' = g
                        ELSE pc' = "add"  /\ g' = g + 1
  /\ UNCHANGED <<fed, taken, snap, loopVars, engineVars>>

TrainerNext ==
  \/ WarmupBatch \/ WarmupEnd \/ StepBegin \/ Poll \/ Take
  \/ Abort \/ Drain \/ Sleep \/ Balance \/ Crash
  \/ UpdateWeights \/ Resume \/ Cleanup

Next ==
  \/ TrainerNext
  \/ WorkerNext /\ UNCHANGED trainerVars

Spec == Init /\ [][Next]_vars

TypeOK ==
  /\ KvTypeOK
  /\ LoopTypeOK
  /\ snap \in Snapshots
  /\ pc \in TrainerStates
  /\ g \in 1 .. TotalSteps
  /\ fed \in 0 .. (Warmup + TotalSteps) * BatchSize
  /\ batch \subseteq (RealKeys \cup PadKeys)
  /\ taken \subseteq Prompts

------------------------------------------------------------------------------
(* A prompt taken while reported finished leaves with its whole group: a   *)
(* group of which one trajectory is trained has all of them in the batch.  *)
(* GRPO's group mean and deviation rest on it (agent_loop_tq.py:124-125    *)
(* puts "finished" after every trajectory, replay_buffer.py:229-235).      *)
GroupsWhole ==
  \A u \in Prompts :
    /\ task[u] = "finished"
    /\ \E i \in Sessions : <<u, i>> \in batch
    => \A i \in Sessions : <<u, i>> \in batch

(* No trajectory enters a batch twice: a batch only takes in trajectories  *)
(* of prompts no earlier sample call selected (replay_buffer.py:227 clears *)
(* the prompt keys it selects).                                            *)
NoResample == [][\A t \in batch' \ batch : t[1] \notin taken]_vars

(* Nothing is left behind in the store: a trajectory outside the batch     *)
(* belongs to a prompt still registered, unless a session of its prompt    *)
(* failed; padding leaves with the batch (trainer_base.py:401).            *)
NoOrphans ==
  \A t \in kvTraj :
    t \in batch \/ (t[1] # PadUid /\ (kvPrompt[t[1]] # "absent" \/ task[t[1]] = "failure"))

(* The engine holds no request while its weights are off the device. In    *)
(* the synchronous mode this needs that no sibling of a failed session is  *)
(* still running when the trainer goes to sleep (trainer_sync.py:40-42).   *)
AsleepIdle ==
  ~awake => \A u \in Prompts, i \in Sessions :
              Inflight(u, i) => Mode = "sync" /\ task[u] = "failure"

(* Under "drop" no trained trajectory was started with weights more than   *)
(* Threshold versions behind the trained ones (replay_buffer.py:153-184,   *)
(* and the tags of agent_loop_tq.py:191-199).                              *)
DropBoundsStaleness ==
  Strategy = "drop" =>
    \A t \in batch : t[1] # PadUid => g - session[t[1]][t[2]].min <= Threshold

(* Under "wait" the generation of a trajectory spans at most Threshold     *)
(* versions of the weights (replay_buffer.py:69 and :145-149), unless a    *)
(* sibling failed and took the prompt out of the wait.                     *)
WaitBoundsSpan ==
  Strategy = "wait" =>
    \A t \in kvTraj \cap RealKeys :
      task[t[1]] # "failure" =>
        session[t[1]][t[2]].max - session[t[1]][t[2]].min + 1 <= Threshold

(* Under "wait" the trained prompts are bounded like under "drop", as long *)
(* as at most one batch, and fewer than Threshold, is submitted ahead: a   *)
(* prompt that reaches Threshold is reported and among the oldest of the   *)
(* next selection (replay_buffer.py:145-149 with :223-226).  With two      *)
(* batches ahead it is not: too many prompts carry the step of the first.  *)
WaitBoundsStaleness ==
  Strategy = "wait" /\ Warmup <= 1 /\ Warmup < Threshold =>
    \A t \in batch : t[1] # PadUid => Staleness(t[1], g) <= Threshold

(* The trainer with its workers, store and replay buffer is an             *)
(* implementation of GroupSampling: back-pressure, and every prompt        *)
(* reported and consumed at most once, BatchSize of them per step, however *)
(* tags, snapshots and aborts interleave.  A step counts once `sample` has *)
(* returned its batch (trainer_base.py:418-445, replay_buffer.py:187-238). *)
WithTag(tags) == {u \in Prompts : kvPrompt[u] \in tags}
Consumed      == {u \in Prompts : u <= fed /\ kvPrompt[u] = "absent"}
StepsSampled  == IF pc \in {"warmup", "add", "sample", "take"} THEN g - 1 ELSE g

GS == INSTANCE GroupSampling WITH
        Ahead    <- WarmupPrompts,
        inflight <- WithTag({"pending", "running"}),
        ready    <- WithTag(Reported),
        used     <- Consumed,
        step     <- StepsSampled

ImplementsGroupSampling == GS!Spec

------------------------------------------------------------------------------
(* The event loops of the workers and the trainer's thread are never       *)
(* stopped while they can go on; the engine and the tools answer (the      *)
(* engine by contract, the search tool by its timeout).                    *)
Fairness ==
  /\ WF_vars(TrainerNext)
  /\ \A u \in Prompts :
       /\ WF_vars(PromptStart(u) /\ UNCHANGED trainerVars)
       /\ WF_vars((PromptFinish(u) \/ PromptFailure(u)) /\ UNCHANGED trainerVars)
       /\ \A i \in Sessions :
            WF_vars((Admit(u, i) \/ TurnDone(u, i) \/ ToolReturn(u, i) \/ Store(u, i))
                      /\ UNCHANGED trainerVars)

LiveSpec == Spec /\ Fairness

(* Training ends: with no stuck session, every sample call finds a batch   *)
(* (replay_buffer.py:207 has no timeout) and the engine always drains.     *)
TrainingEnds == <>(pc \in {"done", "crashed"})

(* Every prompt handed to the workers is reported, whatever the trainer    *)
(* aborts and resumes meanwhile.                                           *)
EveryPromptReported ==
  \A u \in Prompts : kvPrompt[u] = "pending" ~> (kvPrompt[u] \in Reported \/ pc = "crashed")
===============================================================================
