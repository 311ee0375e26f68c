-------------------------- MODULE FullyAsyncTrainer --------------------------
(***************************************************************************)
(* The trainer of the fully asynchronous mode                              *)
(* (experimental/fully_async_policy/fully_async_trainer.py) with the       *)
(* rollouter and the message queue.  It collects RequiredSamples samples,  *)
(* trains on them, and after SyncEvery trainings updates the weights of    *)
(* the rollout engines and has the rollouter reset its staleness.          *)
(***************************************************************************)
EXTENDS FullyAsyncRollouter

CONSTANTS
  RequiredSamples,   (* required_samples: of one training                  *)
  SyncEvery          (* trigger_parameter_sync_step                        *)

SamplesPerSync == RequiredSamples * SyncEvery

(* set_max_required_samples: both limits are the samples of one parameter  *)
(* version times staleness_threshold + 1, which is at least 1.             *)
ASSUME TrainerAssumption ==
  /\ RequiredSamples \in Nat \ {0} /\ SyncEvery \in Nat \ {0}
  /\ MaxRequired >= SamplesPerSync
  /\ MaxQueueSize = MaxRequired

VARIABLES
  tpc,         (* where the trainer is                                     *)
  localStep,   (* local_trigger_step                                       *)
  stopped,     (* the queue ended the training loop                        *)
  collected,   (* queue_samples of the training to come                    *)
  trained,     (* history: samples trained on                              *)
  nActive,     (* reset_staleness: the tasks it counted                    *)
  nQueued      (* reset_staleness: the queue size it was told              *)

trainVars == <<tpc, localStep, stopped, collected, trained, nActive, nQueued>>
vars == <<queueVars, rolloutVars, trainVars>>

TrainerStates == {"collect", "train", "update", "reset", "size", "set", "done"}

Init ==
  /\ QueueInit
  /\ RolloutInit
  /\ tpc = "collect" /\ localStep = 1 /\ stopped = FALSE /\ collected = {} /\ trained = {}
  /\ nActive = 0 /\ nQueued = 0

(* _get_samples_from_queue: a sample, or the end signal, which stops the   *)
(* training whatever has been collected; fit then may update the weights   *)
(* once more, by its test frequency.                                       *)
Collect ==
  /\ tpc = "collect"
  /\ \E x \in Samples :
       /\ Get(x)
       /\ collected' = collected \cup {x}
       /\ tpc' = IF Cardinality(collected') = RequiredSamples THEN "train" ELSE "collect"
  /\ UNCHANGED <<localStep, stopped, trained, nActive, nQueued, rolloutVars>>

Stop ==
  /\ tpc = "collect"
  /\ Get(EndSignal)
  /\ stopped' = TRUE
  /\ tpc' \in {"done"} \cup (IF localStep = 1 THEN {"update"} ELSE {})
  /\ UNCHANGED <<localStep, collected, trained, nActive, nQueued, rolloutVars>>

(* The update of the actor and _fit_update_local_step.                     *)
Train ==
  /\ tpc = "train"
  /\ trained' = trained \cup collected
  /\ collected' = {}
  /\ IF localStep < SyncEvery
     THEN localStep' = localStep + 1 /\ tpc' = "collect"
     ELSE localStep' = 1 /\ tpc' = "update"
  /\ UNCHANGED <<stopped, nActive, nQueued, queueVars, rolloutVars>>

(* _fit_update_weights: the engines get the new weights; then the call of  *)
(* reset_staleness reaches the rollouter's lock.                           *)
UpdateWeights ==
  /\ tpc = "update"
  /\ tpc' = "reset" /\ Acquire("reset")
  /\ UNCHANGED <<localStep, stopped, collected, trained, nActive, nQueued, queueVars,
                 procVars, taskVars, monVars, paused, staleness>>

(* reset_staleness: resumes the rollouter, counts its tasks, asks for the  *)
(* queue size and only then assigns the sum.                               *)
ResetCount ==
  /\ tpc = "reset" /\ Holds("reset")
  /\ paused' = FALSE
  /\ nActive' = Cardinality(Active)
  /\ tpc' = "size"
  /\ UNCHANGED <<localStep, stopped, collected, trained, nQueued, queueVars,
                 procVars, taskVars, monVars, staleness, lock>>

ResetSize ==
  /\ tpc = "size"
  /\ nQueued' = Len(queue)
  /\ tpc' = "set"
  /\ UNCHANGED <<localStep, stopped, collected, trained, nActive, queueVars, rolloutVars>>

ResetSet ==
  /\ tpc = "set"
  /\ staleness' = nActive + nQueued
  /\ tpc' = (IF stopped THEN "done" ELSE "collect") /\ Release
  /\ UNCHANGED <<localStep, stopped, collected, trained, nActive, nQueued, queueVars,
                 procVars, taskVars, monVars, paused>>

TrainNext ==
  \/ Collect \/ Stop \/ Train
  \/ UpdateWeights \/ ResetCount \/ ResetSize \/ ResetSet

Next ==
  \/ TrainNext
  \/ RolloutNext /\ UNCHANGED trainVars

Spec == Init /\ [][Next]_vars

TypeOK ==
  /\ QueueTypeOK
  /\ RolloutTypeOK
  /\ tpc \in TrainerStates
  /\ localStep \in 1 .. SyncEvery /\ stopped \in BOOLEAN
  /\ collected \subseteq Samples /\ trained \subseteq Samples
  /\ nActive \in Nat /\ nQueued \in Nat

------------------------------------------------------------------------------
(* Samples generated or being generated for the trainer's next versions.   *)
Outstanding == Cardinality(running) + Cardinality(Queued)

(* At most one sample more than max_required_samples is outstanding: the   *)
(* one the processor has taken but not started when reset_staleness counts *)
(* (fully_async_rollouter.py:475 and :796-798), and none accumulates over  *)
(* the resets.                                                             *)
OutstandingBounded == Outstanding <= MaxRequired + 1

(* The end signal reaches the trainer.  A task that raised ends the stream *)
(* while others still generate; what they put later must not push the end  *)
(* signal out of the queue, or the trainer waits for ever.  Only the limit *)
(* of concurrency sees to it (fully_async_rollouter.py:442, :815, :912,    *)
(* message_queue.py:68).                                                   *)
EndSignalKept == EndSignal \notin dropped

(* A training that ended without a failed task has trained on all samples  *)
(* but the last, too few for a training, and those the queue dropped: the  *)
(* end signal overtakes no sample (fully_async_rollouter.py:804-813).      *)
AllTrained ==
  stopped /\ failed = {} => trained \cup collected \cup dropped = Samples

(* What is left over when the weights change, the samples of the old       *)
(* weights, leaves room for a version's samples: the staleness threshold.  *)
(* At threshold 0 nothing at all is left (README.md:130 of the mode), above*)
(* it at most one sample more, the one reset_staleness missed              *)
(* (fully_async_rollouter.py:475, :754, :796-798 and :996).                *)
LeftOverBounded ==
  ~stopped /\ tpc \in {"update", "reset", "size", "set"} =>
    Outstanding + SamplesPerSync <= MaxRequired + (IF MaxRequired = SamplesPerSync THEN 0 ELSE 1)

(* Coroutines take turns, asyncio schedules each of them, tasks generate   *)
(* and the trainer computes for a bounded time.                            *)
Fairness ==
  /\ WF_vars(Feed /\ UNCHANGED trainVars)
  /\ WF_vars(ProcNext /\ UNCHANGED trainVars)
  /\ WF_vars(MonNext /\ UNCHANGED trainVars)
  /\ WF_vars(TrainNext)
  /\ \A x \in Samples : WF_vars(TaskPut(x) /\ UNCHANGED trainVars)

LiveSpec == Spec /\ Fairness

(* The training ends, provided the tasks that reset_staleness may count    *)
(* twice, done but not yet removed, leave room for a version's samples.    *)
TrainingEnds == MaxConcurrent + SamplesPerSync <= MaxRequired => <>(tpc = "done")

(* README.md:121-122 of the mode: between every two synchronizations the   *)
(* trainer processes SamplesPerSync samples; it is never starved of them.  *)
NeverStarved == tpc = "collect" ~> (tpc = "update" \/ tpc = "done")
==============================================================================
