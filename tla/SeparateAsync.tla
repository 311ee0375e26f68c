--------------------------- MODULE SeparateAsync ---------------------------
(***************************************************************************)
(* PPOTrainerSeparateAsync (trainer/ppo/v1/trainer_separate_async.py).     *)
(* Standalone servers generate all the time and are paused only for the    *)
(* weight update at the end of a step.  The servers of the hybrid engine   *)
(* share the devices of the trainer: they generate until the first batch   *)
(* of a step is sampled and during validation, and are then taken out of   *)
(* the load balancer, aborted and put to sleep.                            *)
(*                                                                         *)
(* Clients (FullyAsyncLLMServerClient) acquire a server and call it in two *)
(* remote calls; the trainer's calls come in between.  A prompt is one     *)
(* request here; what the replay buffer does is in ReplayBuffer.           *)
(***************************************************************************)
EXTENDS LoadBalancer

CONSTANTS
  TotalSteps,    (* total_training_steps                                   *)
  MiniBatch,     (* ppo_mini_batch_size: prompts per local update          *)
  SyncSteps,     (* parameter_sync_step: local updates per weight update   *)
  Warmup,        (* num_warmup_batches                                     *)
  TestFreq,      (* test_freq                                              *)
  MaxTurns       (* assistant turns of a conversation                      *)

BatchSize == SyncSteps * MiniBatch
TrainIds  == 1 .. BatchSize * (Warmup + TotalSteps)
ValIds(k) == {Cardinality(TrainIds) + k}

ASSUME SeparateAssumption ==
  /\ TotalSteps \in Nat \ {0}
  /\ MiniBatch \in Nat \ {0}
  /\ SyncSteps \in Nat \ {0}
  /\ Warmup \in Nat
  /\ TestFreq \in Nat
  /\ MaxTurns \in Nat \ {0}
  /\ Requests = TrainIds \cup UNION {ValIds(k) : k \in 1 .. TotalSteps}

VARIABLES
  call,       (* where the generate call of each request is                *)
  turn,       (* assistant turns a request has finished                    *)
  awake,      (* weights and kv cache of a server are on the device        *)
  paused,     (* pause_generation: calls that arrive block                 *)
  version,    (* global_steps of the weights a server has                  *)
  pc,         (* where the trainer is                                      *)
  step,       (* global_steps                                              *)
  iter,       (* local updates done in this step                           *)
  submitted   (* prompts handed to the agent loop workers                  *)

clientVars  == <<call, turn>>
engineVars  == <<awake, paused, version>>
trainerVars == <<pc, step, iter, submitted>>
vars == <<balancerVars, clientVars, engineVars, trainerVars>>

Hybrid     == Elastic
Standalone == Servers \ Elastic

CallStates == {"none", "idle", "acquired", "engine", "aborted", "ended", "done", "sampled"}

TrainerStates ==
  {"warmup", "add", "sample", "remove", "abort", "sleep", "train", "pause",
   "update", "resume", "reload", "wake", "readd", "validate", "end"}

Init ==
  /\ BalancerInit
  /\ call = [r \in Requests |-> "none"]
  /\ turn = [r \in Requests |-> 0]
  /\ awake = [s \in Servers |-> TRUE]
  /\ paused = [s \in Servers |-> FALSE]
  /\ version = [s \in Servers |-> 0]
  /\ pc = "warmup" /\ step = 1 /\ iter = 0 /\ submitted = 0

Goto(p) == pc' = p /\ UNCHANGED <<step, iter>>

-----------------------------------------------------------------------------
(* generate of the client, up to the reply of acquire_server.              *)
ClientAcquire(r, s) ==
  /\ call[r] = "idle"
  /\ Acquire(r, s)
  /\ call' = [call EXCEPT ![r] = "acquired"]
  /\ UNCHANGED <<turn, engineVars, trainerVars>>

(* server.generate arrives: blocked while the server is paused.            *)
Arrive(r) ==
  /\ call[r] = "acquired"
  /\ ~paused[held[r]]
  /\ call' = [call EXCEPT ![r] = "engine"]
  /\ UNCHANGED <<turn, balancerVars, engineVars, trainerVars>>

(* The server finishes the turn and the client sends the release.          *)
TurnEnd(r) ==
  /\ call[r] = "engine"
  /\ awake[held[r]]
  /\ call' = [call EXCEPT ![r] = "ended"]
  /\ turn' = [turn EXCEPT ![r] = @ + 1]
  /\ UNCHANGED <<balancerVars, engineVars, trainerVars>>

(* The release reaches the balancer.  An aborted turn is retried with the  *)
(* same request id; after a finished turn the conversation goes on or ends.*)
ClientRelease(r) ==
  /\ call[r] \in {"aborted", "ended"}
  /\ Release(r)
  /\ \/ /\ call[r] = "aborted" \/ turn[r] < MaxTurns
        /\ call' = [call EXCEPT ![r] = "idle"]
     \/ /\ call[r] = "ended"
        /\ call' = [call EXCEPT ![r] = "done"]
  /\ UNCHANGED <<turn, engineVars, trainerVars>>

-----------------------------------------------------------------------------
Submit(R) == call' = [r \in Requests |-> IF r \in R THEN "idle" ELSE call[r]]

NextBatch(n) == {r \in TrainIds : submitted < r /\ r <= submitted + n}

(* on_train_begin                                                          *)
WarmUp ==
  /\ pc = "warmup"
  /\ Submit(NextBatch(Warmup * BatchSize))
  /\ submitted' = Warmup * BatchSize
  /\ Goto("add")
  /\ UNCHANGED <<turn, balancerVars, engineVars>>

(* step: submit a batch, ahead of the SyncSteps local updates.             *)
AddBatch ==
  /\ pc = "add"
  /\ Submit(NextBatch(BatchSize))
  /\ submitted' = submitted + BatchSize
  /\ Goto("sample")
  /\ UNCHANGED <<turn, balancerVars, engineVars>>

(* replay_buffer.sample, then on_sample_end: the hybrid engine goes back   *)
(* to the trainer if it was generating (current_mode is ROLLOUT exactly    *)
(* while its servers are in the pool).                                     *)
Sample ==
  /\ pc = "sample"
  /\ \E R \in SUBSET {r \in TrainIds : call[r] = "done"} :
       /\ Cardinality(R) = MiniBatch
       /\ call' = [r \in Requests |-> IF r \in R THEN "sampled" ELSE call[r]]
  /\ Goto(IF Hybrid \subseteq pool THEN "remove" ELSE "train")
  /\ UNCHANGED <<turn, submitted, balancerVars, engineVars>>

(* Mutation of RemoveHybrid: the servers of the wrong manager.             *)
RemoveStandalone ==
  /\ pc = "remove"
  /\ RemoveServers(Standalone)
  /\ Goto("abort")
  /\ UNCHANGED <<submitted, clientVars, engineVars>>

(* switch_to_trainer, first call                                           *)
RemoveHybrid ==
  /\ pc = "remove"
  /\ RemoveServers(Hybrid)
  /\ Goto("abort")
  /\ UNCHANGED <<submitted, clientVars, engineVars>>

(* Mutation of AbortOn: running requests return, but calls still enter.    *)
AbortOnWithoutPause(S) ==
  /\ call' = [r \in Requests |->
                IF call[r] = "engine" /\ held[r] \in S THEN "aborted" ELSE call[r]]
  /\ UNCHANGED paused

(* abort_all_requests on servers S: running requests return what they have,*)
(* calls that arrive from now on block.                                    *)
AbortOn(S) ==
  /\ call' = [r \in Requests |->
                IF call[r] = "engine" /\ held[r] \in S THEN "aborted" ELSE call[r]]
  /\ paused' = [s \in Servers |-> paused[s] \/ s \in S]

(* switch_to_trainer, second call                                          *)
AbortHybrid ==
  /\ pc = "abort"
  /\ AbortOn(Hybrid)
  /\ Goto("sleep")
  /\ UNCHANGED <<turn, submitted, awake, version, balancerVars>>

(* switch_to_trainer, third call: sleep_replicas after the drain.          *)
SleepHybrid ==
  /\ pc = "sleep"
  /\ \A r \in Requests : held[r] \in Hybrid => call[r] # "engine"
  /\ awake' = [s \in Servers |-> awake[s] /\ s \in Standalone]
  /\ Goto("train")
  /\ UNCHANGED <<submitted, paused, version, balancerVars, clientVars>>

(* One local update; the last of a step is followed by on_step_end.        *)
Train ==
  /\ pc = "train"
  /\ IF iter + 1 < SyncSteps
     THEN pc' = "sample" /\ iter' = iter + 1
     ELSE pc' = "pause" /\ iter' = 0
  /\ UNCHANGED <<step, submitted, balancerVars, clientVars, engineVars>>

(* on_step_end: CheckpointEngineManager.update_weights of the standalone   *)
(* servers aborts, transfers and resumes.                                  *)
PauseStandalone ==
  /\ pc = "pause"
  /\ AbortOn(Standalone)
  /\ Goto("update")
  /\ UNCHANGED <<turn, submitted, awake, version, balancerVars>>

UpdateStandalone ==
  /\ pc = "update"
  /\ version' = [s \in Servers |-> IF s \in Standalone THEN step ELSE version[s]]
  /\ Goto("resume")
  /\ UNCHANGED <<submitted, awake, paused, balancerVars, clientVars>>

Validates == TestFreq > 0 /\ (step = TotalSteps \/ step % TestFreq = 0)

NextStep ==
  /\ IF step = TotalSteps
     THEN pc' = "end" /\ step' = step
     ELSE pc' = "add" /\ step' = step + 1
  /\ UNCHANGED iter

(* Mutation of ResumeStandalone: generation is not resumed.                *)
ResumeForgotten ==
  /\ pc = "resume"
  /\ IF Validates THEN Goto("reload") ELSE NextStep
  /\ UNCHANGED <<submitted, awake, paused, version, balancerVars, clientVars>>

ResumeStandalone ==
  /\ pc = "resume"
  /\ paused' = [s \in Servers |-> paused[s] /\ s \in Hybrid]
  /\ IF Validates THEN Goto("reload") ELSE NextStep
  /\ UNCHANGED <<submitted, awake, version, balancerVars, clientVars>>

(* Mutation of ReloadHybrid: the engine wakes with the weights it had.     *)
ReloadStale ==
  /\ pc = "reload"
  /\ awake' = [s \in Servers |-> TRUE]
  /\ Goto("wake")
  /\ UNCHANGED <<submitted, paused, version, balancerVars, clientVars>>

(* on_validate_begin, switch_to_rollout, first call: the naive checkpoint  *)
(* manager wakes the hybrid engine with the new weights.                   *)
ReloadHybrid ==
  /\ pc = "reload"
  /\ awake' = [s \in Servers |-> TRUE]
  /\ version' = [s \in Servers |-> IF s \in Hybrid THEN step ELSE version[s]]
  /\ Goto("wake")
  /\ UNCHANGED <<submitted, paused, balancerVars, clientVars>>

(* switch_to_rollout, second call: resume_generation_replicas              *)
ResumeHybrid ==
  /\ pc = "wake"
  /\ paused' = [s \in Servers |-> paused[s] /\ s \in Standalone]
  /\ Goto("readd")
  /\ UNCHANGED <<submitted, awake, version, balancerVars, clientVars>>

(* switch_to_rollout, third call; then _validate submits its prompts.      *)
AddHybrid ==
  /\ pc = "readd"
  /\ AddServers(Hybrid)
  /\ Submit(ValIds(step))
  /\ Goto("validate")
  /\ UNCHANGED <<turn, submitted, engineVars>>

(* _validate has sampled its prompts.                                      *)
ValidateEnd ==
  /\ pc = "validate"
  /\ \A r \in ValIds(step) : call[r] = "done"
  /\ call' = [r \in Requests |-> IF r \in ValIds(step) THEN "sampled" ELSE call[r]]
  /\ NextStep
  /\ UNCHANGED <<turn, submitted, balancerVars, engineVars>>

-----------------------------------------------------------------------------
ClientNext(r) ==
  \/ \E s \in Servers : ClientAcquire(r, s)
  \/ Arrive(r)
  \/ TurnEnd(r)
  \/ ClientRelease(r)

SwitchToTrainer == RemoveHybrid \/ AbortHybrid \/ SleepHybrid
WeightUpdate    == PauseStandalone \/ UpdateStandalone \/ ResumeStandalone
Validation      == ReloadHybrid \/ ResumeHybrid \/ AddHybrid \/ ValidateEnd

TrainerNext ==
  WarmUp \/ AddBatch \/ Sample \/ Train \/ SwitchToTrainer \/ WeightUpdate \/ Validation

Next == TrainerNext \/ \E r \in Requests : ClientNext(r)

Spec == Init /\ [][Next]_vars

(* The actors run whatever can run: each client coroutine and the trainer. *)
FairSpec ==
  Spec /\ WF_vars(TrainerNext) /\ \A r \in Requests : WF_vars(ClientNext(r))

-----------------------------------------------------------------------------
TypeOK ==
  /\ BalancerTypeOK
  /\ call \in [Requests -> CallStates]
  /\ turn \in [Requests -> 0 .. MaxTurns]
  /\ awake \in [Servers -> BOOLEAN]
  /\ paused \in [Servers -> BOOLEAN]
  /\ version \in [Servers -> 0 .. TotalSteps]
  /\ pc \in TrainerStates
  /\ step \in 1 .. TotalSteps
  /\ iter \in 0 .. SyncSteps - 1
  /\ submitted \in 0 .. Cardinality(TrainIds)

(* No request runs on a server whose memory the trainer has taken, although*)
(* clients that acquired it before the removal still call it.              *)
AsleepIdle ==
  \A r \in Requests : call[r] = "engine" => awake[held[r]]

(* While the trainer validates, every server the balancer gives out has    *)
(* the weights of this step and runs: standalone servers got them through  *)
(* the checkpoint engine, hybrid ones in the switch to rollout.            *)
ValidatesCurrentWeights ==
  pc = "validate" =>
    \A s \in pool : version[s] = step /\ awake[s] /\ ~paused[s]

(* No turn has tokens of two versions: the weights of a server change only *)
(* while no request runs on it.                                            *)
NoTurnSpansUpdate ==
  [][\A s \in Servers :
       version'[s] # version[s] =>
         \A r \in Requests : held[r] = s => call[r] # "engine"]_vars

(* The server the balancer knows is what the clients hold: the balancer's  *)
(* guarantees carry over (SeparateAsync implements LoadBalancer).          *)
ImplementsBalancer == BalancerSpec

Stranded(r) == call[r] = "acquired" /\ held[r] \in Hybrid /\ paused[held[r]]

(* The training ends, unless a client called a hybrid server that was      *)
(* taken out between its acquire and its call: nothing else can hang it.   *)
EndsUnlessStranded ==
  <>[](pc = "end" \/ \E r \in Requests : Stranded(r))
=============================================================================
