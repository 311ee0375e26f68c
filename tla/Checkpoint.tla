----------------------------- MODULE Checkpoint -----------------------------
(***************************************************************************)
(* Saving, crashing and resuming: _save_checkpoint and _load_checkpoint of *)
(* the V1 trainer (trainer_base.py), the retention of the checkpoint       *)
(* manager (checkpoint_manager.py) and the shards its FSDP subclass        *)
(* (fsdp_checkpoint_manager.py) writes.                                    *)
(*                                                                         *)
(* The disk survives a crash, everything else is lost; torch.save and the  *)
(* write of the tracker file may be cut in the middle.  Weights stand for  *)
(* the sequence of batches they have been trained on, batches for their    *)
(* number in the order of the dataloader, whose state is how many it has   *)
(* handed out.                                                             *)
(***************************************************************************)
EXTENDS Integers, Sequences, FiniteSets

CONSTANTS
  Roles,       \* worker groups that save, in order: the actor, then the critic
  Ranks,       \* ranks of a worker group: each writes its own shard
  TotalSteps,  \* total_training_steps
  SaveFreq,    \* save_freq
  MaxToKeep,   \* max_actor_ckpt_to_keep, max_critic_ckpt_to_keep; 0 for None
  Warmup,      \* num_warmup_batches: batches submitted ahead
  MaxCrashes,  \* bound on the crashes of a behaviour
  NoFile, Torn \* a file that does not exist, or was cut while written

ASSUME CheckpointAssumption ==
  /\ Roles \in Seq(STRING) /\ Roles # <<>>
  /\ \A i, j \in DOMAIN Roles : Roles[i] = Roles[j] => i = j
  /\ IsFiniteSet(Ranks) /\ Ranks # {}
  /\ TotalSteps \in Nat \ {0} /\ SaveFreq \in Nat \ {0}
  /\ MaxToKeep \in Nat /\ Warmup \in Nat /\ MaxCrashes \in Nat
  /\ NoFile # Torn
  /\ {NoFile, Torn} \cap Nat = {}
  /\ NoFile \notin Seq(Nat) /\ Torn \notin Seq(Nat)

Steps == 1 .. TotalSteps
RoleSet == {Roles[i] : i \in DOMAIN Roles}
Parts == RoleSet \X Ranks

VARIABLES
  \* on disk
  shard,     \* shard[s][p]: the model file of part p under global_step_s
  data,      \* data[s]: data.pt, the number of batches handed out
  tracker,   \* latest_checkpointed_iteration.txt
  \* in the processes of the job
  pc,        \* where the trainer is
  g,         \* global_steps
  role,      \* index of the role that is saving
  written,   \* ranks of that role that have finished their shard
  weights,   \* the weights of each part
  fed,       \* batches the dataloader has handed out
  ahead,     \* batches submitted and not yet trained
  saved,     \* previous_saved_paths of each role
  \* history
  crashes,   \* how often the job has crashed
  reached    \* the greatest step trained before a crash

diskVars == <<shard, data, tracker>>
jobVars == <<g, role, written, weights, fed, ahead, saved>>
vars == <<diskVars, pc, jobVars, crashes, reached>>

Empty == [p \in Parts |-> NoFile]
HasFolder(s) == data[s] # NoFile \/ \E p \in Parts : shard[s][p] # NoFile

Init ==
  /\ shard = [s \in Steps |-> Empty]
  /\ data = [s \in Steps |-> NoFile]
  /\ tracker = NoFile
  /\ pc = "start" /\ g = 0 /\ role = 1 /\ written = {} /\ fed = 0 /\ ahead = {}
  /\ weights = [p \in Parts |-> <<>>]
  /\ saved = [r \in RoleSet |-> <<>>]
  /\ crashes = 0 /\ reached = 0

-----------------------------------------------------------------------------
\* find_latest_ckpt_path: the folder the tracker names, if there is one.
Scratch == tracker = NoFile \/ (tracker \in Steps /\ ~HasFolder(tracker))

StartFromScratch ==
  /\ pc = "start" /\ Scratch
  /\ g' = 0 /\ fed' = 0
  /\ weights' = [p \in Parts |-> <<>>]
  /\ pc' = "resumed"
  /\ UNCHANGED <<diskVars, role, written, ahead, saved, crashes, reached>>

\* torch.load raises on a file that is missing or torn.
Loadable ==
  /\ tracker \in Steps
  /\ \A p \in Parts : shard[tracker][p] \notin {NoFile, Torn}
  /\ data[tracker] # Torn

\* _load_checkpoint; without data.pt the dataloader starts from scratch.
Load ==
  /\ pc = "start" /\ ~Scratch /\ Loadable
  /\ g' = tracker
  /\ weights' = shard[tracker]
  /\ fed' = IF data[tracker] = NoFile THEN 0 ELSE data[tracker]
  /\ pc' = "resumed"
  /\ UNCHANGED <<diskVars, role, written, ahead, saved, crashes, reached>>

\* int("") of a torn tracker, or torch.load, raises: the job does not start.
LoadFails ==
  /\ pc = "start" /\ ~Scratch /\ ~Loadable
  /\ pc' = "failed"
  /\ UNCHANGED <<diskVars, jobVars, crashes, reached>>

\* fit and on_train_begin: the next step, and the batches submitted ahead.
Fit ==
  /\ pc = "resumed"
  /\ IF g < TotalSteps
     THEN pc' = "step" /\ g' = g + 1 /\ fed' = fed + Warmup /\ ahead' = fed + 1 .. fed + Warmup
     ELSE pc' = "done" /\ UNCHANGED <<g, fed, ahead>>
  /\ UNCHANGED <<diskVars, role, written, weights, saved, crashes, reached>>

Saves(s) == s = TotalSteps \/ s % SaveFreq = 0

\* step: submit a batch, train on one of those in flight.
TrainStep ==
  /\ pc = "step"
  /\ fed' = fed + 1
  /\ \E b \in ahead \cup {fed'} :
       /\ weights' = [p \in Parts |-> Append(weights[p], b)]
       /\ ahead' = (ahead \cup {fed'}) \ {b}
  /\ pc' = IF Saves(g) THEN "capacity" ELSE "next"
  /\ role' = 1
  /\ reached' = IF g > reached THEN g ELSE reached
  /\ UNCHANGED <<diskVars, g, written, saved, crashes>>

NextStep ==
  /\ pc = "next"
  /\ IF g = TotalSteps THEN pc' = "done" /\ UNCHANGED g ELSE pc' = "step" /\ g' = g + 1
  /\ UNCHANGED <<diskVars, role, written, weights, fed, ahead, saved, crashes, reached>>

-----------------------------------------------------------------------------
\* remove_previous_save_local_path: the role's files of the given steps.
RemovePaths(r, S) ==
  shard' = [s \in Steps |->
              [p \in Parts |-> IF s \in S /\ p[1] = r THEN NoFile ELSE shard[s][p]]]

Elements(q) == {q[i] : i \in DOMAIN q}
\* The oldest paths of q, all but the last n, and the others.
Excess(q, n) == {q[i] : i \in {j \in DOMAIN q : j <= Len(q) - n}}
Kept(q, n) == IF Len(q) <= n THEN q ELSE SubSeq(q, Len(q) - n + 1, Len(q))

\* Mutation of EnsureCapacity: room is made after the save alone.
EnsureCapacityLate ==
  /\ pc = "capacity"
  /\ pc' = "write" /\ written' = {}
  /\ UNCHANGED <<diskVars, g, role, weights, fed, ahead, saved, crashes, reached>>

\* ensure_checkpoint_capacity, by rank 0 before the barrier.
EnsureCapacity ==
  LET r == Roles[role] IN
  /\ pc = "capacity"
  /\ IF MaxToKeep > 1 /\ Len(saved[r]) >= MaxToKeep
     THEN /\ RemovePaths(r, Excess(saved[r], MaxToKeep - 1))
          /\ saved' = [saved EXCEPT ![r] = Kept(saved[r], MaxToKeep - 1)]
     ELSE UNCHANGED <<shard, saved>>
  /\ pc' = "write" /\ written' = {}
  /\ UNCHANGED <<data, tracker, g, role, weights, fed, ahead, crashes, reached>>

\* Mutation of OpenShard: an existing file is not overwritten.
OpenShardIfAbsent(k) ==
  LET p == <<Roles[role], k>> IN
  /\ pc = "write" /\ k \notin written /\ shard[g][p] = NoFile
  /\ shard' = [shard EXCEPT ![g][p] = Torn]
  /\ UNCHANGED <<data, tracker, pc, jobVars, crashes, reached>>

\* The ranks of the role open and then finish their files in any order.
OpenShard(k) ==
  LET p == <<Roles[role], k>> IN
  /\ pc = "write" /\ k \notin written /\ shard[g][p] # Torn
  /\ shard' = [shard EXCEPT ![g][p] = Torn]
  /\ UNCHANGED <<data, tracker, pc, jobVars, crashes, reached>>

WriteShard(k) ==
  LET p == <<Roles[role], k>> IN
  /\ pc = "write" /\ k \notin written /\ shard[g][p] = Torn
  /\ shard' = [shard EXCEPT ![g][p] = weights[p]]
  /\ written' = written \cup {k}
  /\ UNCHANGED <<data, tracker, pc, g, role, weights, fed, ahead, saved, crashes, reached>>

\* Mutation of Written: rank 0 does not wait for the others.
WrittenByOne == written # {}

\* The barrier: every rank has dumped its shard.
Written == written = Ranks

\* register_checkpoint, by rank 0 after the barrier; then the next role.
Register ==
  LET r == Roles[role]
      paths == Append(saved[r], g)
  IN
  /\ pc = "write" /\ Written
  /\ IF MaxToKeep > 0
     THEN /\ RemovePaths(r, Excess(paths, MaxToKeep))
          /\ saved' = [saved EXCEPT ![r] = Kept(paths, MaxToKeep)]
     ELSE saved' = [saved EXCEPT ![r] = paths] /\ UNCHANGED shard
  /\ IF role < Len(Roles) THEN pc' = "capacity" /\ role' = role + 1
                          ELSE pc' = "data" /\ UNCHANGED role
  /\ UNCHANGED <<data, tracker, g, written, weights, fed, ahead, crashes, reached>>

OpenData ==
  /\ pc = "data"
  /\ data' = [data EXCEPT ![g] = Torn]
  /\ pc' = "dataopen"
  /\ UNCHANGED <<shard, tracker, jobVars, crashes, reached>>

\* Mutation of WriteData: the batches trained, not those handed out.
WriteDataTrained ==
  /\ pc = "dataopen"
  /\ data' = [data EXCEPT ![g] = g - 1]
  /\ pc' = "tracker"
  /\ UNCHANGED <<shard, tracker, jobVars, crashes, reached>>

WriteData ==
  /\ pc = "dataopen"
  /\ data' = [data EXCEPT ![g] = fed]
  /\ pc' = "tracker"
  /\ UNCHANGED <<shard, tracker, jobVars, crashes, reached>>

\* open(..., "w") truncates the tracker; its text is on disk when it is closed.
OpenTracker ==
  /\ pc = "tracker"
  /\ tracker' = Torn
  /\ pc' = "trackeropen"
  /\ UNCHANGED <<shard, data, jobVars, crashes, reached>>

WriteTracker ==
  /\ pc = "trackeropen"
  /\ tracker' = g
  /\ pc' = "next"
  /\ UNCHANGED <<shard, data, jobVars, crashes, reached>>

-----------------------------------------------------------------------------
\* A crash of any process ends the job; the next one finds the disk.
Crash ==
  /\ pc \notin {"start", "failed", "done"} /\ crashes < MaxCrashes
  /\ crashes' = crashes + 1
  /\ pc' = "start" /\ g' = 0 /\ role' = 1 /\ written' = {} /\ fed' = 0 /\ ahead' = {}
  /\ weights' = [p \in Parts |-> <<>>]
  /\ saved' = [r \in RoleSet |-> <<>>]
  /\ UNCHANGED <<diskVars, reached>>

Save ==
  \/ EnsureCapacity \/ Register
  \/ \E k \in Ranks : OpenShard(k) \/ WriteShard(k)
  \/ OpenData \/ WriteData \/ OpenTracker \/ WriteTracker

JobNext == StartFromScratch \/ Load \/ LoadFails \/ Fit \/ TrainStep \/ NextStep \/ Save
Next == JobNext \/ Crash

Spec == Init /\ [][Next]_vars
FairSpec == Spec /\ WF_vars(JobNext)

-----------------------------------------------------------------------------
Pcs == {"start", "resumed", "failed", "step", "capacity", "write",
        "data", "dataopen", "tracker", "trackeropen", "next", "done"}

TypeOK ==
  /\ shard \in [Steps -> [Parts -> Seq(Nat) \cup {NoFile, Torn}]]
  /\ data \in [Steps -> Nat \cup {NoFile, Torn}]
  /\ tracker \in Steps \cup {NoFile, Torn}
  /\ pc \in Pcs
  /\ g \in 0 .. TotalSteps /\ role \in DOMAIN Roles /\ written \subseteq Ranks
  /\ weights \in [Parts -> Seq(Nat)]
  /\ fed \in Nat /\ ahead \subseteq 1 .. fed
  /\ saved \in [RoleSet -> Seq(Steps)]
  /\ crashes \in 0 .. MaxCrashes /\ reached \in 0 .. TotalSteps

\* The folder that a readable tracker names is a whole checkpoint of that step,
\* the same lineage in every shard, unless only one checkpoint is kept: what
\* the retention deletes before and after a save is never what a restart loads.
TrackedIntact ==
  MaxToKeep # 1 /\ tracker \in Steps =>
    /\ data[tracker] \in Nat
    /\ \A p \in Parts : /\ shard[tracker][p] \in Seq(Nat)
                        /\ Len(shard[tracker][p]) = tracker
                        /\ \A q \in Parts : shard[tracker][p] = shard[tracker][q]

\* No batch is trained twice in the life of the weights, over all restarts.
EachBatchOnce ==
  \A p \in Parts : \A i, j \in DOMAIN weights[p] :
    weights[p][i] = weights[p][j] => i = j

\* A restart loses the batches that were in flight when the checkpoint was
\* saved, num_warmup_batches of them, and no other batch of the dataset.
SkipsOnlyInFlight ==
  \A p \in Parts :
    pc \in {"next", "done"} =>
      Cardinality((1 .. fed) \ (Elements(weights[p]) \cup ahead)) <= Warmup * crashes

\* A job that resumes repeats at most save_freq steps.
BoundedLoss == pc = "resumed" => reached - g <= SaveFreq

\* Over all restarts the training goes on from where it was saved: nothing
\* twice, nothing skipped but what was in flight, little repeated.
ResumesExactly == EachBatchOnce /\ SkipsOnlyInFlight /\ BoundedLoss

\* ensure_checkpoint_capacity makes room before a save only if more than one
\* checkpoint is kept.
AtOnce == IF MaxToKeep = 1 THEN 2 ELSE MaxToKeep

\* The checkpoints of a role on disk, one being written included, are at most
\* max_ckpt_to_keep, or two if it is one, for each life of the job:
\* previous_saved_paths is not persisted, so a restarted job never removes what
\* an earlier one saved.
RetentionBounded ==
  MaxToKeep > 0 =>
    \A r \in RoleSet :
      Cardinality({s \in Steps : \E k \in Ranks : shard[s][<<r, k>>] # NoFile})
        <= AtOnce * (crashes + 1)

\* Under fairness of the job, and with finitely many crashes, the training is
\* completed or refuses to start.
JobEnds == <>(pc \in {"done", "failed"})
=============================================================================
