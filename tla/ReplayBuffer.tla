----------------------------- MODULE ReplayBuffer -----------------------------
(***************************************************************************)
(* The trainer's sampler over a metadata snapshot of TransferQueue         *)
(* (trainer/ppo/v1/replay_buffer.py).  A snapshot is what                  *)
(* _sync_metadata_from_transfer_queue rebuilds at every poll: the status   *)
(* of each prompt key and the trajectory keys.  Everything `sample` does   *)
(* after its last poll works on the snapshot, while rollout workers keep   *)
(* writing to the store.                                                   *)
(***************************************************************************)
EXTENDS TransferQueue

CONSTANTS
  Threshold,   (* max_off_policy_threshold                                 *)
  Strategy     (* max_off_policy_strategy                                  *)

(* The two assertions of ReplayBuffer.__init__.                            *)
ASSUME ThresholdAssumption == Threshold \in Nat \ {0}
ASSUME StrategyAssumption  == Strategy \in {"drop", "wait"}

VARIABLE snap   (* partitions, *_keys: the last snapshot a sample uses     *)

Snapshots == [status : [Prompts -> PromptTags], trajs : SUBSET (RealKeys \cup PadKeys)]

EmptySnap == [status |-> [u \in Prompts |-> "absent"], trajs |-> {}]

(* kv_list: one consistent read of every key and tag.                      *)
SyncMetadata == [status |-> kvPrompt, trajs |-> kvTraj]

(* Model versions between the submission of prompt u and step g.           *)
Staleness(u, g) == g - promptStep[u] + 1

Sampleable(s) == {u \in Prompts : s.status[u] \in Reported}

(* Mutation of NoneAtThreshold: waits only beyond the threshold.           *)
NoneBeyondThreshold(s, g) ==
  \A u \in Prompts :
    s.status[u] \in {"pending", "running"} => Staleness(u, g) <= Threshold

NoneAtThreshold(s, g) ==
  \A u \in Prompts :
    s.status[u] \in {"pending", "running"} => Staleness(u, g) < Threshold

HasEnoughSamples(s, g) ==
  /\ Strategy = "wait" => NoneAtThreshold(s, g)
  /\ Cardinality(Sampleable(s)) >= BatchSize

(* Mutation of Selections: prompts are not ordered by submission step.     *)
UnorderedSelections(s) == {S \in SUBSET Sampleable(s) : Cardinality(S) = BatchSize}

(* The first batch_size prompts by submission step; prompts of one step    *)
(* come in the arbitrary order of a Python set.                            *)
Selections(s) ==
  {S \in SUBSET Sampleable(s) :
     /\ Cardinality(S) = BatchSize
     /\ \A u \in S, v \in Sampleable(s) \ S : promptStep[u] <= promptStep[v]}

Collect(s, S) == {t \in s.trajs : t[1] \in S}

(* Mutation of TooStale: counts from the submission step itself, one short. *)
TooStaleOffByOne(keys, g) == {t \in keys : g - promptStep[t[1]] > Threshold}

(* _drop_max_off_policy_samples, by the global_steps tag each trajectory   *)
(* inherits from its prompt.                                               *)
TooStale(keys, g) ==
  IF Strategy = "drop"
  THEN {t \in keys : Staleness(t[1], g) > Threshold}
  ELSE {}
===============================================================================
