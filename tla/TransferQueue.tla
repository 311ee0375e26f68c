---------------------------- MODULE TransferQueue ----------------------------
(***************************************************************************)
(* The key-value store through which rollout workers and the trainer talk. *)
(* TransferQueue is a library outside the repository; it is modelled from  *)
(* the calls the repository makes: kv_batch_put and async_kv_put merge a   *)
(* tag into a key, async_kv_batch_put adds trajectory keys, kv_list        *)
(* returns every key and tag at once, kv_clear removes keys.               *)
(*                                                                         *)
(* Two kinds of keys live in the "train" partition:                        *)
(*   - a prompt key `uid`, a tag-only marker of one GRPO group;            *)
(*   - a trajectory key `uid_session_index`; every agent loop of the       *)
(*     repository returns one output, so the index is left out.            *)
(* The "val" partition holds the same kinds of keys, disjoint from these.  *)
(***************************************************************************)
EXTENDS Integers, FiniteSets

CONSTANTS
  Sessions,       (* the rollout.n sessions of a GRPO group                *)
  BatchSize,      (* data.train_batch_size: prompts per training step      *)
  TotalSteps,     (* trainer.total_training_steps                          *)
  Warmup,         (* num_warmup_batches, submitted before the first step   *)
  BatchMultiple   (* dp_size, or its lcm with the PPO mini-batch sizes     *)

ASSUME SizesAssumption ==
  /\ BatchSize \in Nat \ {0}
  /\ TotalSteps \in Nat \ {0}
  /\ Warmup \in Nat
  /\ BatchMultiple \in Nat \ {0}

ASSUME SessionsAssumption == IsFiniteSet(Sessions) /\ Sessions # {}

(* Prompts get a fresh uuid each, numbered here in the order the           *)
(* dataloader hands them out; 0 stands for the uuid of padding samples.    *)
Prompts == 1 .. (Warmup + TotalSteps) * BatchSize
PadUid  == 0
ASSUME PadUidAssumption == \A j \in 1 .. BatchMultiple : j \notin Sessions

RealKeys == Prompts \X Sessions
PadKeys  == {PadUid} \X (1 .. BatchMultiple)

Reported    == {"finished", "failure"}
PromptTags  == {"absent", "pending", "running"} \cup Reported

VARIABLES
  kvPrompt,    (* status tag of each prompt key, "absent" if not stored    *)
  promptStep,  (* global_steps tag: the step that submitted the prompt     *)
  kvTraj       (* trajectory keys stored                                   *)

kvVars == <<kvPrompt, promptStep, kvTraj>>

KvInit ==
  /\ kvPrompt   = [u \in Prompts |-> "absent"]
  /\ promptStep = [u \in Prompts |-> 0]
  /\ kvTraj     = {}

(* kv_batch_put of prompt keys with their first tag.                       *)
KvRegister(us, step) ==
  /\ kvPrompt'   = [u \in Prompts |-> IF u \in us THEN "pending" ELSE kvPrompt[u]]
  /\ promptStep' = [u \in Prompts |-> IF u \in us THEN step ELSE promptStep[u]]
  /\ UNCHANGED kvTraj

(* async_kv_put of a status on one prompt key; the other tag fields stay.  *)
KvTag(u, status) ==
  /\ kvPrompt' = [kvPrompt EXCEPT ![u] = status]
  /\ UNCHANGED <<promptStep, kvTraj>>

KvPutTraj(keys) ==
  /\ kvTraj' = kvTraj \cup keys
  /\ UNCHANGED <<kvPrompt, promptStep>>

KvClearTraj(keys) ==
  /\ kvTraj' = kvTraj \ keys
  /\ UNCHANGED <<kvPrompt, promptStep>>

(* Mutations of KvClear: the sampler forgets to clear the stale            *)
(* trajectories it drops, or the prompt keys it selects.                   *)
KvClearPromptsOnly(us, keys) ==
  /\ kvPrompt' = [u \in Prompts |-> IF u \in us THEN "absent" ELSE kvPrompt[u]]
  /\ UNCHANGED <<promptStep, kvTraj>>
KvClearTrajsOnly(us, keys) == KvClearTraj(keys)

(* kv_clear of prompt keys and of trajectory keys by one sample call.      *)
KvClear(us, keys) ==
  /\ kvPrompt' = [u \in Prompts |-> IF u \in us THEN "absent" ELSE kvPrompt[u]]
  /\ kvTraj'   = kvTraj \ keys
  /\ UNCHANGED promptStep

KvTypeOK ==
  /\ kvPrompt \in [Prompts -> PromptTags]
  /\ promptStep \in [Prompts -> 0 .. TotalSteps]
  /\ kvTraj \subseteq (RealKeys \cup PadKeys)
==============================================================================
