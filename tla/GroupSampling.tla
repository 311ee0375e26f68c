---------------------------- MODULE GroupSampling ----------------------------
(***************************************************************************)
(* What the rollout workers, TransferQueue and the replay buffer promise   *)
(* the trainer together: prompts are submitted a batch at a time and at    *)
(* most Ahead prompts ahead of training, every submitted prompt is         *)
(* reported at most once, and every training step consumes one batch of    *)
(* reported prompts, each for the first and only time.                     *)
(***************************************************************************)
EXTENDS Integers, FiniteSets

CONSTANTS
  Prompts,     (* the prompts of the run                                   *)
  BatchSize,   (* prompts per training step                                *)
  Ahead        (* prompts that may wait beyond the batch of the step       *)

VARIABLES
  inflight,   (* submitted, not reported                                   *)
  ready,      (* reported, not consumed                                    *)
  used,       (* consumed by a training step                               *)
  step        (* training steps that have taken their batch                *)

svars == <<inflight, ready, used, step>>

Init == inflight = {} /\ ready = {} /\ used = {} /\ step = 0

Submit(S) ==
  /\ S \subseteq Prompts \ (inflight \cup ready \cup used)
  /\ Cardinality(S) = BatchSize
  /\ Cardinality(inflight \cup ready \cup S) <= Ahead + BatchSize
  /\ inflight' = inflight \cup S
  /\ UNCHANGED <<ready, used, step>>

Report(u) ==
  /\ u \in inflight
  /\ inflight' = inflight \ {u}
  /\ ready' = ready \cup {u}
  /\ UNCHANGED <<used, step>>

Consume(S) ==
  /\ S \subseteq ready
  /\ Cardinality(S) = BatchSize
  /\ ready' = ready \ S
  /\ used' = used \cup S
  /\ step' = step + 1
  /\ UNCHANGED inflight

Next ==
  \/ \E S \in SUBSET Prompts : Submit(S) \/ Consume(S)
  \/ \E u \in Prompts : Report(u)

Spec == Init /\ [][Next]_svars

(* Exactly-once consumption: the prompts consumed are BatchSize per step.  *)
ExactlyOnce == Cardinality(used) = step * BatchSize
==============================================================================
