----------------------------- MODULE MessageQueue -----------------------------
(***************************************************************************)
(* The bounded queue between the rollouter and the trainer of the fully    *)
(* asynchronous mode (experimental/fully_async_policy/message_queue.py).   *)
(* Every operation runs under the lock of the queue's actor and is one     *)
(* step.  Samples are numbered in the order the rollouter feeds them; the  *)
(* end signal is a sample like any other to the queue.                     *)
(***************************************************************************)
EXTENDS Integers, Sequences, FiniteSets

CONSTANTS
  TotalSamples,   (* total_rollout_steps                                   *)
  MaxQueueSize    (* max_queue_size                                        *)

ASSUME QueueAssumption == TotalSamples \in Nat \ {0} /\ MaxQueueSize \in Nat \ {0}

Samples   == 1 .. TotalSamples
EndSignal == TotalSamples + 1

VARIABLES
  queue,     (* the deque                                                  *)
  dropped    (* what put_sample pushed out; dropped_samples counts it      *)

queueVars == <<queue, dropped>>

QueueInit == queue = << >> /\ dropped = {}

(* put_sample: a full queue loses its oldest sample.                       *)
Put(x) ==
  /\ queue' = Append(IF Len(queue) >= MaxQueueSize THEN Tail(queue) ELSE queue, x)
  /\ dropped' = IF Len(queue) >= MaxQueueSize THEN dropped \cup {Head(queue)} ELSE dropped

(* get_sample, which waits while the queue is empty: nobody shuts it down. *)
Get(x) ==
  /\ queue # << >>
  /\ x = Head(queue)
  /\ queue' = Tail(queue)
  /\ UNCHANGED dropped

Queued == {queue[k] : k \in DOMAIN queue} \ {EndSignal}

QueueTypeOK ==
  /\ queue \in Seq(Samples \cup {EndSignal})
  /\ Len(queue) <= MaxQueueSize
  /\ dropped \subseteq Samples \cup {EndSignal}
===============================================================================
