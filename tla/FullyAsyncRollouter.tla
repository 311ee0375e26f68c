------------------------- MODULE FullyAsyncRollouter -------------------------
(***************************************************************************)
(* The rollouter of the fully asynchronous mode                            *)
(* (experimental/fully_async_policy/fully_async_rollouter.py): coroutines  *)
(* of one actor that feed samples, process them, monitor, and serve the    *)
(* trainer's reset_staleness.  A step runs from one await to the next.     *)
(*                                                                         *)
(* The actor's asyncio.Lock is the sequence of the coroutines that hold    *)
(* and wait for it: its head holds it, it is granted in order, and who     *)
(* releases and acquires without an await in between goes to the end.      *)
(***************************************************************************)
EXTENDS MessageQueue

CONSTANTS
  MaxRequired,     (* max_required_samples                                 *)
  MaxConcurrent,   (* max_concurrent_samples                               *)
  PendingSize,     (* maxsize of pending_queue                             *)
  MaxTaskFailures  (* bound on the tasks that raise in one behaviour       *)

ASSUME RollouterAssumption ==
  /\ MaxRequired \in Nat \ {0} /\ MaxConcurrent \in 1 .. MaxRequired
  /\ PendingSize \in Nat \ {0} /\ MaxTaskFailures \in Nat

VARIABLES
  fed,        (* items put into pending_queue, the end signal the last     *)
  got,        (* items taken from it                                       *)
  proc,       (* where _processor_worker is                                *)
  procFull,   (* what its last get_statistics said of the queue            *)
  paused,     (* paused; _resume_event is set exactly when it is FALSE     *)
  running,    (* active_tasks that still generate                          *)
  finished,   (* active_tasks that are done, not yet removed               *)
  failed,     (* tasks that raised                                         *)
  staleness,  (* staleness_samples                                         *)
  lock,       (* holder and waiters of self.lock                           *)
  mon,        (* where _async_monitor_loop is                              *)
  monFull     (* what its last get_statistics said of the queue            *)

procVars == <<fed, got, proc, procFull>>
taskVars == <<running, finished, failed>>
monVars  == <<mon, monFull>>
rolloutVars == <<procVars, taskVars, monVars, paused, staleness, lock>>

ProcStates == {"check", "decide", "pause", "drain", "wake", "get", "reap", "submit",
               "finish", "end", "ended"}
MonStates  == {"sleep", "asked", "resume"}
Coroutines == {"proc", "reset", "monitor"}

RolloutInit ==
  /\ fed = 0 /\ got = 0 /\ proc = "check" /\ procFull = FALSE
  /\ running = {} /\ finished = {} /\ failed = {}
  /\ mon = "sleep" /\ monFull = FALSE
  /\ paused = FALSE /\ staleness = 0 /\ lock = << >>

Active    == running \cup finished
Holds(c)  == lock # << >> /\ Head(lock) = c
Acquire(c) == lock' = Append(lock, c)
Release   == lock' = Tail(lock)
Again(c)  == lock' = Append(Tail(lock), c)

QueueFull == Len(queue) >= MaxQueueSize

(* _feed_samples: total_rollout_steps samples, then the end signal; it is  *)
(* cancelled when the stream ends.                                         *)
Feed ==
  /\ fed <= TotalSamples /\ fed - got < PendingSize
  /\ proc \notin {"end", "ended"}
  /\ fed' = fed + 1
  /\ UNCHANGED <<got, proc, procFull, taskVars, monVars, paused, staleness, lock, queueVars>>

(* The top of _processor_worker: asks the queue for its statistics, then   *)
(* decides on them and on staleness_samples.                               *)
ProcCheck ==
  /\ proc = "check"
  /\ IF paused THEN proc' = "pause" /\ Acquire("proc") /\ UNCHANGED procFull
               ELSE proc' = "decide" /\ procFull' = QueueFull /\ UNCHANGED lock
  /\ UNCHANGED <<fed, got, taskVars, monVars, paused, staleness, queueVars>>

(* Mutation of ProcDecide: one sample beyond the limit.                    *)
DecideBeyondLimit ==
  /\ proc = "decide"
  /\ IF procFull \/ staleness > MaxRequired
     THEN proc' = "pause" /\ Acquire("proc")
     ELSE proc' = "get" /\ UNCHANGED lock
  /\ UNCHANGED <<fed, got, procFull, taskVars, monVars, paused, staleness, queueVars>>

ProcDecide ==
  /\ proc = "decide"
  /\ IF procFull \/ staleness >= MaxRequired
     THEN proc' = "pause" /\ Acquire("proc")
     ELSE proc' = "get" /\ UNCHANGED lock
  /\ UNCHANGED <<fed, got, procFull, taskVars, monVars, paused, staleness, queueVars>>

ProcPause ==
  /\ proc = "pause" /\ Holds("proc")
  /\ paused' = TRUE
  /\ proc' = "drain" /\ Release
  /\ UNCHANGED <<fed, got, procFull, taskVars, monVars, staleness, queueVars>>

(* The drain: wakes at a finished task, or at the resume event.            *)
ProcWake ==
  /\ proc = "drain" /\ finished # {}
  /\ proc' = "wake" /\ Acquire("proc")
  /\ UNCHANGED <<fed, got, procFull, taskVars, monVars, paused, staleness, queueVars>>

(* Removes some of the tasks that have put their sample or raised: those   *)
(* the event loop has seen end.  Each is awaited: one that raised ends the *)
(* processor and, by the finally clause of _streaming_generation_main, the *)
(* stream.                                                                 *)
RemoveDone(D, next) ==
  /\ D # {}
  /\ finished' = finished \ D
  /\ proc' = IF D \cap failed # {} THEN "end" ELSE next
  /\ UNCHANGED <<fed, got, procFull, running, failed, monVars, paused, staleness, queueVars>>

ProcDrain ==
  /\ proc = "wake" /\ Holds("proc")
  /\ \E D \in SUBSET finished : RemoveDone(D, "drain")
  /\ Release

ProcResumed ==
  /\ proc = "drain" /\ ~paused
  /\ proc' = "check"
  /\ UNCHANGED <<fed, got, procFull, taskVars, monVars, paused, staleness, lock, queueVars>>

(* Mutation of ProcGet: the end signal does not wait for active tasks.     *)
GetEndAtOnce ==
  /\ proc = "get" /\ got < fed
  /\ got' = got + 1
  /\ staleness' = staleness + 1
  /\ IF got' = EndSignal
     THEN proc' = "end" /\ UNCHANGED lock
     ELSE /\ Acquire("proc")
          /\ proc' = IF Cardinality(Active) >= MaxConcurrent THEN "reap" ELSE "submit"
  /\ UNCHANGED <<fed, procFull, taskVars, monVars, paused, queueVars>>

(* Mutation of ProcGet: no limit of concurrency.                           *)
GetUnlimited ==
  /\ proc = "get" /\ got < fed
  /\ got' = got + 1
  /\ staleness' = staleness + 1
  /\ IF got' = EndSignal /\ Active = {}
     THEN proc' = "end" /\ UNCHANGED lock
     ELSE Acquire("proc") /\ proc' = IF got' = EndSignal THEN "finish" ELSE "submit"
  /\ UNCHANGED <<fed, procFull, taskVars, monVars, paused, queueVars>>

(* Takes an item and counts it, without the lock; then needs the lock: to  *)
(* wait for all tasks after the end signal, for one at the limit of        *)
(* concurrency, or to start the sample's task.                             *)
ProcGet ==
  /\ proc = "get" /\ got < fed
  /\ got' = got + 1
  /\ staleness' = staleness + 1
  /\ IF got' = EndSignal /\ Active = {}
     THEN proc' = "end" /\ UNCHANGED lock
     ELSE /\ Acquire("proc")
          /\ proc' = CASE got' = EndSignal -> "finish"
                       [] got' # EndSignal /\ Cardinality(Active) >= MaxConcurrent -> "reap"
                       [] OTHER -> "submit"
  /\ UNCHANGED <<fed, procFull, taskVars, monVars, paused, queueVars>>

(* Holding the lock, waits for a task to end and removes those that have;  *)
(* takes the lock again for the next.  paused stays FALSE meanwhile, so    *)
(* the wait for the resume event before submitting does not occur.         *)
ProcReap ==
  /\ proc = "reap" /\ Holds("proc")
  /\ \E D \in SUBSET finished :
       RemoveDone(D, IF Cardinality(Active \ D) >= MaxConcurrent THEN "reap" ELSE "submit")
  /\ IF proc' = "end" THEN Release ELSE Again("proc")

ProcFinish ==
  /\ proc = "finish" /\ Holds("proc")
  /\ \E D \in SUBSET finished : RemoveDone(D, IF Active \ D = {} THEN "end" ELSE "finish")
  /\ IF proc' = "end" THEN Release ELSE Again("proc")

ProcSubmit ==
  /\ proc = "submit" /\ Holds("proc")
  /\ running' = running \cup {got}
  /\ proc' = "check" /\ Release
  /\ UNCHANGED <<fed, got, procFull, finished, failed, monVars, paused, staleness, queueVars>>

(* The finally clause: the end signal goes into the message queue.         *)
ProcEnd ==
  /\ proc = "end"
  /\ Put(EndSignal)
  /\ proc' = "ended"
  /\ UNCHANGED <<fed, got, procFull, taskVars, monVars, paused, staleness, lock>>

(* _process_single_sample_streaming: generates, then puts its sample.      *)
TaskPut(x) ==
  /\ x \in running
  /\ Put(x)
  /\ running' = running \ {x}
  /\ finished' = finished \cup {x}
  /\ UNCHANGED <<failed, procVars, monVars, paused, staleness, lock>>

TaskFail(x) ==
  /\ x \in running
  /\ Cardinality(failed) < MaxTaskFailures
  /\ running' = running \ {x}
  /\ finished' = finished \cup {x}
  /\ failed' = failed \cup {x}
  /\ UNCHANGED <<procVars, monVars, paused, staleness, lock, queueVars>>

(* _async_monitor_loop: resumes a rollouter that has no reason to pause.   *)
MonAsk ==
  /\ mon = "sleep" /\ paused /\ proc # "ended"
  /\ mon' = "asked" /\ monFull' = QueueFull
  /\ UNCHANGED <<procVars, taskVars, paused, staleness, lock, queueVars>>

MonDecide ==
  /\ mon = "asked"
  /\ IF monFull \/ staleness >= MaxRequired
     THEN mon' = "sleep" /\ UNCHANGED lock
     ELSE mon' = "resume" /\ Acquire("monitor")
  /\ UNCHANGED <<monFull, procVars, taskVars, paused, staleness, queueVars>>

(* Mutation of MonResume: the resume event is not set.                     *)
MonResumeForgotten ==
  /\ mon = "resume" /\ Holds("monitor")
  /\ mon' = "sleep" /\ Release
  /\ UNCHANGED <<monFull, procVars, taskVars, paused, staleness, queueVars>>

MonResume ==
  /\ mon = "resume" /\ Holds("monitor")
  /\ paused' = FALSE
  /\ mon' = "sleep" /\ Release
  /\ UNCHANGED <<monFull, procVars, taskVars, staleness, queueVars>>

ProcNext ==
  \/ ProcCheck \/ ProcDecide \/ ProcPause \/ ProcWake \/ ProcDrain \/ ProcResumed
  \/ ProcGet \/ ProcReap \/ ProcFinish \/ ProcSubmit \/ ProcEnd

MonNext == MonAsk \/ MonDecide \/ MonResume

RolloutNext ==
  \/ Feed \/ ProcNext \/ MonNext
  \/ \E x \in Samples : TaskPut(x) \/ TaskFail(x)

RolloutTypeOK ==
  /\ fed \in 0 .. EndSignal /\ got \in 0 .. EndSignal
  /\ proc \in ProcStates /\ procFull \in BOOLEAN /\ paused \in BOOLEAN
  /\ running \subseteq Samples /\ finished \subseteq Samples /\ failed \subseteq Samples
  /\ staleness \in Nat
  /\ lock \in Seq(Coroutines)
  /\ mon \in MonStates /\ monFull \in BOOLEAN
===============================================================================
