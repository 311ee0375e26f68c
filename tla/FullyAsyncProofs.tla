--------------------------- MODULE FullyAsyncProofs ---------------------------
(***************************************************************************)
(* Proofs about the fully asynchronous mode, for every number of samples,  *)
(* staleness threshold, concurrency and frequency of weight updates.       *)
(***************************************************************************)
EXTENDS FullyAsyncTrainer, FiniteSetTheorems, SequenceTheorems, TLAPS

(* While reset_staleness counts, it holds the lock: no task is started.    *)
LockInv == tpc \in {"size", "set"} => Holds("reset")

(* What the processor is about to start is a sample, not the end signal.   *)
GotInv == proc \in {"reap", "submit"} => got \in Samples

(* What reset_staleness has counted bounds what is outstanding: a sample   *)
(* that moves from a task to the queue meanwhile is counted twice, never   *)
(* less than once.                                                         *)
CountInv ==
  /\ tpc = "size" => Cardinality(running) <= nActive
  /\ tpc = "set"  => Outstanding <= nActive + nQueued

(* The processor has taken a sample that it has not yet started.           *)
Holding == proc \in {"reap", "submit"}

(* staleness_samples misses at most one sample: that which the processor   *)
(* holds, or held, during a reset.  There is room for the held sample.     *)
StaleInv ==
  /\ Outstanding <= staleness + 1
  /\ Holding => Outstanding <= staleness
  /\ Outstanding <= MaxRequired + 1
  /\ proc = "get" \/ Holding => Outstanding <= MaxRequired

IInv == TypeOK /\ LockInv /\ GotInv /\ CountInv /\ StaleInv

------------------------------------------------------------------------------
(* A step by hand: Next with its actions named one below the other.        *)
LEMMA NextActions ==
  ASSUME Next
  PROVE  \/ Collect \/ Stop \/ Train \/ UpdateWeights \/ ResetCount \/ ResetSize \/ ResetSet
         \/ /\ UNCHANGED trainVars
            /\ \/ Feed \/ ProcCheck \/ ProcDecide \/ ProcPause \/ ProcWake \/ ProcDrain
               \/ ProcResumed \/ ProcGet \/ ProcReap \/ ProcFinish \/ ProcSubmit \/ ProcEnd
               \/ MonAsk \/ MonDecide \/ MonResume
               \/ \E x \in Samples : TaskPut(x) \/ TaskFail(x)
  BY DEF Next, TrainNext, RolloutNext, ProcNext, MonNext

LEMMA SamplesFinite ==
  /\ IsFiniteSet(Samples)
  /\ \A T \in SUBSET Samples : IsFiniteSet(T) /\ Cardinality(T) \in Nat
<1>1. IsFiniteSet(Samples)
  BY FS_Interval, QueueAssumption DEF Samples
<1> QED BY <1>1, FS_Subset, FS_CardinalityType

LEMMA EndIsNoSample == EndSignal \notin Samples /\ EndSignal \in Nat
  BY QueueAssumption DEF Samples, EndSignal

(* What the queue holds are samples, no more than its length.              *)
LEMMA QueuedBound ==
  ASSUME QueueTypeOK
  PROVE  /\ Queued \in SUBSET Samples
         /\ Cardinality(Queued) \in Nat
         /\ Cardinality(Queued) <= Len(queue)
<1> DEFINE All == {queue[k] : k \in DOMAIN queue}
           f == [k \in DOMAIN queue |-> queue[k]]
<1>1. Queued \in SUBSET Samples
  BY DEF QueueTypeOK, Queued
<1>2. /\ DOMAIN queue = 1 .. Len(queue) /\ Len(queue) \in Nat
  BY DEF QueueTypeOK
<1>3. IsFiniteSet(DOMAIN queue) /\ Cardinality(DOMAIN queue) = Len(queue)
  <2>1. 1 \in Int /\ Len(queue) \in Int
    BY <1>2
  <2>2. IsFiniteSet(1 .. Len(queue)) /\ Cardinality(1 .. Len(queue)) = IF 1 > Len(queue) THEN 0 ELSE Len(queue) - 1 + 1
    BY <2>1, FS_Interval
  <2>3. (IF 1 > Len(queue) THEN 0 ELSE Len(queue) - 1 + 1) = Len(queue)
    BY <1>2
  <2> QED BY <1>2, <2>2, <2>3
<1>4. f \in Surjection(DOMAIN queue, All)
  BY DEF Surjection
<1>5. IsFiniteSet(All) /\ Cardinality(All) <= Len(queue)
  BY <1>3, <1>4, FS_Surjection
<1>6. Queued \in SUBSET All
  BY DEF Queued
<1>7. Cardinality(Queued) <= Cardinality(All) /\ Cardinality(All) \in Nat
  BY <1>5, <1>6, FS_Subset, FS_CardinalityType
<1>8. Cardinality(Queued) \in Nat
  BY <1>1, SamplesFinite
<1> QED BY <1>1, <1>2, <1>5, <1>7, <1>8

LEMMA PutQueue ==
  ASSUME QueueTypeOK, NEW x \in Samples \cup {EndSignal}, Put(x)
  PROVE  /\ QueueTypeOK'
         /\ Queued' \subseteq Queued \cup ({x} \ {EndSignal})
<1> DEFINE S == Samples \cup {EndSignal}
           q == IF Len(queue) >= MaxQueueSize THEN Tail(queue) ELSE queue
<1>1. /\ queue \in Seq(S) /\ Len(queue) \in Nat /\ Len(queue) <= MaxQueueSize
      /\ MaxQueueSize \in Nat \ {0}
  BY QueueAssumption DEF QueueTypeOK
<1>2. Len(queue) >= MaxQueueSize => queue # << >>
  BY <1>1
<1>3. /\ q \in Seq(S) /\ Len(q) + 1 <= MaxQueueSize
      /\ \A k \in 1 .. Len(q) : \E j \in 1 .. Len(queue) : q[k] = queue[j]
  <2>1. CASE Len(queue) >= MaxQueueSize
    <3>1. /\ Tail(queue) \in Seq(S) /\ Len(Tail(queue)) = Len(queue) - 1
          /\ \A i \in 1 .. Len(Tail(queue)) : Tail(queue)[i] = queue[i + 1]
      BY <1>1, <1>2, <2>1, HeadTailProperties
    <3>2. \A k \in 1 .. Len(Tail(queue)) : k + 1 \in 1 .. Len(queue)
      BY <3>1, <1>1
    <3> QED BY <1>1, <2>1, <3>1, <3>2
  <2>2. CASE ~(Len(queue) >= MaxQueueSize)
    BY <1>1, <2>2
  <2> QED BY <2>1, <2>2
<1>4. /\ queue' = Append(q, x) /\ queue' \in Seq(S) /\ Len(queue') = Len(q) + 1
      /\ \A k \in 1 .. Len(q) : queue'[k] = q[k]
      /\ queue'[Len(q) + 1] = x
  BY <1>3, AppendProperties DEF Put
<1>5. dropped' \subseteq S
  BY <1>1, <1>2, HeadTailProperties DEF Put, QueueTypeOK
<1>6. QueueTypeOK'
  BY <1>1, <1>3, <1>4, <1>5 DEF QueueTypeOK
<1>7. \A k \in DOMAIN queue' : queue'[k] = x \/ \E j \in DOMAIN queue : queue'[k] = queue[j]
  BY <1>1, <1>3, <1>4
<1> QED BY <1>6, <1>7 DEF Queued

LEMMA GetQueue ==
  ASSUME QueueTypeOK, NEW x \in Samples \cup {EndSignal}, Get(x)
  PROVE  QueueTypeOK' /\ Queued' \subseteq Queued
<1> DEFINE S == Samples \cup {EndSignal}
<1>1. /\ queue \in Seq(S) /\ queue # << >> /\ Len(queue) \in Nat
      /\ Len(queue) <= MaxQueueSize /\ MaxQueueSize \in Nat
      /\ queue' = Tail(queue) /\ dropped' = dropped
  BY QueueAssumption DEF QueueTypeOK, Get
<1>2. /\ queue' \in Seq(S) /\ Len(queue') = Len(queue) - 1
      /\ \A i \in 1 .. Len(queue') : queue'[i] = queue[i + 1]
  BY <1>1, HeadTailProperties
<1>3. QueueTypeOK'
  BY <1>1, <1>2 DEF QueueTypeOK
<1>4. \A k \in DOMAIN queue' : k + 1 \in DOMAIN queue /\ queue'[k] = queue[k + 1]
  BY <1>1, <1>2
<1> QED BY <1>3, <1>4 DEF Queued

------------------------------------------------------------------------------
LEMMA InitTyped == Init => TypeOK
<1> SUFFICES ASSUME Init PROVE TypeOK
  OBVIOUS
<1>1. QueueTypeOK
  BY QueueAssumption DEF Init, QueueInit, QueueTypeOK
<1>2. RolloutTypeOK
  <2>1. fed \in 0 .. EndSignal /\ got \in 0 .. EndSignal /\ staleness \in Nat
    BY EndIsNoSample DEF Init, RolloutInit
  <2>2. lock \in Seq(Coroutines)
    BY DEF Init, RolloutInit
  <2> QED BY <2>1, <2>2, Zenon DEF Init, RolloutInit, RolloutTypeOK, ProcStates, MonStates
<1>3. localStep \in 1 .. SyncEvery
  BY TrainerAssumption DEF Init
<1> QED BY <1>1, <1>2, <1>3 DEF Init, TypeOK, TrainerStates

LEMMA AcquireLock ==
  ASSUME lock \in Seq(Coroutines), NEW c \in Coroutines, Acquire(c)
  PROVE  /\ lock' \in Seq(Coroutines) /\ lock' # << >>
         /\ lock # << >> => Head(lock') = Head(lock)
<1>1. lock' = Append(lock, c)
  BY DEF Acquire
<1>2. /\ lock' \in Seq(Coroutines) /\ lock' # << >> /\ Len(lock') = Len(lock) + 1
      /\ \A i \in 1 .. Len(lock) : lock'[i] = lock[i]
  BY <1>1, AppendProperties
<1>3. lock # << >> => Len(lock) \in Nat \ {0} /\ Head(lock) = lock[1]
  OBVIOUS
<1>4. Head(lock') = lock'[1]
  BY <1>2
<1> QED BY <1>2, <1>3, <1>4

LEMMA ReleaseLock ==
  ASSUME lock \in Seq(Coroutines), NEW c \in Coroutines, Holds(c), Release \/ Again(c)
  PROVE  lock' \in Seq(Coroutines)
<1>1. lock # << >> /\ Tail(lock) \in Seq(Coroutines)
  BY HeadTailProperties DEF Holds
<1> QED BY <1>1, AppendProperties DEF Release, Again

(* The tasks an action removes, and where the processor goes then.         *)
LEMMA RemoveTyped ==
  ASSUME RolloutTypeOK, ProcDrain \/ ProcReap \/ ProcFinish
  PROVE  /\ finished' \subseteq Samples
         /\ lock' \in Seq(Coroutines)
         /\ proc \in {"wake", "reap", "finish"}
         /\ proc' \in {"drain", "reap", "submit", "finish", "end"}
         /\ proc' \in {"reap", "submit"} => proc = "reap"
         /\ Holds("proc")
         /\ UNCHANGED <<fed, got, procFull, running, failed, monVars, paused, staleness, queueVars>>
<1>1. finished \subseteq Samples /\ lock \in Seq(Coroutines) /\ "proc" \in Coroutines
  BY DEF RolloutTypeOK, Coroutines
<1>2. CASE ProcDrain
  BY <1>1, <1>2, ReleaseLock DEF ProcDrain, RemoveDone
<1>3. CASE ProcReap
  BY <1>1, <1>3, ReleaseLock DEF ProcReap, RemoveDone
<1>4. CASE ProcFinish
  BY <1>1, <1>4, ReleaseLock DEF ProcFinish, RemoveDone
<1> QED BY <1>2, <1>3, <1>4

LEMMA TypeStep == TypeOK /\ LockInv /\ GotInv /\ [Next]_vars => TypeOK'
<1> SUFFICES ASSUME TypeOK, LockInv, GotInv, [Next]_vars PROVE TypeOK'
  OBVIOUS
<1> USE DEF ProcStates, MonStates, TrainerStates
<1>T. /\ QueueTypeOK /\ RolloutTypeOK
      /\ lock \in Seq(Coroutines) /\ "proc" \in Coroutines /\ "reset" \in Coroutines
      /\ "monitor" \in Coroutines
  BY DEF TypeOK, RolloutTypeOK, Coroutines
<1>1. CASE UNCHANGED vars
  BY <1>1 DEF vars, queueVars, rolloutVars, trainVars, procVars, taskVars, monVars,
     TypeOK, QueueTypeOK, RolloutTypeOK
<1>2. CASE Collect
  <2>1. PICK x \in Samples : /\ Get(x) /\ collected' = collected \cup {x}
                             /\ tpc' \in {"train", "collect"}
    BY <1>2 DEF Collect
  <2>2. QueueTypeOK'
    BY <1>T, <2>1, GetQueue
  <2> QED BY <1>2, <1>T, <2>1, <2>2
      DEF Collect, TypeOK, RolloutTypeOK, rolloutVars, procVars, taskVars, monVars
<1>3. CASE Stop
  <2>1. QueueTypeOK'
    BY <1>T, <1>3, GetQueue DEF Stop
  <2> QED BY <1>3, <1>T, <2>1
      DEF Stop, TypeOK, RolloutTypeOK, rolloutVars, procVars, taskVars, monVars
<1>4. CASE Train
  <2>1. localStep' \in 1 .. SyncEvery /\ tpc' \in {"collect", "update"}
    BY <1>4, TrainerAssumption DEF Train, TypeOK
  <2> QED BY <1>4, <1>T, <2>1
      DEF Train, TypeOK, RolloutTypeOK, QueueTypeOK, queueVars, rolloutVars, procVars, taskVars,
           monVars
<1>5. CASE UpdateWeights
  BY <1>5, <1>T, AcquireLock
     DEF UpdateWeights, TypeOK, RolloutTypeOK, QueueTypeOK, queueVars, procVars, taskVars, monVars
<1>6. CASE ResetCount
  <2>1. Active \in SUBSET Samples
    BY <1>T DEF RolloutTypeOK, Active
  <2>2. nActive' \in Nat
    BY <1>6, <2>1, SamplesFinite DEF ResetCount
  <2> QED BY <1>6, <1>T, <2>2
      DEF ResetCount, TypeOK, RolloutTypeOK, QueueTypeOK, queueVars, procVars, taskVars, monVars
<1>7. CASE ResetSize
  <2>1. nQueued' \in Nat
    BY <1>7, <1>T DEF ResetSize, QueueTypeOK
  <2> QED BY <1>7, <1>T, <2>1
      DEF ResetSize, TypeOK, RolloutTypeOK, QueueTypeOK, queueVars, rolloutVars, procVars,
           taskVars, monVars
<1>8. CASE ResetSet
  <2>1. staleness' \in Nat /\ tpc' \in {"done", "collect"}
    BY <1>8 DEF ResetSet, TypeOK
  <2>2. lock' \in Seq(Coroutines)
    BY <1>8, <1>T, ReleaseLock DEF ResetSet, LockInv
  <2> QED BY <1>8, <1>T, <2>1, <2>2
      DEF ResetSet, TypeOK, RolloutTypeOK, QueueTypeOK, queueVars, procVars, taskVars, monVars
<1>9. CASE UNCHANGED trainVars /\ Feed
  <2>1. fed' \in 0 .. EndSignal
    BY <1>9, <1>T, QueueAssumption DEF Feed, RolloutTypeOK, EndSignal
  <2> QED BY <1>9, <1>T, <2>1
      DEF Feed, TypeOK, RolloutTypeOK, QueueTypeOK, queueVars, trainVars, taskVars, monVars
<1>10. CASE UNCHANGED trainVars /\ ProcCheck
  <2>1. procFull' \in BOOLEAN
    <3>1. QueueFull \in BOOLEAN
      BY DEF QueueFull
    <3>2. procFull' = procFull \/ procFull' = QueueFull
      BY <1>10 DEF ProcCheck
    <3> QED BY <1>T, <3>1, <3>2, Zenon DEF RolloutTypeOK
  <2>2. lock' \in Seq(Coroutines) /\ proc' \in {"pause", "decide"}
    BY <1>10, <1>T, AcquireLock DEF ProcCheck
  <2> QED BY <1>10, <1>T, <2>1, <2>2 DEF ProcCheck, TypeOK, RolloutTypeOK, QueueTypeOK,
     queueVars, trainVars, taskVars, monVars
<1>11. CASE UNCHANGED trainVars /\ ProcDecide
  BY <1>11, <1>T, AcquireLock DEF ProcDecide, TypeOK, RolloutTypeOK, QueueTypeOK,
     queueVars, trainVars, taskVars, monVars
<1>12. CASE UNCHANGED trainVars /\ (ProcPause \/ ProcResumed)
  BY <1>12, <1>T, ReleaseLock DEF ProcPause, ProcResumed, TypeOK, RolloutTypeOK, QueueTypeOK,
     queueVars, trainVars, taskVars, monVars
<1>13. CASE UNCHANGED trainVars /\ ProcWake
  BY <1>13, <1>T, AcquireLock DEF ProcWake, TypeOK, RolloutTypeOK, QueueTypeOK,
     queueVars, trainVars, taskVars, monVars
<1>14. CASE UNCHANGED trainVars /\ (ProcDrain \/ ProcReap \/ ProcFinish)
  BY <1>14, <1>T, RemoveTyped DEF TypeOK, RolloutTypeOK, QueueTypeOK,
     queueVars, trainVars, monVars
<1>15. CASE UNCHANGED trainVars /\ ProcGet
  <2>1. got' \in 0 .. EndSignal /\ staleness' \in Nat
    BY <1>15, <1>T, EndIsNoSample DEF ProcGet, RolloutTypeOK
  <2>2. lock' \in Seq(Coroutines)
    BY <1>15, <1>T, AcquireLock DEF ProcGet
  <2>3. proc' \in {"end", "finish", "reap", "submit"}
    BY <1>15 DEF ProcGet
  <2> QED BY <1>15, <1>T, <2>1, <2>2, <2>3 DEF ProcGet, TypeOK, RolloutTypeOK, QueueTypeOK,
     queueVars, trainVars, taskVars, monVars
<1>16. CASE UNCHANGED trainVars /\ ProcSubmit
  <2>1. got \in Samples
    BY <1>16 DEF ProcSubmit, GotInv
  <2> QED BY <1>16, <1>T, <2>1, ReleaseLock DEF ProcSubmit, TypeOK, RolloutTypeOK, QueueTypeOK,
     queueVars, trainVars, monVars
<1>17. CASE UNCHANGED trainVars /\ ProcEnd
  <2>1. QueueTypeOK'
    BY <1>17, <1>T, PutQueue DEF ProcEnd
  <2> QED BY <1>17, <1>T, <2>1 DEF ProcEnd, TypeOK, RolloutTypeOK, trainVars, taskVars, monVars
<1>18. CASE UNCHANGED trainVars /\ (MonAsk \/ MonDecide \/ MonResume)
  <2>1. monFull' \in BOOLEAN
    <3>1. QueueFull \in BOOLEAN
      BY DEF QueueFull
    <3>2. monFull' = monFull \/ monFull' = QueueFull
      BY <1>18 DEF MonAsk, MonDecide, MonResume
    <3> QED BY <1>T, <3>1, <3>2, Zenon DEF RolloutTypeOK
  <2>2. lock' \in Seq(Coroutines)
    BY <1>18, <1>T, AcquireLock, ReleaseLock DEF MonAsk, MonDecide, MonResume
  <2>3. mon' \in MonStates /\ paused' \in BOOLEAN
    BY <1>18, <1>T DEF MonAsk, MonDecide, MonResume, RolloutTypeOK
  <2>4. UNCHANGED <<procVars, taskVars, staleness, queueVars>>
    BY <1>18 DEF MonAsk, MonDecide, MonResume
  <2> QED BY <1>18, <1>T, <2>1, <2>2, <2>3, <2>4 DEF TypeOK,
     RolloutTypeOK, QueueTypeOK, queueVars, trainVars, procVars, taskVars
<1>19. ASSUME UNCHANGED trainVars, NEW x \in Samples, TaskPut(x)
       PROVE  TypeOK'
  <2>1. QueueTypeOK'
    BY <1>19, <1>T, PutQueue DEF TaskPut
  <2> QED BY <1>19, <1>T, <2>1 DEF TaskPut, TypeOK, RolloutTypeOK, trainVars, procVars, monVars
<1>20. ASSUME UNCHANGED trainVars, NEW x \in Samples, TaskFail(x)
       PROVE  TypeOK'
  BY <1>20, <1>T DEF TaskFail, TypeOK, RolloutTypeOK, QueueTypeOK, queueVars, trainVars,
     procVars, monVars
<1> QED
  BY <1>1, <1>2, <1>3, <1>4, <1>5, <1>6, <1>7, <1>8, <1>9, <1>10, <1>11, <1>12, <1>13, <1>14,
     <1>15, <1>16, <1>17, <1>18, <1>19, <1>20, NextActions

(* reset_staleness keeps the lock until it has assigned: other coroutines  *)
(* queue up behind it, and only a holder releases.                         *)
LEMMA LockStep == TypeOK /\ LockInv /\ [Next]_vars => LockInv'
<1> SUFFICES ASSUME TypeOK, LockInv, [Next]_vars PROVE LockInv'
  OBVIOUS
<1>T. /\ lock \in Seq(Coroutines) /\ "proc" \in Coroutines /\ "reset" \in Coroutines
      /\ "monitor" \in Coroutines
  BY DEF TypeOK, RolloutTypeOK, Coroutines
<1>1. CASE tpc \notin {"size", "set"} /\ tpc' \in {"size", "set"}
  <2>1. ResetCount
    BY <1>1, NextActions DEF vars, Collect, Stop, Train, UpdateWeights, ResetSize, ResetSet,
         trainVars
  <2> QED BY <2>1 DEF ResetCount, LockInv, Holds
<1>2. CASE tpc \in {"size", "set"} /\ tpc' \in {"size", "set"}
  <2>1. Holds("reset") /\ ~Holds("proc") /\ ~Holds("monitor") /\ lock # << >>
    BY <1>2 DEF LockInv, Holds
  <2>2. lock' = lock \/ \E c \in Coroutines : Acquire(c)
    BY <1>2, <2>1, <1>T, RemoveTyped, NextActions DEF vars, queueVars, rolloutVars, trainVars,
         procVars, taskVars, monVars,
       Collect, Stop, Train, UpdateWeights, ResetCount, ResetSize, ResetSet,
       Feed, ProcCheck, ProcDecide, ProcPause, ProcWake, ProcResumed, ProcGet, ProcSubmit, ProcEnd,
       MonAsk, MonDecide, MonResume, TaskPut, TaskFail, TypeOK
  <2> QED BY <1>T, <2>1, <2>2, AcquireLock DEF LockInv, Holds
<1> QED BY <1>1, <1>2 DEF LockInv

LEMMA GotStep == TypeOK /\ GotInv /\ [Next]_vars => GotInv'
<1> SUFFICES ASSUME TypeOK, GotInv, [Next]_vars, proc' \in {"reap", "submit"}
             PROVE  got' \in Samples
  BY DEF GotInv
<1>1. CASE ProcGet
  <2>1. got' = got + 1 /\ got' # EndSignal
    BY <1>1 DEF ProcGet
  <2>2. got \in 0 .. EndSignal /\ fed \in 0 .. EndSignal /\ got < fed
    BY <1>1 DEF ProcGet, TypeOK, RolloutTypeOK
  <2> QED BY <2>1, <2>2, QueueAssumption DEF EndSignal, Samples
<1>2. CASE ~ProcGet
  <2>1. proc \in {"reap", "submit"} /\ got' = got
    BY <1>2, RemoveTyped, NextActions DEF vars, queueVars, rolloutVars, trainVars, procVars,
         taskVars, monVars,
       Collect, Stop, Train, UpdateWeights, ResetCount, ResetSize, ResetSet,
       Feed, ProcCheck, ProcDecide, ProcPause, ProcWake, ProcResumed, ProcSubmit, ProcEnd,
       MonAsk, MonDecide, MonResume, TaskPut, TaskFail, TypeOK
  <2> QED BY <2>1 DEF GotInv
<1> QED BY <1>1, <1>2

(* Only starting a task adds to what is outstanding; a finished task only  *)
(* moves its sample to the queue, which may lose another.                  *)
LEMMA OutstandingStep ==
  ASSUME TypeOK, GotInv, [Next]_vars
  PROVE  /\ Cardinality(running) \in Nat /\ Cardinality(running') \in Nat
         /\ Outstanding \in Nat /\ Outstanding' \in Nat
         /\ ~ProcSubmit => /\ Cardinality(running') <= Cardinality(running)
                           /\ Outstanding' <= Outstanding
         /\ ProcSubmit => Outstanding' <= Outstanding + 1
<1>T. /\ QueueTypeOK /\ RolloutTypeOK /\ Queued \in SUBSET Samples
      /\ Cardinality(Queued) \in Nat /\ running \in SUBSET Samples
      /\ IsFiniteSet(Queued) /\ IsFiniteSet(running) /\ Cardinality(running) \in Nat
  BY QueuedBound, SamplesFinite DEF TypeOK, RolloutTypeOK
<1>A. ASSUME running' \subseteq running, Queued' \subseteq Queued
      PROVE  /\ Cardinality(running') \in Nat /\ Cardinality(running') <= Cardinality(running)
             /\ Cardinality(Queued') \in Nat /\ Cardinality(Queued') <= Cardinality(Queued)
  BY <1>A, <1>T, FS_Subset, FS_CardinalityType
<1>1. CASE ProcSubmit
  <2>1. running' = running \cup {got} /\ queue' = queue
    BY <1>1 DEF ProcSubmit, queueVars
  <2>2. /\ Cardinality(running') \in Nat
        /\ Cardinality(running') <= Cardinality(running) + 1
    BY <2>1, <1>T, FS_AddElement, FS_CardinalityType
  <2>3. Queued' = Queued
    BY <2>1 DEF Queued
  <2> QED BY <1>1, <1>T, <2>2, <2>3 DEF Outstanding
<1>2. ASSUME NEW x \in Samples, TaskPut(x)
      PROVE  /\ Cardinality(running') \in Nat /\ Cardinality(running') <= Cardinality(running)
             /\ Outstanding' \in Nat /\ Outstanding' <= Outstanding
  <2>1. running' = running \ {x} /\ x \in running /\ Queued' \subseteq Queued \cup {x}
    BY <1>2, <1>T, PutQueue DEF TaskPut
  <2>2. Cardinality(running') = Cardinality(running) - 1 /\ Cardinality(running') \in Nat
    BY <2>1, <1>T, FS_RemoveElement, FS_CardinalityType
  <2>3. IsFiniteSet(Queued \cup {x}) /\ Cardinality(Queued \cup {x}) <= Cardinality(Queued) + 1
    BY <1>T, FS_AddElement
  <2>4. Cardinality(Queued') \in Nat /\ Cardinality(Queued') <= Cardinality(Queued) + 1
    <3>1. IsFiniteSet(Queued') /\ Cardinality(Queued') <= Cardinality(Queued \cup {x})
      BY <2>1, <2>3, FS_Subset
    <3>2. Cardinality(Queued \cup {x}) \in Nat /\ Cardinality(Queued') \in Nat
      BY <2>3, <3>1, FS_CardinalityType
    <3> QED BY <1>T, <2>3, <3>1, <3>2
  <2> QED BY <1>T, <2>2, <2>4 DEF Outstanding
<1>3. CASE ~ProcSubmit /\ ~\E x \in Samples : TaskPut(x)
  <2>1. running' \subseteq running
    BY <1>3, <1>T, RemoveTyped, NextActions DEF vars, queueVars, rolloutVars, trainVars,
         procVars, taskVars, monVars,
       Collect, Stop, Train, UpdateWeights, ResetCount, ResetSize, ResetSet,
       Feed, ProcCheck, ProcDecide, ProcPause, ProcWake, ProcResumed, ProcGet, ProcEnd,
       MonAsk, MonDecide, MonResume, TaskFail
  <2>2. ASSUME Collect \/ Stop PROVE Queued' \subseteq Queued
    BY <2>2, <1>T, GetQueue DEF Collect, Stop
  <2>3. ASSUME ProcEnd PROVE Queued' \subseteq Queued
    BY <2>3, <1>T, PutQueue DEF ProcEnd
  <2>4. ASSUME ~Collect, ~Stop, ~ProcEnd PROVE Queued' \subseteq Queued
    <3>1. queue' = queue
      BY <1>3, <1>T, <2>4, RemoveTyped, NextActions DEF vars, queueVars, rolloutVars, trainVars,
           procVars, taskVars, monVars,
       Train, UpdateWeights, ResetCount, ResetSize, ResetSet,
       Feed, ProcCheck, ProcDecide, ProcPause, ProcWake, ProcResumed, ProcGet,
       MonAsk, MonDecide, MonResume, TaskFail
    <3> QED BY <3>1 DEF Queued
  <2>5. Queued' \subseteq Queued
    BY <2>2, <2>3, <2>4
  <2> QED BY <1>3, <1>A, <1>T, <2>1, <2>5 DEF Outstanding
<1>4. CASE ~ProcSubmit /\ \E x \in Samples : TaskPut(x)
  <2>1. PICK x \in Samples : TaskPut(x)
    BY <1>4
  <2>2. Outstanding \in Nat
    BY <1>T DEF Outstanding
  <2> QED BY <1>4, <1>T, <1>2, <2>1, <2>2, Zenon
<1> QED BY <1>1, <1>3, <1>4, Zenon

LEMMA CountStep ==
  ASSUME TypeOK, LockInv, GotInv, CountInv, [Next]_vars
  PROVE  CountInv'
<1>T. /\ Cardinality(running) \in Nat /\ Cardinality(running') \in Nat
      /\ Outstanding \in Nat /\ Outstanding' \in Nat /\ nActive \in Nat /\ nQueued \in Nat
  BY OutstandingStep DEF TypeOK
<1>1. ASSUME tpc' \in {"size", "set"}, tpc = tpc'
      PROVE  /\ Cardinality(running') <= Cardinality(running)
             /\ Outstanding' <= Outstanding
             /\ nActive' = nActive /\ nQueued' = nQueued
  <2>1. ~ProcSubmit
    BY <1>1 DEF LockInv, Holds, ProcSubmit
  <2>2. nActive' = nActive /\ nQueued' = nQueued
    BY <1>1, NextActions DEF vars, trainVars, Collect, Stop, Train, UpdateWeights, ResetCount,
       ResetSize, ResetSet
  <2> QED BY <2>1, <2>2, OutstandingStep
<1>2. ASSUME tpc' = "size", tpc # "size"
      PROVE  Cardinality(running') <= nActive'
  <2>1. ResetCount
    BY <1>2, NextActions DEF vars, trainVars, Collect, Stop, Train, UpdateWeights, ResetSize,
         ResetSet
  <2>2. running' = running /\ nActive' = Cardinality(Active)
    BY <2>1 DEF ResetCount, taskVars
  <2>3. IsFiniteSet(Active) /\ running \in SUBSET Active
    BY SamplesFinite DEF TypeOK, RolloutTypeOK, Active
  <2> QED BY <2>2, <2>3, FS_Subset
<1>3. ASSUME tpc' = "set", tpc # "set"
      PROVE  Outstanding' <= nActive' + nQueued'
  <2>1. ResetSize
    BY <1>3, NextActions DEF vars, trainVars, Collect, Stop, Train, UpdateWeights, ResetCount,
         ResetSet
  <2>2. /\ tpc = "size" /\ running' = running /\ queue' = queue
        /\ nActive' = nActive /\ nQueued' = Len(queue)
    BY <2>1 DEF ResetSize, queueVars, rolloutVars, taskVars
  <2>3. Cardinality(Queued) <= Len(queue) /\ Cardinality(Queued) \in Nat /\ Len(queue) \in Nat
    BY QueuedBound DEF TypeOK, QueueTypeOK
  <2>4. Outstanding' = Cardinality(running) + Cardinality(Queued)
    BY <2>2 DEF Outstanding, Queued
  <2> QED BY <1>T, <2>2, <2>3, <2>4 DEF CountInv
<1> QED BY <1>T, <1>1, <1>2, <1>3 DEF CountInv

LEMMA StaleStep ==
  ASSUME TypeOK, LockInv, GotInv, CountInv, StaleInv, [Next]_vars
  PROVE  StaleInv'
<1>T. /\ Outstanding \in Nat /\ Outstanding' \in Nat
      /\ staleness \in Nat /\ MaxRequired \in Nat
  BY OutstandingStep, RollouterAssumption DEF TypeOK, RolloutTypeOK
<1>1. CASE ProcGet
  <2>1. /\ proc = "get" /\ ~Holding /\ proc' # "get" /\ staleness' = staleness + 1
        /\ Outstanding' <= Outstanding
    BY <1>1, OutstandingStep DEF ProcGet, Holding, ProcSubmit
  <2> QED BY <1>T, <2>1 DEF StaleInv
<1>2. CASE ProcSubmit
  <2>1. /\ Holding /\ ~Holding' /\ proc' # "get" /\ staleness' = staleness
        /\ Outstanding' <= Outstanding + 1
    BY <1>2, OutstandingStep DEF ProcSubmit, Holding
  <2> QED BY <1>T, <2>1 DEF StaleInv
<1>3. CASE ResetSet
  <2>1. /\ proc' = proc /\ Holding' = Holding /\ staleness' = nActive + nQueued
        /\ Outstanding <= nActive + nQueued /\ nActive \in Nat /\ nQueued \in Nat
    BY <1>3 DEF ResetSet, procVars, Holding, CountInv, TypeOK
  <2>2. Outstanding' <= Outstanding
    BY <1>3, OutstandingStep DEF ResetSet, ProcSubmit, procVars
  <2> QED BY <1>T, <2>1, <2>2 DEF StaleInv
<1>4. CASE ProcDecide
  <2>1. /\ ~Holding' /\ staleness' = staleness /\ Outstanding' <= Outstanding
        /\ proc' = "get" => ~(staleness >= MaxRequired)
    BY <1>4, OutstandingStep DEF ProcDecide, Holding, ProcSubmit
  <2> QED BY <1>T, <2>1 DEF StaleInv
<1>5. CASE ~ProcGet /\ ~ProcSubmit /\ ~ResetSet /\ ~ProcDecide
  <2>1. /\ staleness' = staleness
        /\ Holding' => Holding
        /\ proc' = "get" => proc = "get"
    BY <1>5, RemoveTyped, NextActions DEF vars, queueVars, rolloutVars, trainVars, procVars,
         taskVars, monVars,
       Collect, Stop, Train, UpdateWeights, ResetCount, ResetSize,
       Feed, ProcCheck, ProcPause, ProcWake, ProcResumed, ProcEnd,
       MonAsk, MonDecide, MonResume, TaskPut, TaskFail, TypeOK, Holding
  <2>2. Outstanding' <= Outstanding
    BY <1>5, OutstandingStep
  <2> QED BY <1>T, <2>1, <2>2 DEF StaleInv
<1> QED BY <1>1, <1>2, <1>3, <1>4, <1>5

LEMMA InitInv == Init => IInv
<1> SUFFICES ASSUME Init PROVE IInv
  OBVIOUS
<1>1. TypeOK /\ LockInv /\ GotInv /\ CountInv
  BY InitTyped DEF Init, RolloutInit, LockInv, GotInv, CountInv
<1>2. Outstanding = 0 /\ ~Holding
  <2>1. running = {} /\ Queued = {}
    BY DEF Init, QueueInit, RolloutInit, Queued
  <2> QED BY <2>1, FS_EmptySet DEF Outstanding, Holding, Init, RolloutInit
<1> QED BY <1>1, <1>2, RollouterAssumption DEF IInv, StaleInv, Init, RolloutInit

THEOREM Invariance == Spec => []IInv
<1>1. IInv /\ [Next]_vars => IInv'
  BY TypeStep, LockStep, GotStep, CountStep, StaleStep DEF IInv
<1> QED BY InitInv, <1>1, PTL DEF Spec

(* Every reachable state is well typed; in particular the message queue    *)
(* never holds more than max_queue_size (message_queue.py:68).             *)
THEOREM TypeCorrect == Spec => []TypeOK
<1>1. IInv => TypeOK
  BY DEF IInv
<1> QED BY Invariance, <1>1, PTL

(* For every staleness threshold and concurrency, whatever the weight      *)
(* updates race with, at most one sample more than max_required_samples is *)
(* generating or queued (fully_async_rollouter.py:475, :754, :796-798).    *)
THEOREM OutstandingStaysBounded == Spec => []OutstandingBounded
<1>1. IInv => OutstandingBounded
  <2>1. IInv => Outstanding \in Nat
    BY QueuedBound, SamplesFinite DEF IInv, TypeOK, RolloutTypeOK, Outstanding
  <2> QED BY <2>1, RollouterAssumption DEF IInv, StaleInv, OutstandingBounded
<1> QED BY Invariance, <1>1, PTL

------------------------------------------------------------------------------
(* The end signal.  A task belongs to a sample taken before, and has ended *)
(* or still generates.                                                     *)
TaskInv ==
  /\ running \cap finished = {}
  /\ \A x \in Active : x <= got /\ (Holding => x # got)

(* The limit of concurrency; a stream that ends has removed a task, or has *)
(* none.                                                                   *)
LimitInv ==
  /\ Cardinality(Active) <= MaxConcurrent
  /\ proc = "submit" => Cardinality(Active) < MaxConcurrent
  /\ proc \in {"end", "ended"} => Cardinality(running) < MaxConcurrent

(* What is still generating has room in the queue behind the end signal.   *)
EndInv ==
  /\ EndSignalKept
  /\ \A k \in DOMAIN queue : queue[k] = EndSignal =>
       proc = "ended" /\ Len(queue) - k + Cardinality(running) < MaxQueueSize

EndIInv == TaskInv /\ LimitInv /\ EndInv

LEMMA TasksFinite ==
  ASSUME TypeOK
  PROVE  /\ Active \in SUBSET Samples /\ IsFiniteSet(Active) /\ Cardinality(Active) \in Nat
         /\ \A T \in SUBSET Active : IsFiniteSet(T) /\ Cardinality(T) \in Nat
                                   /\ Cardinality(T) <= Cardinality(Active)
         /\ got \in Nat /\ Samples \subseteq Nat
<1>1. Active \in SUBSET Samples /\ got \in Nat /\ Samples \subseteq Nat
  BY EndIsNoSample DEF TypeOK, RolloutTypeOK, Active, Samples
<1> QED BY <1>1, SamplesFinite, FS_Subset

(* The ways in which the tasks change.                                     *)
LEMMA TaskActions ==
  ASSUME TypeOK, [Next]_vars
  PROVE  \/ ProcSubmit
         \/ \E x \in Samples : TaskPut(x) \/ TaskFail(x)
         \/ ProcDrain \/ ProcReap \/ ProcFinish
         \/ UNCHANGED <<running, finished>>
  BY NextActions DEF vars, rolloutVars, taskVars,
     Collect, Stop, Train, UpdateWeights, ResetCount, ResetSize, ResetSet,
     Feed, ProcCheck, ProcDecide, ProcPause, ProcWake, ProcResumed, ProcGet, ProcEnd,
     MonAsk, MonDecide, MonResume

LEMMA GotMoves ==
  ASSUME TypeOK, [Next]_vars
  PROVE  \/ ProcGet
         \/ got' = got /\ (Holding' => Holding)
  BY RemoveTyped, NextActions DEF vars, queueVars, rolloutVars, trainVars, procVars, taskVars,
       monVars,
     Collect, Stop, Train, UpdateWeights, ResetCount, ResetSize, ResetSet,
     Feed, ProcCheck, ProcDecide, ProcPause, ProcWake, ProcResumed, ProcSubmit, ProcEnd,
     MonAsk, MonDecide, MonResume, TaskPut, TaskFail, TypeOK, Holding

LEMMA TaskStep ==
  ASSUME TypeOK, TaskInv, [Next]_vars
  PROVE  TaskInv'
<1>1. CASE ProcGet
  <2>1. got' = got + 1 /\ running' = running /\ finished' = finished
    BY <1>1 DEF ProcGet, taskVars
  <2> QED BY <2>1, TasksFinite DEF TaskInv, Active
<1>2. CASE ProcSubmit
  <2>1. /\ got' = got /\ running' = running \cup {got} /\ finished' = finished
        /\ Holding /\ ~Holding'
    BY <1>2 DEF ProcSubmit, Holding
  <2> QED BY <2>1, TasksFinite DEF TaskInv, Active
<1>3. ASSUME NEW x \in Samples, TaskPut(x) \/ TaskFail(x)
      PROVE  TaskInv'
  BY <1>3 DEF TaskPut, TaskFail, procVars, TaskInv, Active, Holding
<1>4. CASE ProcDrain \/ ProcReap \/ ProcFinish
  <2>1. running' = running /\ finished' \subseteq finished
    BY <1>4 DEF ProcDrain, ProcReap, ProcFinish, RemoveDone
  <2>2. got' = got /\ (Holding' => Holding)
    BY <1>4, RemoveTyped DEF Holding, TypeOK
  <2> QED BY <2>1, <2>2 DEF TaskInv, Active
<1>5. CASE ~ProcGet /\ UNCHANGED <<running, finished>>
  BY <1>5, GotMoves DEF TaskInv, Active
<1> QED BY <1>1, <1>2, <1>3, <1>4, <1>5, TaskActions

LEMMA LimitStep ==
  ASSUME TypeOK, GotInv, TaskInv, LimitInv, [Next]_vars
  PROVE  LimitInv'
<1>T. MaxConcurrent \in Nat \ {0} /\ MaxConcurrent <= MaxRequired /\ MaxRequired \in Nat
  BY RollouterAssumption
<1>1. CASE ProcSubmit
  <2>1. Active' = Active \cup {got} /\ proc' = "check" /\ proc = "submit"
    BY <1>1 DEF ProcSubmit, Active
  <2>2. Cardinality(Active') <= Cardinality(Active) + 1 /\ Cardinality(Active') \in Nat
    <3>1. IsFiniteSet(Active) /\ Cardinality(Active) \in Nat
      BY TasksFinite
    <3>2. /\ IsFiniteSet(Active')
          /\ Cardinality(Active') = IF got \in Active THEN Cardinality(Active) ELSE Cardinality(Active) + 1
      BY <2>1, <3>1, FS_AddElement
    <3> QED BY <3>1, <3>2
  <2> QED BY <1>T, <2>1, <2>2, TasksFinite DEF LimitInv
<1>2. CASE ProcGet
  <2>1. Active' = Active /\ running' = running
    BY <1>2 DEF ProcGet, Active, taskVars
  <2>2. proc' = "submit" => Cardinality(Active) < MaxConcurrent
    BY <1>2, <1>T, TasksFinite DEF ProcGet
  <2>3. proc' \in {"end", "ended"} => running = {}
    BY <1>2 DEF ProcGet, Active
  <2> QED BY <1>T, <2>1, <2>2, <2>3, FS_EmptySet DEF LimitInv
<1>3. CASE ProcDrain \/ ProcReap \/ ProcFinish
  <2> DEFINE Removes(D) ==
               /\ D # {} /\ finished' = finished \ D /\ running' = running
               /\ proc' = "submit" => ~(Cardinality(Active \ D) >= MaxConcurrent)
  <2>1. PICK D \in SUBSET finished : Removes(D)
    <3>1. CASE ProcDrain
      BY <3>1 DEF ProcDrain, RemoveDone
    <3>2. CASE ProcReap
      <4>1. PICK D \in SUBSET finished :
              /\ D # {} /\ finished' = finished \ D /\ running' = running
              /\ proc' = IF D \cap failed # {} THEN "end"
                         ELSE IF Cardinality(Active \ D) >= MaxConcurrent THEN "reap" ELSE "submit"
        BY <3>2 DEF ProcReap, RemoveDone
      <4> QED BY <4>1
    <3>3. CASE ProcFinish
      BY <3>3 DEF ProcFinish, RemoveDone
    <3> QED BY <1>3, <3>1, <3>2, <3>3
  <2>2. Active' = Active \ D /\ Active' \in SUBSET Active /\ running \in SUBSET Active
    BY <2>1 DEF Active, TaskInv
  <2>3. PICK x : x \in D
    BY <2>1
  <2>4. running \in SUBSET (Active \ {x}) /\ x \in Active
    BY <2>1, <2>3 DEF Active, TaskInv
  <2>5. /\ IsFiniteSet(Active \ {x}) /\ Cardinality(Active \ {x}) = Cardinality(Active) - 1
        /\ Cardinality(running) <= Cardinality(Active \ {x})
    BY <2>4, TasksFinite, FS_RemoveElement, FS_Subset
  <2>6. Cardinality(running) < MaxConcurrent
    BY <1>T, <2>2, <2>5, TasksFinite DEF LimitInv
  <2>7. Cardinality(Active') \in Nat /\ Cardinality(Active') <= Cardinality(Active)
    BY <2>2, TasksFinite
  <2>8. proc' = "submit" => Cardinality(Active') < MaxConcurrent
    BY <1>T, <2>1, <2>2, <2>7
  <2> QED BY <1>T, <2>1, <2>6, <2>7, <2>8, TasksFinite DEF LimitInv
<1>4. ASSUME NEW x \in Samples, TaskPut(x) \/ TaskFail(x)
      PROVE  LimitInv'
  <2>1. /\ Active' = Active /\ proc' = proc
        /\ running' \in SUBSET running /\ running \in SUBSET Active
    BY <1>4 DEF TaskPut, TaskFail, Active, procVars
  <2>2. Cardinality(running') <= Cardinality(running)
        /\ Cardinality(running') \in Nat /\ Cardinality(running) \in Nat
    BY <2>1, TasksFinite, FS_Subset, FS_CardinalityType
  <2> QED BY <1>T, <2>1, <2>2 DEF LimitInv
<1>5. CASE ~ProcGet /\ UNCHANGED <<running, finished>>
  <2>1. Active' = Active /\ running' = running
    BY <1>5 DEF Active
  <2>2. /\ proc' = "submit" => proc = "submit" \/ ProcDrain \/ ProcReap \/ ProcFinish
        /\ proc' \in {"end", "ended"} => proc \in {"end", "ended"} \/ ProcDrain \/ ProcReap \/ ProcFinish
    BY <1>5, NextActions DEF vars, queueVars, rolloutVars, trainVars, procVars, taskVars, monVars,
       Collect, Stop, Train, UpdateWeights, ResetCount, ResetSize, ResetSet,
       Feed, ProcCheck, ProcDecide, ProcPause, ProcWake, ProcResumed, ProcSubmit, ProcEnd,
       MonAsk, MonDecide, MonResume, TaskPut, TaskFail, TypeOK
  <2> QED BY <1>3, <2>1, <2>2 DEF LimitInv
<1> QED BY <1>1, <1>2, <1>3, <1>4, <1>5, TaskActions

(* Put by positions: appended, or all one position ahead.                  *)
Appended(x) ==
  /\ Len(queue') = Len(queue) + 1 /\ dropped' = dropped
  /\ \A k \in 1 .. Len(queue) : queue'[k] = queue[k]
  /\ queue'[Len(queue) + 1] = x

Shifted(x) ==
  /\ 1 \in 1 .. Len(queue) /\ dropped' = dropped \cup {queue[1]}
  /\ Len(queue') = Len(queue)
  /\ \A k \in 1 .. Len(queue) - 1 : queue'[k] = queue[k + 1]
  /\ queue'[Len(queue)] = x

LEMMA PutPositions ==
  ASSUME QueueTypeOK, NEW x \in Samples \cup {EndSignal}, Put(x)
  PROVE  \/ Len(queue) < MaxQueueSize /\ Appended(x)
         \/ Len(queue) >= MaxQueueSize /\ Shifted(x)
<1> DEFINE S == Samples \cup {EndSignal}
<1>1. /\ queue \in Seq(S) /\ Len(queue) \in Nat /\ MaxQueueSize \in Nat \ {0}
  BY QueueAssumption DEF QueueTypeOK
<1>2. CASE Len(queue) < MaxQueueSize
  <2>1. queue' = Append(queue, x) /\ dropped' = dropped
    BY <1>1, <1>2 DEF Put
  <2>2. /\ Len(queue') = Len(queue) + 1
        /\ \A k \in 1 .. Len(queue) : queue'[k] = queue[k]
        /\ queue'[Len(queue) + 1] = x
    BY <1>1, <2>1, AppendProperties
  <2> QED BY <1>1, <1>2, <2>1, <2>2 DEF Appended
<1>3. CASE Len(queue) >= MaxQueueSize
  <2>1. /\ queue' = Append(Tail(queue), x) /\ dropped' = dropped \cup {Head(queue)}
        /\ queue # << >> /\ Len(queue) >= 1
    BY <1>1, <1>3 DEF Put
  <2>2. Head(queue) = queue[1]
    BY <1>1, <2>1
  <2>3. /\ Tail(queue) \in Seq(S) /\ Len(Tail(queue)) = Len(queue) - 1
        /\ \A i \in 1 .. Len(Tail(queue)) : Tail(queue)[i] = queue[i + 1]
    BY <1>1, <2>1, HeadTailProperties
  <2>4. /\ Len(queue') = Len(Tail(queue)) + 1
        /\ \A k \in 1 .. Len(Tail(queue)) : queue'[k] = Tail(queue)[k]
        /\ queue'[Len(Tail(queue)) + 1] = x
    BY <2>1, <2>3, AppendProperties
  <2>5. /\ Len(queue') = Len(queue) /\ queue'[Len(queue)] = x
        /\ \A k \in 1 .. Len(queue) - 1 : queue'[k] = queue[k + 1]
    BY <1>1, <2>3, <2>4
  <2>6. ~(Len(queue) < MaxQueueSize) /\ 1 \in 1 .. Len(queue)
    BY <1>1, <1>3
  <2>7. dropped' = dropped \cup {queue[1]}
    BY <2>1, <2>2
  <2> QED BY <1>3, <2>5, <2>6, <2>7 DEF Shifted
<1> QED BY <1>1, <1>2, <1>3

LEMMA EndStep ==
  ASSUME TypeOK, LockInv, GotInv, LimitInv, EndInv, [Next]_vars
  PROVE  EndInv'
<1>T. /\ QueueTypeOK /\ Len(queue) \in Nat /\ DOMAIN queue = 1 .. Len(queue)
      /\ DOMAIN queue' = 1 .. Len(queue')
      /\ MaxQueueSize \in Nat \ {0} /\ MaxConcurrent \in Nat /\ MaxConcurrent <= MaxQueueSize
      /\ running \in SUBSET Samples /\ IsFiniteSet(running) /\ Cardinality(running) \in Nat
      /\ Cardinality(running') \in Nat
  <2>1. QueueTypeOK /\ QueueTypeOK'
    BY TypeStep DEF TypeOK
  <2> QED BY <2>1, SamplesFinite, OutstandingStep, RollouterAssumption, TrainerAssumption
          DEF QueueTypeOK, TypeOK, RolloutTypeOK
<1>1. ASSUME NEW x \in Samples \cup {EndSignal}, Get(x), running' = running, proc' = proc
      PROVE  EndInv'
  <2>1. /\ queue' = Tail(queue) /\ dropped' = dropped /\ queue # << >>
    BY <1>1 DEF Get
  <2>2. /\ Len(queue') = Len(queue) - 1
        /\ \A k \in 1 .. Len(queue') : k + 1 \in 1 .. Len(queue) /\ queue'[k] = queue[k + 1]
    BY <1>T, <2>1, HeadTailProperties DEF QueueTypeOK
  <2>3. ASSUME NEW k \in DOMAIN queue', queue'[k] = EndSignal
        PROVE  proc' = "ended" /\ Len(queue') - k + Cardinality(running') < MaxQueueSize
    <3>1. k \in Nat /\ k + 1 \in DOMAIN queue /\ queue[k + 1] = EndSignal
      BY <1>T, <2>2, <2>3
    <3>2. proc = "ended" /\ Len(queue) - (k + 1) + Cardinality(running) < MaxQueueSize
      BY <3>1 DEF EndInv
    <3> QED BY <1>1, <1>T, <2>2, <3>1, <3>2
  <2> QED BY <2>1, <2>3 DEF EndInv, EndSignalKept
<1>2. CASE ProcEnd
  <2>1. /\ Put(EndSignal) /\ running' = running /\ proc' = "ended" /\ proc = "end"
    BY <1>2 DEF ProcEnd, taskVars
  <2>2. \A k \in DOMAIN queue : queue[k] # EndSignal
    BY <2>1 DEF EndInv
  <2>3. Cardinality(running') < MaxQueueSize
    BY <1>T, <2>1 DEF LimitInv
  <2>P. Appended(EndSignal) \/ Shifted(EndSignal)
    BY <1>T, <2>1, PutPositions
  <2>4. EndSignal \notin dropped'
    BY <1>T, <2>2, <2>P DEF EndInv, EndSignalKept, Appended, Shifted
  <2>5. ASSUME NEW k \in DOMAIN queue', queue'[k] = EndSignal
        PROVE  Len(queue') = k
    <3>1. CASE Appended(EndSignal)
      <4>1. k # Len(queue) + 1 => k \in DOMAIN queue /\ queue[k] = EndSignal
        BY <1>T, <2>5, <3>1 DEF Appended
      <4> QED BY <2>2, <3>1, <4>1 DEF Appended
    <3>2. CASE Shifted(EndSignal)
      <4>1. k # Len(queue) => k + 1 \in DOMAIN queue /\ queue[k + 1] = EndSignal
        BY <1>T, <2>5, <3>2 DEF Shifted
      <4> QED BY <2>2, <3>2, <4>1 DEF Shifted
    <3> QED BY <2>P, <3>1, <3>2
  <2>6. \A k \in DOMAIN queue' : k \in Nat
    BY <1>T
  <2> QED BY <1>T, <2>1, <2>3, <2>4, <2>5, <2>6 DEF EndInv, EndSignalKept
<1>3. ASSUME NEW x \in Samples, TaskPut(x)
      PROVE  EndInv'
  <2>1. Put(x) /\ x # EndSignal /\ proc' = proc
    BY <1>3, EndIsNoSample DEF TaskPut, procVars
  <2>2. Cardinality(running') = Cardinality(running) - 1
    BY <1>3, <1>T, FS_RemoveElement DEF TaskPut
  <2>P. \/ Len(queue) < MaxQueueSize /\ Appended(x)
        \/ Len(queue) >= MaxQueueSize /\ Shifted(x)
    BY <1>T, <2>1, PutPositions
  <2>3. ASSUME Len(queue) >= MaxQueueSize, 1 \in DOMAIN queue
        PROVE  queue[1] # EndSignal
    <3>1. queue[1] = EndSignal => Len(queue) - 1 + Cardinality(running) < MaxQueueSize
      BY <2>3 DEF EndInv
    <3> QED BY <1>T, <2>2, <2>3, <3>1
  <2>4. EndSignal \notin dropped'
    BY <1>T, <2>P, <2>3 DEF EndInv, EndSignalKept, Appended, Shifted
  <2>5. ASSUME NEW k \in DOMAIN queue', queue'[k] = EndSignal
        PROVE  proc' = "ended" /\ Len(queue') - k + Cardinality(running') < MaxQueueSize
    <3>1. CASE Appended(x)
      <4>1. k # Len(queue) + 1 /\ Len(queue') = Len(queue) + 1 /\ k \in Nat
        BY <1>T, <2>1, <2>5, <3>1 DEF Appended
      <4>2. k \in DOMAIN queue /\ queue[k] = EndSignal
        BY <1>T, <2>5, <3>1, <4>1 DEF Appended
      <4>3. proc = "ended" /\ Len(queue) - k + Cardinality(running) < MaxQueueSize
        BY <4>2 DEF EndInv
      <4> QED BY <1>T, <2>1, <2>2, <4>1, <4>3
    <3>2. CASE Shifted(x)
      <4>1. k # Len(queue) /\ Len(queue') = Len(queue) /\ k \in Nat
        BY <1>T, <2>1, <2>5, <3>2 DEF Shifted
      <4>2. k + 1 \in DOMAIN queue /\ queue[k + 1] = EndSignal
        BY <1>T, <2>5, <3>2, <4>1 DEF Shifted
      <4>3. proc = "ended" /\ Len(queue) - (k + 1) + Cardinality(running) < MaxQueueSize
        BY <4>2 DEF EndInv
      <4> QED BY <1>T, <2>1, <2>2, <4>1, <4>3
    <3> QED BY <2>P, <3>1, <3>2
  <2> QED BY <2>4, <2>5 DEF EndInv, EndSignalKept
<1>4. CASE ProcSubmit
  <2>1. queue' = queue /\ dropped' = dropped /\ proc = "submit"
    BY <1>4 DEF ProcSubmit, queueVars
  <2> QED BY <2>1 DEF EndInv, EndSignalKept
<1>5. ASSUME ~ProcSubmit, queue' = queue, dropped' = dropped
      PROVE  EndInv'
  <2>1. Cardinality(running') <= Cardinality(running)
    BY <1>5, OutstandingStep
  <2>2. proc = "ended" => proc' = "ended"
    BY RemoveTyped, NextActions DEF vars, queueVars, rolloutVars, trainVars, procVars, taskVars,
         monVars,
     Collect, Stop, Train, UpdateWeights, ResetCount, ResetSize, ResetSet,
     Feed, ProcCheck, ProcDecide, ProcPause, ProcWake, ProcResumed, ProcGet, ProcSubmit, ProcEnd,
     MonAsk, MonDecide, MonResume, TaskPut, TaskFail, TypeOK
  <2>3. ASSUME NEW k \in DOMAIN queue, queue[k] = EndSignal
        PROVE  proc' = "ended" /\ Len(queue') - k + Cardinality(running') < MaxQueueSize
    <3>1. proc = "ended" /\ Len(queue) - k + Cardinality(running) < MaxQueueSize /\ k \in Nat
      BY <1>T, <2>3 DEF EndInv
    <3> QED BY <1>5, <1>T, <2>1, <2>2, <3>1
  <2> QED BY <1>5, <2>3 DEF EndInv, EndSignalKept
<1>6. CASE Collect \/ Stop
  BY <1>1, <1>6 DEF Collect, Stop, rolloutVars, procVars, taskVars
<1>7. \/ Collect \/ Stop \/ ProcEnd \/ ProcSubmit
      \/ \E x \in Samples : TaskPut(x)
      \/ ~ProcSubmit /\ queue' = queue /\ dropped' = dropped
  BY RemoveTyped, NextActions DEF vars, queueVars, rolloutVars, trainVars, procVars, taskVars,
       monVars,
     Train, UpdateWeights, ResetCount, ResetSize, ResetSet,
     Feed, ProcCheck, ProcDecide, ProcPause, ProcWake, ProcResumed, ProcGet, ProcSubmit,
     MonAsk, MonDecide, MonResume, TaskFail, TypeOK
<1> QED BY <1>2, <1>3, <1>4, <1>5, <1>6, <1>7

(* The tasks, their limit and the end signal, along every behaviour.       *)
THEOREM EndInvariance == Spec => []EndIInv
<1>1. Init => EndIInv
  <2> SUFFICES ASSUME Init PROVE EndIInv
    OBVIOUS
  <2>1. running = {} /\ Active = {} /\ proc = "check" /\ queue = << >> /\ dropped = {}
    BY DEF Init, RolloutInit, QueueInit, Active
  <2>2. TaskInv /\ EndInv
    BY <2>1 DEF TaskInv, EndInv, EndSignalKept
  <2>3. LimitInv
    BY <2>1, FS_EmptySet, RollouterAssumption DEF LimitInv
  <2> QED BY <2>2, <2>3 DEF EndIInv
<1>2. IInv /\ EndIInv /\ [Next]_vars => EndIInv'
  BY TaskStep, LimitStep, EndStep DEF IInv, EndIInv
<1> QED BY Invariance, <1>1, <1>2, PTL DEF Spec

(* A task that raises ends the stream while others generate; none of these *)
(* pushes the end signal out of the queue, for any limit of concurrency    *)
(* that set_max_required_samples allows (fully_async_rollouter.py:442).    *)
THEOREM EndSignalNeverDropped == Spec => []EndSignalKept
<1>1. EndIInv => EndSignalKept
  BY DEF EndIInv, EndInv
<1> QED BY EndInvariance, <1>1, PTL

------------------------------------------------------------------------------
(* Where the samples are.  Each is generated once: what a task generates   *)
(* is not queued, and the queue holds no sample twice.                     *)
Before(x) == x <= got /\ (Holding => x # got)

OnceInv ==
  /\ running \cap Queued = {}
  /\ \A x \in Queued : Before(x)
  /\ \A j, k \in DOMAIN queue : queue[j] = queue[k] /\ queue[j] # EndSignal => j = k

(* Unless a task failed, a sample that was taken is held, generated, in    *)
(* the queue or further on; the stream ends after the last one, with no    *)
(* task left, so that nothing is queued behind the end signal.             *)
Somewhere == running \cup Queued \cup collected \cup trained \cup dropped

KeptInv ==
  /\ \A x \in Samples : x <= got => x \in Somewhere \/ (Holding /\ x = got)
  /\ proc = "finish" => got = EndSignal
  /\ proc \in {"end", "ended"} => got = EndSignal /\ running = {}
  /\ \A k \in DOMAIN queue : queue[k] = EndSignal => k = Len(queue)
  /\ stopped => proc = "ended" /\ queue = << >>

(* The samples of a version: collected since the last update, or in the    *)
(* batches trained on since.                                               *)
InReset == tpc \in {"update", "reset", "size", "set"}
Consumed == IF InReset THEN SamplesPerSync
            ELSE (localStep - 1) * RequiredSamples + Cardinality(collected)

TrainInv ==
  /\ tpc = "train" => Cardinality(collected) = RequiredSamples
  /\ InReset => localStep = 1 /\ collected = {}

Level == Outstanding + Consumed

(* What is outstanding and what the trainer has consumed together are what *)
(* staleness_samples counts, but for the one sample a reset may miss.      *)
LevelInv ==
  /\ Level <= staleness + 1
  /\ Holding => Level <= staleness
  /\ Level <= MaxRequired + 1
  /\ proc = "get" \/ Holding => Level <= MaxRequired

(* At threshold 0 it misses none: the samples of a version use up all that *)
(* may be outstanding, and the processor holds no sample at an update.     *)
TightInv ==
  /\ Level <= staleness
  /\ Holding => Level < staleness
  /\ Level <= MaxRequired
  /\ proc = "get" \/ Holding => Level < MaxRequired

Going == ~stopped

VersionInv ==
  Going => /\ TrainInv
           /\ LevelInv
           /\ MaxRequired = SamplesPerSync => TightInv

LEMMA PutKeeps ==
  ASSUME QueueTypeOK, NEW x \in Samples \cup {EndSignal}, Put(x)
  PROVE  /\ \A y \in Samples : y = x \/ y \in Queued \cup dropped => y \in Queued' \cup dropped'
         /\ \A y \in Queued' : y = x \/ y \in Queued
<1>1. /\ queue \in Seq(Samples \cup {EndSignal}) /\ Len(queue) \in Nat
      /\ DOMAIN queue = 1 .. Len(queue) /\ DOMAIN queue' = 1 .. Len(queue')
      /\ EndSignal \notin Samples
  BY PutQueue, EndIsNoSample DEF QueueTypeOK
<1>2. CASE Appended(x)
  <2>1. x \in {queue'[k] : k \in DOMAIN queue'}
    BY <1>1, <1>2 DEF Appended
  <2>2. \A k \in DOMAIN queue : k \in DOMAIN queue' /\ queue'[k] = queue[k]
    BY <1>1, <1>2 DEF Appended
  <2>3. \A k \in DOMAIN queue' : queue'[k] = x \/ (k \in DOMAIN queue /\ queue'[k] = queue[k])
    BY <1>1, <1>2 DEF Appended
  <2> QED BY <1>1, <1>2, <2>1, <2>2, <2>3 DEF Queued, Appended
<1>3. CASE Shifted(x)
  <2>1. x \in {queue'[k] : k \in DOMAIN queue'}
    BY <1>1, <1>3 DEF Shifted
  <2>2. ASSUME NEW k \in DOMAIN queue
        PROVE  queue[k] \in dropped' \/ (k - 1 \in DOMAIN queue' /\ queue'[k - 1] = queue[k])
    <3>1. CASE k = 1
      BY <1>3, <3>1 DEF Shifted
    <3>2. CASE k # 1
      <4>1. k - 1 \in 1 .. Len(queue) - 1 /\ (k - 1) + 1 = k /\ k - 1 \in DOMAIN queue'
        BY <1>1, <1>3, <3>2 DEF Shifted
      <4> QED BY <1>3, <4>1 DEF Shifted
    <3> QED BY <3>1, <3>2
  <2>3. \A k \in DOMAIN queue' : queue'[k] = x \/ (k + 1 \in DOMAIN queue /\ queue'[k] = queue[k + 1])
    BY <1>1, <1>3 DEF Shifted
  <2> QED BY <1>1, <1>3, <2>1, <2>2, <2>3 DEF Queued, Shifted
<1> QED BY <1>2, <1>3, PutPositions

LEMMA GetKeeps ==
  ASSUME QueueTypeOK, NEW x \in Samples \cup {EndSignal}, Get(x)
  PROVE  /\ Len(queue) \in Nat \ {0} /\ Len(queue') = Len(queue) - 1
         /\ 1 \in DOMAIN queue /\ queue[1] = x
         /\ \A k \in DOMAIN queue' : k + 1 \in DOMAIN queue /\ queue'[k] = queue[k + 1]
         /\ \A y \in Queued : y = x \/ y \in Queued'
         /\ dropped' = dropped
<1>1. /\ queue \in Seq(Samples \cup {EndSignal}) /\ queue # << >> /\ Len(queue) \in Nat
      /\ queue' = Tail(queue) /\ dropped' = dropped /\ x = Head(queue)
  BY DEF QueueTypeOK, Get
<1>2. /\ queue' \in Seq(Samples \cup {EndSignal}) /\ Len(queue') = Len(queue) - 1
      /\ \A i \in 1 .. Len(queue') : queue'[i] = queue[i + 1]
      /\ Head(queue) = queue[1] /\ Len(queue) # 0
  BY <1>1, HeadTailProperties
<1>3. DOMAIN queue = 1 .. Len(queue) /\ DOMAIN queue' = 1 .. Len(queue')
  BY <1>1, <1>2
<1>4. \A k \in DOMAIN queue' : k + 1 \in DOMAIN queue /\ queue'[k] = queue[k + 1]
  BY <1>1, <1>2, <1>3
<1>5. \A k \in DOMAIN queue : k = 1 \/ (k - 1 \in DOMAIN queue' /\ queue'[k - 1] = queue[k])
  BY <1>1, <1>2, <1>3
<1>6. ASSUME NEW y \in Queued PROVE y = x \/ y \in Queued'
  <2>1. PICK k \in DOMAIN queue : y = queue[k] /\ y # EndSignal
    BY DEF Queued
  <2>2. CASE k = 1
    BY <1>1, <1>2, <2>1, <2>2
  <2>3. CASE k - 1 \in DOMAIN queue' /\ queue'[k - 1] = queue[k]
    BY <2>1, <2>3 DEF Queued
  <2> QED BY <1>5, <2>2, <2>3
<1> QED BY <1>1, <1>2, <1>3, <1>4, <1>6

(* What moves samples; every other step leaves them where they are.        *)
LEMMA SampleActions ==
  ASSUME TypeOK, [Next]_vars
  PROVE  \/ ProcGet \/ ProcSubmit \/ ProcEnd \/ ProcReap \/ ProcFinish
         \/ Collect \/ Stop \/ Train
         \/ \E x \in Samples : TaskPut(x) \/ TaskFail(x)
         \/ /\ UNCHANGED <<queue, dropped, running, got, failed, collected, trained, stopped>>
            /\ Holding' = Holding
            /\ proc' = "finish" => proc = "finish"
            /\ proc = "ended" => proc' = "ended"
            /\ failed = {} /\ proc' \in {"end", "ended"} => proc \in {"end", "ended"}
<1>1. ASSUME ProcDrain
      PROVE  /\ UNCHANGED <<queue, dropped, running, got, failed, collected, trained, stopped>>
             /\ proc = "wake" /\ proc' \in {"drain", "end"} /\ (failed = {} => proc' = "drain")
  <2>1. UNCHANGED trainVars
    BY <1>1, NextActions DEF ProcDrain, RemoveDone, vars, rolloutVars, procVars, Collect, Stop,
       Train, UpdateWeights, ResetCount, ResetSize, ResetSet
  <2> QED BY <1>1, <2>1 DEF ProcDrain, RemoveDone, queueVars, trainVars
<1>2. CASE ProcDrain
  BY <1>1, <1>2 DEF Holding
<1>3. CASE \/ Feed \/ ProcCheck \/ ProcDecide \/ ProcPause \/ ProcWake \/ ProcResumed
           \/ MonAsk \/ MonDecide \/ MonResume
  <2>1. UNCHANGED trainVars \/ UpdateWeights \/ ResetCount \/ ResetSize \/ ResetSet
           \/ Collect \/ Stop \/ Train
    BY NextActions DEF vars
  <2>2. UNCHANGED <<collected, trained, stopped>> \/ Collect \/ Stop \/ Train
    BY <2>1 DEF trainVars, UpdateWeights, ResetCount, ResetSize, ResetSet
  <2> QED BY <1>3, <2>2 DEF Feed, ProcCheck, ProcDecide, ProcPause, ProcWake, ProcResumed,
       MonAsk, MonDecide, MonResume, queueVars, procVars, taskVars, monVars, Holding
<1>4. CASE UpdateWeights \/ ResetCount \/ ResetSize \/ ResetSet
  BY <1>4 DEF UpdateWeights, ResetCount, ResetSize, ResetSet, queueVars, rolloutVars, procVars,
     taskVars, monVars, Holding
<1>5. CASE UNCHANGED vars
  BY <1>5 DEF vars, queueVars, rolloutVars, trainVars, procVars, taskVars, monVars, Holding
<1> QED BY <1>2, <1>3, <1>4, <1>5, NextActions

LEMMA OnceStep ==
  ASSUME TypeOK, GotInv, TaskInv, OnceInv, [Next]_vars
  PROVE  OnceInv'
<1>T. /\ QueueTypeOK /\ Len(queue) \in Nat /\ DOMAIN queue = 1 .. Len(queue)
      /\ running \in SUBSET Samples /\ got \in Nat /\ EndSignal \notin Samples
      /\ Queued \in SUBSET Samples /\ Samples \subseteq Nat
  BY EndIsNoSample, QueuedBound, TasksFinite DEF TypeOK, RolloutTypeOK, QueueTypeOK
<1>1. CASE ProcGet
  <2>1. /\ UNCHANGED <<queue, running>> /\ got' = got + 1 /\ Queued' = Queued
    BY <1>1 DEF ProcGet, queueVars, taskVars, Queued
  <2>2. \A x \in Queued : x <= got' /\ x # got'
    BY <1>T, <2>1 DEF OnceInv, Before
  <2> QED BY <2>1, <2>2 DEF OnceInv, Before
<1>2. CASE ProcSubmit
  <2>1. /\ queue' = queue /\ running' = running \cup {got} /\ got' = got /\ Queued' = Queued
        /\ Holding /\ ~Holding'
    BY <1>2 DEF ProcSubmit, queueVars, Queued, Holding
  <2> QED BY <2>1 DEF OnceInv, Before
<1>3. ASSUME NEW x \in Samples \cup {EndSignal}, Put(x), x \notin Queued, running' = running \ {x},
             got' = got, Holding' => Holding, x \in Samples => Before(x)
      PROVE  OnceInv'
  <2>1. \A y \in Queued' : y = x \/ y \in Queued
    BY <1>T, <1>3, PutKeeps
  <2>2. running' \cap Queued' = {}
    BY <1>3, <2>1 DEF OnceInv
  <2>3. \A y \in Queued' : Before(y)'
    BY <1>3, <1>T, <2>1 DEF OnceInv, Before, Queued
  <2>4. \A k \in DOMAIN queue : queue[k] = x => x = EndSignal
    BY <1>3 DEF Queued
  <2>5. ASSUME NEW j \in DOMAIN queue', NEW k \in DOMAIN queue', queue'[j] = queue'[k],
               queue'[j] # EndSignal
        PROVE  j = k
    <3>0. DOMAIN queue' = 1 .. Len(queue')
      BY <1>T, <1>3, PutQueue DEF QueueTypeOK
    <3>1. CASE Appended(x)
      <4>1. \A i \in DOMAIN queue' : \/ i \in DOMAIN queue /\ queue'[i] = queue[i]
                                     \/ i = Len(queue) + 1 /\ queue'[i] = x
        BY <1>T, <3>0, <3>1 DEF Appended
      <4> QED BY <2>4, <2>5, <4>1 DEF OnceInv
    <3>2. CASE Shifted(x)
      <4>1. \A i \in DOMAIN queue' : \/ i + 1 \in DOMAIN queue /\ queue'[i] = queue[i + 1]
                                     \/ i = Len(queue) /\ queue'[i] = x
        BY <1>T, <3>0, <3>2 DEF Shifted
      <4>2. j \in Nat /\ k \in Nat
        BY <1>T, <3>0, <3>2 DEF Shifted
      <4>3. CASE j + 1 \in DOMAIN queue /\ queue'[j] = queue[j + 1]
                 /\ k + 1 \in DOMAIN queue /\ queue'[k] = queue[k + 1]
        <5>1. j + 1 = k + 1
          BY <2>5, <4>3 DEF OnceInv
        <5> QED BY <4>2, <5>1
      <4> QED BY <2>4, <2>5, <4>1, <4>3
    <3> QED BY <1>3, <1>T, <3>1, <3>2, PutPositions
  <2> QED BY <2>2, <2>3, <2>5 DEF OnceInv
<1>4. ASSUME NEW x \in Samples, TaskPut(x)
      PROVE  OnceInv'
  <2>1. /\ Put(x) /\ x \in running /\ running' = running \ {x} /\ got' = got
        /\ Holding' = Holding
    BY <1>4 DEF TaskPut, procVars, Holding
  <2>2. Before(x) /\ x \notin Queued
    BY <2>1 DEF TaskInv, OnceInv, Active, Before
  <2> QED BY <1>3, <2>1, <2>2
<1>5. CASE ProcEnd
  <2>1. /\ Put(EndSignal) /\ running' = running /\ got' = got /\ ~Holding'
    BY <1>5 DEF ProcEnd, taskVars, Holding
  <2>2. EndSignal \notin Queued /\ running' = running \ {EndSignal}
    BY <1>T, <2>1
  <2> QED BY <1>3, <1>T, <2>1, <2>2
<1>6. CASE Collect \/ Stop
  <2>1. PICK x \in Samples \cup {EndSignal} : Get(x)
    BY <1>6 DEF Collect, Stop
  <2>2. /\ running' = running /\ got' = got /\ Holding' = Holding
    BY <1>6 DEF Collect, Stop, rolloutVars, procVars, taskVars, Holding
  <2>3. Queued' \subseteq Queued
    BY <1>T, <2>1, GetQueue
  <2>4. DOMAIN queue' \subseteq Nat
        /\ \A k \in DOMAIN queue' : k + 1 \in DOMAIN queue /\ queue'[k] = queue[k + 1]
    <3>1. queue' \in Seq(Samples \cup {EndSignal})
      BY <1>T, <2>1, GetQueue DEF QueueTypeOK
    <3>2. DOMAIN queue' \subseteq Nat
      BY <3>1
    <3> QED BY <1>T, <2>1, <3>2, GetKeeps
  <2>5. ASSUME NEW j \in DOMAIN queue', NEW k \in DOMAIN queue', queue'[j] = queue'[k],
               queue'[j] # EndSignal
        PROVE  j = k
    <3>1. j + 1 = k + 1
      BY <2>4, <2>5 DEF OnceInv
    <3> QED BY <2>4, <3>1
  <2> QED BY <2>2, <2>3, <2>5 DEF OnceInv, Before
<1>7. ASSUME running' \subseteq running, queue' = queue, got' = got, Holding' => Holding
      PROVE  OnceInv'
  BY <1>7 DEF OnceInv, Before, Queued
<1>8. CASE ProcReap \/ ProcFinish
  <2>1. /\ running' \subseteq running /\ queue' = queue /\ got' = got
    BY <1>8 DEF ProcReap, ProcFinish, RemoveDone, queueVars
  <2>2. Holding' => Holding
    BY <1>8, RemoveTyped DEF Holding, TypeOK
  <2> QED BY <1>7, <2>1, <2>2
<1>9. CASE Train \/ \E x \in Samples : TaskFail(x)
  <2>1. /\ running' \subseteq running /\ queue' = queue /\ got' = got /\ Holding' = Holding
    BY <1>9 DEF Train, TaskFail, queueVars, rolloutVars, procVars, taskVars, Holding
  <2> QED BY <1>7, <2>1
<1> QED BY <1>1, <1>2, <1>4, <1>5, <1>6, <1>7, <1>8, <1>9, SampleActions

LEMMA KeptStep ==
  ASSUME TypeOK, GotInv, TaskInv, EndInv, KeptInv, [Next]_vars, failed' = {}
  PROVE  KeptInv'
<1>T. /\ QueueTypeOK /\ Len(queue) \in Nat /\ DOMAIN queue = 1 .. Len(queue)
      /\ running \in SUBSET Samples /\ got \in Nat /\ EndSignal \notin Samples
      /\ Queued \in SUBSET Samples /\ Samples \subseteq Nat /\ EndSignal \in Nat
      /\ got \in 0 .. EndSignal
  BY EndIsNoSample, QueuedBound, TasksFinite DEF TypeOK, RolloutTypeOK, QueueTypeOK
<1>F. failed = {}
  BY NextActions DEF vars, rolloutVars, taskVars, Collect, Stop, Train, UpdateWeights, ResetCount,
     ResetSize, ResetSet, Feed, ProcCheck, ProcDecide, ProcPause, ProcWake, ProcDrain, ProcResumed,
     ProcGet, ProcReap, ProcFinish, ProcSubmit, ProcEnd, MonAsk, MonDecide, MonResume,
     TaskPut, TaskFail, RemoveDone
<1>1. CASE ProcGet
  <2>1. /\ UNCHANGED <<queue, dropped, running, finished, collected, trained, stopped>>
        /\ got' = got + 1 /\ ~Holding /\ proc = "get"
        /\ proc' \in {"end", "finish"} => got' = EndSignal
        /\ proc' = "end" => Active = {}
        /\ proc' \in {"end", "finish"} \/ Holding'
        /\ proc' # "ended"
    <3>1. UNCHANGED trainVars
      BY <1>1, NextActions DEF ProcGet, vars, rolloutVars, procVars, Collect, Stop,
         Train, UpdateWeights, ResetCount, ResetSize, ResetSet
    <3> QED BY <1>1, <3>1 DEF ProcGet, queueVars, taskVars, trainVars, Holding
  <2>2. Somewhere' = Somewhere
    BY <2>1 DEF Somewhere, Queued
  <2>3. ASSUME NEW x \in Samples, x <= got'
        PROVE  x \in Somewhere' \/ (Holding' /\ x = got')
    <3>1. CASE x <= got
      BY <2>1, <2>2, <3>1 DEF KeptInv
    <3>2. CASE x = got'
      <4>1. got' # EndSignal
        BY <1>T, <3>2
      <4> QED BY <2>1, <3>2, <4>1
    <3>3. x \in Nat
      BY <1>T
    <3> QED BY <1>T, <2>1, <2>3, <3>1, <3>2, <3>3
  <2>4. running' = {} \/ proc' # "end"
    BY <2>1 DEF Active
  <2> QED BY <2>1, <2>3, <2>4 DEF KeptInv
<1>2. CASE ProcSubmit
  <2>1. /\ UNCHANGED <<queue, dropped, collected, trained, stopped>>
        /\ running' = running \cup {got} /\ got' = got /\ proc' = "check" /\ proc = "submit"
    <3>1. UNCHANGED trainVars
      BY <1>2, NextActions DEF ProcSubmit, vars, rolloutVars, procVars, Collect, Stop,
         Train, UpdateWeights, ResetCount, ResetSize, ResetSet
    <3> QED BY <1>2, <3>1 DEF ProcSubmit, queueVars, trainVars
  <2>2. Somewhere' = Somewhere \cup {got}
    BY <2>1 DEF Somewhere, Queued
  <2> QED BY <2>1, <2>2 DEF KeptInv
<1>3. ASSUME NEW x \in Samples \cup {EndSignal}, Put(x), running' = running \ {x}, got' = got,
             UNCHANGED <<collected, trained, stopped>>, Holding' = Holding,
             x \in running \/ (x = EndSignal /\ proc = "end" /\ proc' = "ended"),
             x \in running => proc' = proc
      PROVE  KeptInv'
  <2>1. \A y \in Samples : y = x \/ y \in Queued \cup dropped => y \in Queued' \cup dropped'
    BY <1>T, <1>3, PutKeeps
  <2>2. ASSUME NEW y \in Samples, y <= got'
        PROVE  y \in Somewhere' \/ (Holding' /\ y = got')
    BY <1>3, <2>1, <2>2 DEF KeptInv, Somewhere
  <2>3. \A k \in DOMAIN queue : queue[k] # EndSignal
    BY <1>3 DEF EndInv, KeptInv
  <2>4. DOMAIN queue' = 1 .. Len(queue')
    BY <1>T, <1>3, PutQueue DEF QueueTypeOK
  <2>5. ASSUME NEW k \in DOMAIN queue', queue'[k] = EndSignal
        PROVE  k = Len(queue')
    <3>1. CASE Appended(x)
      <4>1. (k \in DOMAIN queue /\ queue'[k] = queue[k]) \/ k = Len(queue')
        BY <1>T, <2>4, <3>1 DEF Appended
      <4> QED BY <2>3, <2>5, <4>1
    <3>2. CASE Shifted(x)
      <4>1. (k + 1 \in DOMAIN queue /\ queue'[k] = queue[k + 1]) \/ k = Len(queue')
        BY <1>T, <2>4, <3>2 DEF Shifted
      <4> QED BY <2>3, <2>5, <4>1
    <3> QED BY <1>3, <1>T, <3>1, <3>2, PutPositions
  <2>6. stopped => FALSE
    BY <1>3 DEF KeptInv
  <2>7. proc' \in {"end", "ended"} => got' = EndSignal /\ running' = {}
    BY <1>3 DEF KeptInv
  <2>8. proc' = "finish" => got' = EndSignal
    BY <1>3 DEF KeptInv
  <2> QED BY <1>3, <2>2, <2>5, <2>6, <2>7, <2>8 DEF KeptInv
<1>4. ASSUME NEW x \in Samples, TaskPut(x)
      PROVE  KeptInv'
  <2>1. UNCHANGED trainVars
    BY <1>4, NextActions DEF TaskPut, vars, rolloutVars, taskVars, Collect, Stop,
       Train, UpdateWeights, ResetCount, ResetSize, ResetSet
  <2>2. /\ Put(x) /\ x \in running /\ running' = running \ {x} /\ got' = got
        /\ Holding' = Holding /\ proc' = proc /\ UNCHANGED <<collected, trained, stopped>>
    BY <1>4, <2>1 DEF TaskPut, procVars, Holding, trainVars
  <2> QED BY <1>3, <2>2
<1>5. CASE ProcEnd
  <2>1. UNCHANGED trainVars
    BY <1>5, NextActions DEF ProcEnd, vars, rolloutVars, procVars, Collect, Stop,
       Train, UpdateWeights, ResetCount, ResetSize, ResetSet
  <2>2. /\ Put(EndSignal) /\ running' = running /\ got' = got /\ Holding' = Holding
        /\ proc = "end" /\ proc' = "ended" /\ UNCHANGED <<collected, trained, stopped>>
    BY <1>5, <2>1 DEF ProcEnd, taskVars, Holding, trainVars
  <2>3. running' = running \ {EndSignal} /\ EndSignal \notin running
    BY <1>T, <2>2
  <2> QED BY <1>3, <2>2, <2>3
<1>6. ASSUME NEW x \in Samples \cup {EndSignal}, Get(x), UNCHANGED <<running, got, proc, trained>>,
             x \in collected' \/ x = EndSignal, collected \subseteq collected',
             stopped' => x = EndSignal \/ stopped
      PROVE  KeptInv'
  <2>1. /\ Len(queue) \in Nat \ {0} /\ Len(queue') = Len(queue) - 1
        /\ 1 \in DOMAIN queue /\ queue[1] = x
        /\ \A k \in DOMAIN queue' : k + 1 \in DOMAIN queue /\ queue'[k] = queue[k + 1]
        /\ \A y \in Queued : y = x \/ y \in Queued'
        /\ dropped' = dropped
    BY <1>T, <1>6, GetKeeps
  <2>2. queue' \in Seq(Samples \cup {EndSignal}) /\ DOMAIN queue' \subseteq Nat
    <3>1. queue' \in Seq(Samples \cup {EndSignal})
      BY <1>T, <1>6, GetQueue DEF QueueTypeOK
    <3> QED BY <3>1
  <2>3. \A y \in Samples : y \in Somewhere => y \in Somewhere'
    BY <1>6, <1>T, <2>1 DEF Somewhere
  <2>4. ASSUME NEW k \in DOMAIN queue', queue'[k] = EndSignal
        PROVE  k = Len(queue')
    <3>1. k + 1 = Len(queue)
      BY <2>1, <2>4 DEF KeptInv
    <3> QED BY <2>1, <2>2, <3>1
  <2>5. ASSUME x = EndSignal PROVE proc = "ended" /\ queue' = << >>
    <3>1. 1 = Len(queue) /\ proc = "ended"
      BY <2>1, <2>5 DEF KeptInv, EndInv
    <3>2. Len(queue') = 0
      BY <2>1, <3>1
    <3> QED BY <2>2, <3>1, <3>2, EmptySeq
  <2>6. ~stopped
    BY <1>6 DEF KeptInv, Get
  <2> QED BY <1>6, <2>3, <2>4, <2>5, <2>6 DEF KeptInv, Holding
<1>7. CASE Collect
  <2>1. PICK x \in Samples : Get(x) /\ collected' = collected \cup {x}
    BY <1>7 DEF Collect
  <2>2. UNCHANGED <<running, got, proc, trained, stopped>>
    BY <1>7 DEF Collect, rolloutVars, procVars, taskVars
  <2> QED BY <1>6, <2>1, <2>2
<1>8. CASE Stop
  <2>1. Get(EndSignal) /\ UNCHANGED <<running, got, proc, trained, collected>>
    BY <1>8 DEF Stop, rolloutVars, procVars, taskVars
  <2> QED BY <1>6, <2>1
<1>9. CASE Train
  <2>1. /\ UNCHANGED <<queue, dropped, running, got, proc, stopped>>
        /\ trained' = trained \cup collected
    BY <1>9 DEF Train, queueVars, rolloutVars, procVars, taskVars
  <2>2. Somewhere \subseteq Somewhere'
    BY <2>1 DEF Somewhere, Queued
  <2> QED BY <2>1, <2>2 DEF KeptInv, Holding
<1>10. CASE ProcReap \/ ProcFinish
  <2>1. UNCHANGED trainVars
    BY <1>10, NextActions DEF ProcReap, ProcFinish, RemoveDone, vars, rolloutVars, procVars,
         taskVars,
       Collect, Stop, Train, UpdateWeights, ResetCount, ResetSize, ResetSet
  <2>2. /\ UNCHANGED <<queue, dropped, running, got, collected, trained, stopped>>
    BY <1>10, <2>1 DEF ProcReap, ProcFinish, RemoveDone, queueVars, trainVars
  <2>3. Somewhere' = Somewhere
    BY <2>2 DEF Somewhere, Queued
  <2>4. CASE ProcReap
    <3>1. PICK D \in SUBSET finished :
            RemoveDone(D, IF Cardinality(Active \ D) >= MaxConcurrent THEN "reap" ELSE "submit")
      BY <2>4 DEF ProcReap
    <3>2. Holding /\ Holding' /\ proc' \in {"reap", "submit"} /\ proc = "reap"
      BY <1>F, <2>4, <3>1 DEF ProcReap, RemoveDone, Holding
    <3> QED BY <2>2, <2>3, <3>2 DEF KeptInv
  <2>5. CASE ProcFinish
    <3>1. PICK D \in SUBSET finished : RemoveDone(D, IF Active \ D = {} THEN "end" ELSE "finish")
      BY <2>5 DEF ProcFinish
    <3>2. /\ ~Holding /\ ~Holding' /\ proc' \in {"end", "finish"} /\ proc = "finish"
          /\ proc' = "end" => Active \ D = {}
      BY <1>F, <2>5, <3>1 DEF ProcFinish, RemoveDone, Holding
    <3>3. proc' = "end" => running = {}
      BY <3>2 DEF Active, TaskInv
    <3> QED BY <2>2, <2>3, <3>2, <3>3 DEF KeptInv
  <2> QED BY <1>10, <2>4, <2>5
<1>11. ASSUME NEW x \in Samples, TaskFail(x)
       PROVE  FALSE
  BY <1>11 DEF TaskFail
<1>12. CASE /\ UNCHANGED <<queue, dropped, running, got, failed, collected, trained, stopped>>
            /\ Holding' = Holding
            /\ proc' = "finish" => proc = "finish"
            /\ proc = "ended" => proc' = "ended"
            /\ failed = {} /\ proc' \in {"end", "ended"} => proc \in {"end", "ended"}
  <2>1. Somewhere' = Somewhere
    BY <1>12 DEF Somewhere, Queued
  <2> QED BY <1>12, <1>F, <2>1 DEF KeptInv
<1> QED BY <1>1, <1>2, <1>4, <1>5, <1>7, <1>8, <1>9, <1>10, <1>11, <1>12, SampleActions

(* A training that ended without a failed task has trained on every sample *)
(* but the last few and those the queue dropped: nothing is overtaken by   *)
(* the end signal (fully_async_rollouter.py:804-813).                      *)
THEOREM NothingOvertaken == Spec => []AllTrained
<1>1. Init => OnceInv /\ (failed = {} => KeptInv)
  <2> SUFFICES ASSUME Init PROVE OnceInv /\ KeptInv
    OBVIOUS
  <2>1. running = {} /\ Queued = {} /\ got = 0 /\ proc = "check" /\ queue = << >> /\ stopped = FALSE
    BY DEF Init, RolloutInit, QueueInit, Queued
  <2>2. \A x \in Samples : ~(x <= 0)
    BY QueueAssumption DEF Samples
  <2> QED BY <2>1, <2>2 DEF OnceInv, KeptInv
<1>2. IInv /\ EndIInv /\ (failed = {} => KeptInv) /\ [Next]_vars => (failed = {} => KeptInv)'
  <2>1. TypeOK /\ [Next]_vars /\ failed' = {} => failed = {}
    BY NextActions DEF vars, rolloutVars, taskVars, Collect, Stop, Train, UpdateWeights,
         ResetCount,
       ResetSize, ResetSet, Feed, ProcCheck, ProcDecide, ProcPause, ProcWake, ProcDrain, ProcResumed,
       ProcGet, ProcReap, ProcFinish, ProcSubmit, ProcEnd, MonAsk, MonDecide, MonResume,
       TaskPut, TaskFail, RemoveDone
  <2> QED BY <2>1, KeptStep DEF IInv, EndIInv
<1>3. IInv /\ EndIInv /\ (failed = {} => KeptInv) => AllTrained
  <2> SUFFICES ASSUME IInv, EndInv, KeptInv, stopped PROVE trained \cup collected \cup dropped = Samples
    BY DEF AllTrained, EndIInv
  <2>1. proc = "ended" /\ got = EndSignal /\ running = {} /\ Queued = {} /\ ~Holding
    BY DEF KeptInv, Queued, Holding
  <2>2. \A x \in Samples : x <= EndSignal
    BY QueueAssumption DEF Samples, EndSignal
  <2>3. Samples \subseteq trained \cup collected \cup dropped
    BY <2>1, <2>2 DEF KeptInv, Somewhere
  <2>4. trained \cup collected \cup dropped \subseteq Samples
    BY DEF IInv, TypeOK, QueueTypeOK, EndInv, EndSignalKept
  <2> QED BY <2>3, <2>4
<1> QED BY Invariance, EndInvariance, <1>1, <1>2, <1>3, PTL DEF Spec
------------------------------------------------------------------------------
LEMMA Versions ==
  /\ RequiredSamples \in Nat \ {0} /\ SyncEvery \in Nat \ {0} /\ SamplesPerSync \in Nat
  /\ MaxRequired \in Nat /\ MaxRequired >= SamplesPerSync
<1>1. RequiredSamples * SyncEvery \in Nat
  BY TrainerAssumption
<1> QED BY <1>1, TrainerAssumption, RollouterAssumption DEF SamplesPerSync

(* A sample that is collected is no longer queued.                         *)
LEMMA CollectLowers ==
  ASSUME TypeOK, OnceInv, Collect
  PROVE  /\ Outstanding \in Nat /\ Outstanding' \in Nat /\ Outstanding' <= Outstanding - 1
         /\ running' = running
<1>1. /\ QueueTypeOK /\ running \in SUBSET Samples /\ EndSignal \notin Samples
      /\ Queued \in SUBSET Samples /\ IsFiniteSet(Queued) /\ Cardinality(Queued) \in Nat
      /\ Cardinality(running) \in Nat
  BY EndIsNoSample, QueuedBound, SamplesFinite DEF TypeOK, RolloutTypeOK
<1>2. PICK x \in Samples : Get(x)
  BY DEF Collect
<1>3. /\ 1 \in DOMAIN queue /\ queue[1] = x
      /\ \A k \in DOMAIN queue' : k + 1 \in DOMAIN queue /\ queue'[k] = queue[k + 1]
  BY <1>1, <1>2, GetKeeps
<1>4. DOMAIN queue' \subseteq Nat \ {0}
  <2>1. queue' \in Seq(Samples \cup {EndSignal})
    BY <1>1, <1>2, GetQueue DEF QueueTypeOK
  <2> QED BY <2>1
<1>5. \A k \in DOMAIN queue' : queue'[k] # x
  <2>1. \A k \in DOMAIN queue' : k + 1 # 1
    BY <1>4
  <2> QED BY <1>1, <1>3, <2>1 DEF OnceInv
<1>6. x \in Queued /\ Queued' \in SUBSET (Queued \ {x})
  BY <1>1, <1>2, <1>3, <1>5, GetQueue DEF Queued
<1>7. /\ IsFiniteSet(Queued \ {x}) /\ Cardinality(Queued \ {x}) = Cardinality(Queued) - 1
      /\ IsFiniteSet(Queued') /\ Cardinality(Queued') <= Cardinality(Queued \ {x})
      /\ Cardinality(Queued') \in Nat
  BY <1>1, <1>6, FS_RemoveElement, FS_Subset, FS_CardinalityType
<1>8. running' = running
  BY DEF Collect, rolloutVars, taskVars
<1> QED BY <1>1, <1>7, <1>8 DEF Outstanding

LEMMA ConsumedStep ==
  ASSUME TypeOK, TrainInv, [Next]_vars, Going'
  PROVE  /\ TrainInv' /\ Going
         /\ Consumed \in Nat /\ Consumed' \in Nat
         /\ Collect => Consumed' <= Consumed + 1
         /\ ~Collect /\ ~ResetSet => Consumed' = Consumed
         /\ ResetSet => Consumed' = 0
         /\ tpc = "set" => Consumed = SamplesPerSync
<1>T. /\ localStep \in Nat \ {0} /\ localStep <= SyncEvery
      /\ IsFiniteSet(collected) /\ Cardinality(collected) \in Nat
  BY SamplesFinite, Versions DEF TypeOK
<1>0. Consumed \in Nat
  <2>1. (localStep - 1) * RequiredSamples \in Nat
    BY <1>T, Versions
  <2> QED BY <1>T, <2>1, Versions DEF Consumed
<1>1. CASE Collect
  <2>1. PICK x \in Samples : /\ collected' = collected \cup {x}
                             /\ tpc' = IF Cardinality(collected') = RequiredSamples
                                       THEN "train" ELSE "collect"
    BY <1>1 DEF Collect
  <2>2. /\ Cardinality(collected') \in Nat
        /\ Cardinality(collected') <= Cardinality(collected) + 1
    <3>1. /\ IsFiniteSet(collected')
          /\ Cardinality(collected') = IF x \in collected THEN Cardinality(collected)
                                                        ELSE Cardinality(collected) + 1
      BY <1>T, <2>1, FS_AddElement
    <3> QED BY <1>T, <3>1
  <2>3. localStep' = localStep /\ stopped' = stopped /\ tpc = "collect"
    BY <1>1 DEF Collect
  <2>4. (localStep - 1) * RequiredSamples \in Nat
    BY <1>T, Versions
  <2>5. TrainInv'
    BY <2>1 DEF TrainInv, InReset
  <2>6. /\ Consumed = (localStep - 1) * RequiredSamples + Cardinality(collected)
        /\ Consumed' = (localStep - 1) * RequiredSamples + Cardinality(collected')
    BY <2>1, <2>3 DEF Consumed, InReset
  <2>7. Consumed' \in Nat /\ Consumed' <= Consumed + 1
    BY <1>T, <2>2, <2>4, <2>6
  <2> QED BY <1>0, <1>1, <2>3, <2>5, <2>7 DEF ResetSet, Going
<1>2. CASE Train
  <2>1. /\ tpc = "train" /\ collected' = {} /\ Cardinality(collected) = RequiredSamples
        /\ \/ /\ localStep < SyncEvery /\ localStep' = localStep + 1 /\ tpc' = "collect"
           \/ /\ ~(localStep < SyncEvery) /\ localStep' = 1 /\ tpc' = "update"
        /\ stopped' = stopped
    BY <1>2 DEF Train, TrainInv
  <2>2. (localStep - 1) * RequiredSamples + RequiredSamples = localStep * RequiredSamples
    BY <1>T, Versions
  <2>3. Consumed = localStep * RequiredSamples
    BY <2>1, <2>2 DEF Consumed, InReset
  <2>4. Cardinality(collected') = 0
    BY <2>1, FS_EmptySet
  <2>5. CASE tpc' = "collect"
    <3>1. localStep' - 1 = localStep
      BY <1>T, <2>1, <2>5
    <3>2. Consumed' = localStep * RequiredSamples + 0
      BY <2>4, <2>5, <3>1 DEF Consumed, InReset
    <3> QED BY <1>0, <2>1, <2>3, <2>5, <3>2 DEF TrainInv, InReset, Collect, ResetSet, Going
  <2>6. CASE tpc' = "update"
    <3>1. localStep = SyncEvery
      BY <1>T, <2>1, <2>6, Versions
    <3>2. localStep * RequiredSamples = SamplesPerSync
      BY <3>1, Versions DEF SamplesPerSync
    <3>3. Consumed' = SamplesPerSync
      BY <2>6 DEF Consumed, InReset
    <3> QED BY <1>0, <2>1, <2>3, <2>6, <3>2, <3>3 DEF TrainInv, InReset, Collect, ResetSet, Going
  <2> QED BY <2>1, <2>5, <2>6
<1>3. CASE UpdateWeights \/ ResetCount \/ ResetSize
  <2>1. /\ InReset /\ InReset' /\ UNCHANGED <<localStep, collected, stopped>>
        /\ tpc' # "train" /\ tpc # "collect" /\ tpc' # "collect"
    BY <1>3 DEF UpdateWeights, ResetCount, ResetSize, InReset
  <2> QED BY <1>0, <1>3, <2>1 DEF TrainInv, Consumed, Collect, ResetSet, InReset, Going
<1>4. CASE ResetSet
  <2>1. /\ tpc = "set" /\ UNCHANGED <<localStep, collected, stopped>> /\ tpc' = "collect"
    BY <1>4 DEF ResetSet, Going
  <2>2. InReset /\ localStep' = 1 /\ collected' = {}
    BY <2>1 DEF TrainInv, InReset
  <2>3. Cardinality(collected') = 0 /\ (1 - 1) * RequiredSamples = 0
    BY <2>2, FS_EmptySet, Versions
  <2>4. Consumed' = 0
    BY <2>1, <2>2, <2>3 DEF Consumed, InReset
  <2> QED BY <1>0, <1>4, <2>1, <2>2, <2>4 DEF TrainInv, Consumed, Collect, InReset, Going
<1>5. CASE UNCHANGED trainVars
  <2>1. UNCHANGED <<tpc, localStep, collected, stopped>>
    BY <1>5 DEF trainVars
  <2>2. ~ResetSet
    BY <2>1 DEF ResetSet
  <2> QED BY <1>0, <2>1, <2>2 DEF TrainInv, Consumed, InReset, Collect, Going
<1>6. CASE Stop
  BY <1>6 DEF Stop, Going
<1> QED BY <1>1, <1>2, <1>3, <1>4, <1>5, <1>6, NextActions DEF vars

LEMMA LevelStep ==
  ASSUME TypeOK, GotInv, OnceInv, TrainInv, [Next]_vars, Going'
  PROVE  /\ Level \in Nat /\ Level' \in Nat /\ Outstanding \in Nat
         /\ ~ProcSubmit => Level' <= Level
         /\ ProcSubmit => Level' <= Level + 1
         /\ ResetSet => Level' <= Outstanding
         /\ tpc = "set" => Level = Outstanding + SamplesPerSync
<1>1. /\ Outstanding \in Nat /\ Outstanding' \in Nat
      /\ ~ProcSubmit => Outstanding' <= Outstanding
      /\ ProcSubmit => Outstanding' <= Outstanding + 1
      /\ Collect => Outstanding' <= Outstanding - 1
  BY OutstandingStep, CollectLowers
<1>2. /\ Consumed \in Nat /\ Consumed' \in Nat
      /\ Collect => Consumed' <= Consumed + 1
      /\ ~Collect /\ ~ResetSet => Consumed' = Consumed
      /\ ResetSet => Consumed' = 0
      /\ tpc = "set" => Consumed = SamplesPerSync
  BY ConsumedStep
<1>P. PICK o, c : o = Outstanding' /\ c = Consumed'
  OBVIOUS
<1>L. Level' = o + c
  BY <1>P, Zenon DEF Level
<1>N. o \in Nat /\ c \in Nat /\ Outstanding \in Nat /\ Consumed \in Nat
  BY <1>1, <1>2, <1>P
<1>3. Level \in Nat /\ Level' \in Nat /\ (tpc = "set" => Level = Outstanding + SamplesPerSync)
  <2>1. Level \in Nat /\ (tpc = "set" => Level = Outstanding + SamplesPerSync)
    BY <1>1, <1>2 DEF Level
  <2>2. o + c \in Nat
    BY <1>N
  <2> QED BY <1>L, <2>1, <2>2, Zenon
<1>4. CASE ProcSubmit
  <2>1. ~Collect /\ ~ResetSet
    BY <1>4 DEF ProcSubmit, Collect, ResetSet, rolloutVars, procVars
  <2>2. o <= Outstanding + 1 /\ c = Consumed
    BY <1>1, <1>2, <1>4, <1>P, <2>1, Zenon
  <2>3. Level' <= Level + 1
    BY <1>N, <1>L, <2>2 DEF Level
  <2> QED BY <1>1, <1>3, <1>4, <2>1, <2>3, Zenon
<1>5. CASE ResetSet
  <2>1. ~ProcSubmit
    BY <1>5 DEF ProcSubmit, ResetSet, procVars
  <2>2. o <= Outstanding /\ c = 0
    BY <1>1, <1>2, <1>5, <1>P, <2>1, Zenon
  <2>3. Level' <= Level /\ Level' <= Outstanding
    BY <1>N, <1>L, <2>2 DEF Level
  <2> QED BY <1>1, <1>3, <2>1, <2>3, Zenon
<1>6. CASE Collect
  <2>1. ~ProcSubmit /\ ~ResetSet
    BY <1>6 DEF ProcSubmit, Collect, ResetSet, rolloutVars, procVars
  <2>2. o <= Outstanding - 1 /\ c <= Consumed + 1
    BY <1>1, <1>2, <1>6, <1>P, Zenon
  <2>3. Level' <= Level
    BY <1>N, <1>L, <2>2 DEF Level
  <2> QED BY <1>1, <1>3, <2>1, <2>3, Zenon
<1>7. CASE ~ProcSubmit /\ ~ResetSet /\ ~Collect
  <2>1. o <= Outstanding /\ c = Consumed
    BY <1>1, <1>2, <1>7, <1>P, Zenon
  <2>2. Level' <= Level
    BY <1>N, <1>L, <2>1 DEF Level
  <2> QED BY <1>1, <1>3, <1>7, <2>2, Zenon
<1> QED BY <1>4, <1>5, <1>6, <1>7

LEMMA VersionStep ==
  ASSUME IInv, OnceInv, VersionInv, [Next]_vars, Going'
  PROVE  /\ TrainInv' /\ LevelInv'
         /\ MaxRequired = SamplesPerSync => TightInv'
<1>I. TypeOK /\ GotInv /\ TrainInv /\ LevelInv /\ TrainInv' /\ CountInv
  <2>1. Going
    BY NextActions DEF vars, trainVars, Collect, Stop, Train, UpdateWeights, ResetCount,
       ResetSize, ResetSet, Going
  <2>2. TrainInv /\ LevelInv
    BY <2>1, Zenon DEF VersionInv
  <2>3. TypeOK /\ GotInv /\ CountInv
    BY DEF IInv
  <2> QED BY <2>2, <2>3, ConsumedStep
<1>J. ASSUME MaxRequired = SamplesPerSync PROVE TightInv
  <2>1. Going
    BY NextActions DEF vars, trainVars, Collect, Stop, Train, UpdateWeights, ResetCount,
       ResetSize, ResetSet, Going
  <2> QED BY <1>J, <2>1, Zenon DEF VersionInv
<1>T. /\ Level \in Nat /\ Level' \in Nat /\ Outstanding \in Nat
      /\ staleness \in Nat /\ MaxRequired \in Nat /\ SamplesPerSync \in Nat
  BY <1>I, LevelStep, Versions DEF TypeOK, RolloutTypeOK
<1>1. CASE ProcGet
  <2>1. /\ proc = "get" /\ ~Holding /\ proc' # "get" /\ staleness' = staleness + 1
        /\ Level' <= Level
    BY <1>1, <1>I, LevelStep DEF ProcGet, Holding, ProcSubmit
  <2>3. LevelInv'
    BY <1>I, <1>T, <2>1 DEF LevelInv
  <2>4. ASSUME MaxRequired = SamplesPerSync PROVE TightInv'
    BY <1>J, <1>T, <2>1, <2>4 DEF TightInv
  <2> QED BY <1>I, <2>3, <2>4
<1>2. CASE ProcSubmit
  <2>1. /\ Holding /\ ~Holding' /\ proc' # "get" /\ staleness' = staleness
        /\ Level' <= Level + 1
    BY <1>2, <1>I, LevelStep DEF ProcSubmit, Holding
  <2>3. LevelInv'
    BY <1>I, <1>T, <2>1 DEF LevelInv
  <2>4. ASSUME MaxRequired = SamplesPerSync PROVE TightInv'
    BY <1>J, <1>T, <2>1, <2>4 DEF TightInv
  <2> QED BY <1>I, <2>3, <2>4
<1>3. CASE ResetSet
  <2>1. /\ proc' = proc /\ Holding' = Holding /\ staleness' = nActive + nQueued
        /\ Outstanding <= nActive + nQueued /\ nActive \in Nat /\ nQueued \in Nat
        /\ tpc = "set"
    BY <1>3, <1>I DEF ResetSet, procVars, Holding, CountInv, TypeOK
  <2>2. Level' <= Outstanding /\ Level = Outstanding + SamplesPerSync
    BY <1>3, <2>1, <1>I, LevelStep
  <2>3. LevelInv'
    BY <1>I, <1>T, <2>1, <2>2 DEF LevelInv
  <2>4. ASSUME MaxRequired = SamplesPerSync PROVE TightInv'
    BY <1>J, <1>T, <2>1, <2>2, <2>4 DEF TightInv
  <2> QED BY <1>I, <2>3, <2>4
<1>4. CASE ProcDecide
  <2>1. /\ ~Holding' /\ staleness' = staleness /\ Level' <= Level
        /\ proc' = "get" => ~(staleness >= MaxRequired)
    BY <1>4, <1>I, LevelStep DEF ProcDecide, Holding, ProcSubmit
  <2>3. LevelInv'
    BY <1>I, <1>T, <2>1 DEF LevelInv
  <2>4. ASSUME MaxRequired = SamplesPerSync PROVE TightInv'
    BY <1>J, <1>T, <2>1, <2>4 DEF TightInv
  <2> QED BY <1>I, <2>3, <2>4
<1>5. CASE ~ProcGet /\ ~ProcSubmit /\ ~ResetSet /\ ~ProcDecide
  <2>1. /\ staleness' = staleness
        /\ Holding' => Holding
        /\ proc' = "get" => proc = "get"
    BY <1>5, <1>I, RemoveTyped, NextActions
    DEF vars, queueVars, rolloutVars, trainVars, procVars, taskVars, monVars,
        Collect, Stop, Train, UpdateWeights, ResetCount, ResetSize,
        Feed, ProcCheck, ProcPause, ProcWake, ProcResumed, ProcEnd,
        MonAsk, MonDecide, MonResume, TaskPut, TaskFail, TypeOK, Holding
  <2>2. Level' <= Level
    BY <1>5, <1>I, LevelStep
  <2>3. LevelInv'
    BY <1>I, <1>T, <2>1, <2>2 DEF LevelInv
  <2>4. ASSUME MaxRequired = SamplesPerSync PROVE TightInv'
    BY <1>J, <1>T, <2>1, <2>2, <2>4 DEF TightInv
  <2> QED BY <1>I, <2>3, <2>4
<1> QED BY <1>1, <1>2, <1>3, <1>4, <1>5

(* When the weights change, the samples of the old ones leave room for     *)
(* those of a whole version: nothing at all is left over at threshold 0,   *)
(* and above it at most one sample more than the threshold says            *)
(* (fully_async_rollouter.py:475, :754, :796-798 and :996).                *)
THEOREM LeftOverStaysBounded == Spec => []LeftOverBounded
<1>1. Init => OnceInv /\ VersionInv
  <2> SUFFICES ASSUME Init PROVE OnceInv /\ VersionInv
    OBVIOUS
  <2>1. /\ running = {} /\ Queued = {} /\ queue = << >> /\ proc = "check" /\ staleness = 0
        /\ tpc = "collect" /\ localStep = 1 /\ collected = {}
    BY DEF Init, RolloutInit, QueueInit, Queued
  <2>2. (1 - 1) * RequiredSamples = 0
    BY Versions
  <2>3. Level = 0 /\ ~Holding
    BY <2>1, <2>2, FS_EmptySet DEF Level, Outstanding, Consumed, InReset, Holding
  <2> QED BY <2>1, <2>3, Versions DEF OnceInv, VersionInv, TrainInv, LevelInv, TightInv, InReset
<1>2. IInv /\ EndIInv /\ OnceInv /\ VersionInv /\ [Next]_vars => OnceInv' /\ VersionInv'
  BY OnceStep, VersionStep DEF IInv, EndIInv, VersionInv
<1>3. IInv /\ VersionInv => LeftOverBounded
  <2> SUFFICES ASSUME IInv, VersionInv, Going, InReset PROVE
        Outstanding + SamplesPerSync
          <= MaxRequired + (IF MaxRequired = SamplesPerSync THEN 0 ELSE 1)
    BY DEF LeftOverBounded, InReset, Going
  <2>1. Outstanding \in Nat /\ MaxRequired \in Nat /\ SamplesPerSync \in Nat
    BY QueuedBound, SamplesFinite, Versions DEF IInv, TypeOK, RolloutTypeOK, Outstanding
  <2>2. Level = Outstanding + SamplesPerSync
    BY DEF Level, Consumed
  <2>3. CASE MaxRequired = SamplesPerSync
    <3>1. TightInv
      BY <2>3, Zenon DEF VersionInv
    <3>2. Level <= MaxRequired
      BY <3>1 DEF TightInv
    <3> QED BY <2>1, <2>2, <2>3, <3>2
  <2>4. CASE MaxRequired # SamplesPerSync
    <3>1. LevelInv
      BY Zenon DEF VersionInv
    <3>2. Level <= MaxRequired + 1
      BY <3>1 DEF LevelInv
    <3> QED BY <2>1, <2>2, <2>4, <3>2
  <2> QED BY <2>3, <2>4
<1> QED BY Invariance, EndInvariance, <1>1, <1>2, <1>3, PTL DEF Spec
=============================================================================
