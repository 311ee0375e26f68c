--------------------------- MODULE PPOTrainerProofs ---------------------------
(***************************************************************************)
(* Proofs about the V1 trainer, for every number of sessions, batch size,  *)
(* number of steps, warm-up, threshold, strategy and mode.                 *)
(*                                                                         *)
(* The inductive invariant is built in layers; the proof that a step       *)
(* preserves a layer uses the layers before it.                            *)
(***************************************************************************)
EXTENDS PPOTrainer, FiniteSetTheorems, TLAPS

(* The dataloader is in step with the trainer.                             *)
FedInv ==
  /\ pc = "warmup" => g = 1 /\ \E k \in 0 .. WarmupBatches : fed = k * BatchSize
  /\ pc = "add" => fed = WarmupPrompts + (g - 1) * BatchSize
  /\ pc \notin {"warmup", "add"} => fed = WarmupPrompts + g * BatchSize

(* The tag of a prompt key is the state of its task, until it is cleared.  *)
TagInv ==
  \A u \in Prompts :
    /\ task[u] = "none"      => kvPrompt[u] = "absent"
    /\ task[u] = "queued"    => kvPrompt[u] = "pending"
    /\ task[u] = "gathering" => kvPrompt[u] = "running"
    /\ task[u] \in Reported  => kvPrompt[u] \in {task[u], "absent"}
    /\ task[u] = "none" <=> u > fed
    /\ task[u] \in {"none", "queued"} => \A i \in Sessions : session[u][i] = FreshSession
    /\ task[u] = "finished" => \A i \in Sessions : session[u][i].pc = "stored"

(* What is stored, and what the snapshot of a sample call knows of it.     *)
StoreInv ==
  /\ \A t \in kvTraj \cap RealKeys : session[t[1]][t[2]].pc = "stored"
  /\ \A u \in Prompts, i \in Sessions :
       session[u][i].pc = "stored" /\ kvPrompt[u] # "absent" => <<u, i>> \in kvTraj

SnapInv ==
  pc = "take" =>
    /\ snap.trajs \subseteq kvTraj
    /\ \A u \in Prompts :
         /\ snap.status[u] \in Reported => kvPrompt[u] = snap.status[u]
         /\ snap.status[u] = "finished" => \A i \in Sessions : <<u, i>> \in snap.trajs

BatchInv ==
  /\ pc \in {"warmup", "add", "sample", "take"} => batch = {}
  /\ \A t \in batch : t[1] = PadUid \/ t[1] \in taken
  /\ \A u \in Prompts : u \in taken <=> u <= fed /\ kvPrompt[u] = "absent"

(* Each step takes one batch.                                              *)
FlowInv == Cardinality(taken) = StepsSampled * BatchSize

EngineInv ==
  /\ awake <=> pc \notin {"balance", "update", "crashed"}
  /\ Mode = "sync" => ~paused /\ pc \notin {"abort", "resume"}
  /\ Mode = "colocate_async" =>
       /\ paused <=> pc \in {"drain", "sleep", "balance", "update", "resume", "crashed"}
       /\ pc \in {"sleep", "balance", "update", "resume", "crashed"} => Drained
  /\ Mode = "sync" /\ pc \notin {"warmup", "add", "sample", "take"} =>
       \A u \in Prompts : u <= fed => kvPrompt[u] = "absent"

(* The engine is one version behind until the update of the step; the      *)
(* versions of a session lie between its submission and the engine's.      *)
SessionVersion(s, submitted, v) ==
  /\ s.min # NoVersion => submitted - 1 <= s.min /\ s.min <= s.max /\ s.max <= v
  /\ s.min = NoVersion => s.max = NoVersion
  /\ s.pc \in {"tool", "output", "stored"} => s.min # NoVersion

VersionInv ==
  /\ version = IF pc \in {"resume", "cleanup", "done"} THEN g ELSE g - 1
  /\ \A u \in Prompts : task[u] # "none" => promptStep[u] \in 1 .. g
  /\ \A u \in Prompts, i \in Sessions : SessionVersion(session[u][i], promptStep[u], version)

(* Under "wait" no unreported prompt outlives its threshold.               *)
AgeInv ==
  Strategy = "wait" =>
    \A u \in Prompts :
      kvPrompt[u] \in {"pending", "running"} =>
        /\ version - promptStep[u] + 2 <= Threshold
        /\ pc \notin {"warmup", "add", "sample"} => Staleness(u, g) < Threshold

SpanInv ==
  Strategy = "wait" =>
    \A u \in Prompts, i \in Sessions :
      task[u] # "failure" /\ session[u][i].min # NoVersion =>
        session[u][i].max - session[u][i].min + 1 <= Threshold

(* The batch stays in the store, and under "drop" is fresh, until cleanup. *)
HeldInv == batch \subseteq kvTraj

StaleInv ==
  Strategy = "drop" =>
    \A t \in batch : t[1] # PadUid => Staleness(t[1], g) <= Threshold

------------------------------------------------------------------------------
(* Arithmetic of whole batches.                                            *)
LEMMA BatchArithmetic ==
  ASSUME NEW a \in Nat, NEW b \in Nat, NEW n \in Nat \ {0}
  PROVE  /\ a * n \in Nat
         /\ (a + 1) * n = a * n + n
         /\ (a + b) * n = a * n + b * n
         /\ a * n < b * n => a + 1 <= b
         /\ a <= b => a * n <= b * n
<1>1. a * n \in Nat /\ (a + 1) * n = a * n + n /\ (a + b) * n = a * n + b * n
  OBVIOUS
<1>2. ASSUME a <= b PROVE a * n <= b * n
  <2>1. PICK c \in Nat : b = a + c
    BY <1>2
  <2>2. b * n = a * n + c * n /\ c * n \in Nat
    BY <2>1
  <2> QED BY <2>2
<1>3. ASSUME a * n < b * n PROVE a + 1 <= b
  <2>1. SUFFICES ASSUME b <= a PROVE FALSE
    OBVIOUS
  <2>2. PICK c \in Nat : a = b + c
    BY <2>1
  <2>3. a * n = b * n + c * n /\ c * n \in Nat /\ b * n \in Nat
    BY <2>2
  <2> QED BY <2>3, <1>3
<1> QED BY <1>1, <1>2, <1>3

LEMMA PromptsType ==
  /\ WarmupBatches \in 0 .. Warmup
  /\ WarmupPrompts \in Nat
  /\ (Warmup + TotalSteps) * BatchSize \in Nat
  /\ Prompts \subseteq Nat \ {0}
  /\ PadUid \notin Prompts
  /\ IsFiniteSet(Prompts)
<1>1. WarmupBatches \in 0 .. Warmup
  BY SizesAssumption DEF WarmupBatches
<1>2. WarmupPrompts \in Nat /\ (Warmup + TotalSteps) * BatchSize \in Nat
  BY <1>1, SizesAssumption, BatchArithmetic DEF WarmupPrompts
<1>3. IsFiniteSet(Prompts)
  BY <1>2, FS_Interval DEF Prompts
<1> QED BY <1>1, <1>2, <1>3 DEF Prompts, PadUid

(* A generate call keeps the place of a session and moves its versions.    *)
LEMMA SpannedType ==
  ASSUME NEW s \in SessionRecords, NEW v \in 0 .. TotalSteps
  PROVE  /\ Spanned(s, v) \in SessionRecords
         /\ Spanned(s, v).pc = s.pc /\ Spanned(s, v).turn = s.turn
         /\ Spanned(s, v).max = v
         /\ Spanned(s, v).min = IF s.min = NoVersion THEN v ELSE s.min
<1>1. v \in NoVersion .. TotalSteps
  BY SizesAssumption DEF NoVersion
<1>2. s.min \in NoVersion .. TotalSteps
  BY DEF SessionRecords
<1> QED BY <1>1, <1>2 DEF Spanned, SessionRecords

LEMMA MoveType ==
  ASSUME NEW s \in SessionRecords, NEW q \in SessionStates, NEW n \in 0 .. MaxTurns
  PROVE  [s EXCEPT !.pc = q, !.turn = n] \in SessionRecords
BY DEF SessionRecords

(* The prompts of the next batch, and how many have been handed out.       *)
LEMMA NextBatch ==
  ASSUME TypeOK, FedInv, pc = "add" \/ (pc = "warmup" /\ fed < WarmupPrompts)
  PROVE  fed + BatchSize <= (Warmup + TotalSteps) * BatchSize
<1> USE SizesAssumption, PromptsType
<1>1. g \in 1 .. TotalSteps /\ fed \in Nat
  BY DEF TypeOK
<1>2. CASE pc = "add"
  <2>1. fed = WarmupBatches * BatchSize + (g - 1) * BatchSize
    BY <1>2 DEF FedInv, WarmupPrompts
  <2>2. fed = (WarmupBatches + (g - 1)) * BatchSize
    BY <2>1, <1>1, BatchArithmetic
  <2>3. fed + BatchSize = (WarmupBatches + g) * BatchSize
    BY <2>2, <1>1, BatchArithmetic
  <2>4. (WarmupBatches + g) * BatchSize <= (Warmup + TotalSteps) * BatchSize
    BY <1>1, BatchArithmetic
  <2> QED BY <2>3, <2>4
<1>3. CASE pc = "warmup" /\ fed < WarmupPrompts
  <2>1. PICK k \in 0 .. WarmupBatches : fed = k * BatchSize
    BY <1>3 DEF FedInv
  <2>2. k + 1 <= WarmupBatches
    BY <2>1, <1>3, BatchArithmetic DEF WarmupPrompts
  <2>3. fed + BatchSize = (k + 1) * BatchSize
    BY <2>1, BatchArithmetic
  <2>4. (k + 1) * BatchSize <= (Warmup + TotalSteps) * BatchSize
    BY <2>2, BatchArithmetic
  <2> QED BY <2>3, <2>4
<1> QED BY <1>2, <1>3

------------------------------------------------------------------------------
(* Type correctness, with the position of the dataloader it rests on.      *)
LEMMA InitType == Init => TypeOK /\ FedInv
<1> SUFFICES ASSUME Init PROVE TypeOK /\ FedInv
  OBVIOUS
<1> USE SizesAssumption, PromptsType DEF Init
<1>1. KvTypeOK
  BY DEF KvInit, KvTypeOK, PromptTags
<1>2. FreshSession \in SessionRecords
  BY TurnsAssumption DEF FreshSession, SessionRecords, SessionStates, NoVersion
<1>3. LoopTypeOK
  <2>1. session \in [Prompts -> [Sessions -> SessionRecords]]
    BY <1>2 DEF LoopInit
  <2>2. version \in 0 .. TotalSteps /\ task \in [Prompts -> TaskStates]
    BY DEF LoopInit, TaskStates
  <2> QED BY <2>1, <2>2 DEF LoopTypeOK
<1>4. snap \in Snapshots
  BY DEF EmptySnap, Snapshots, PromptTags
<1>5. TypeOK
  BY <1>1, <1>3, <1>4 DEF TypeOK, TrainerStates
<1>6. fed = 0 * BatchSize
  OBVIOUS
<1> QED BY <1>5, <1>6 DEF FedInv

(* What a step of a worker does to the types of the store and the loops.   *)
LEMMA WorkerType ==
  ASSUME TypeOK, WorkerNext, UNCHANGED trainerVars
  PROVE  TypeOK'
<1> USE DEF TypeOK, KvTypeOK, LoopTypeOK, trainerVars, kvVars, engineVars
<1>1. PICK u \in Prompts :
        \/ PromptStart(u) \/ PromptFinish(u) \/ PromptFailure(u)
        \/ \E i \in Sessions : SessionNext(u, i)
  BY DEF WorkerNext
<1>2. CASE PromptStart(u)
  <2>1. [FreshSession EXCEPT !.pc = "waiting"] \in SessionRecords
    BY SizesAssumption, TurnsAssumption
    DEF FreshSession, SessionRecords, SessionStates, NoVersion
  <2> QED BY <1>2, <2>1 DEF PromptStart, KvTag, PromptTags, TaskStates
<1>3. CASE PromptFinish(u)
  BY <1>3 DEF PromptFinish, KvTag, PromptTags, Reported, TaskStates
<1>4. CASE PromptFailure(u)
  BY <1>4 DEF PromptFailure, KvTag, PromptTags, Reported, TaskStates
<1>5. ASSUME NEW i \in Sessions, SessionNext(u, i)
      PROVE  TypeOK'
  <2> DEFINE s == session[u][i]
  <2>1. s \in SessionRecords
    OBVIOUS
  <2>2. \A q \in SessionStates : [s EXCEPT !.pc = q] \in SessionRecords
    BY <2>1 DEF SessionRecords
  <2>3. 0 \in 0 .. MaxTurns
    BY TurnsAssumption
  <2>4. ASSUME NEW r \in SessionRecords
        PROVE  [session EXCEPT ![u][i] = r] \in [Prompts -> [Sessions -> SessionRecords]]
    OBVIOUS
  <2>5. ASSUME NEW q \in SessionStates, Goto(u, i, q)
        PROVE  session' \in [Prompts -> [Sessions -> SessionRecords]]
    BY <2>2, <2>4, <2>5 DEF Goto
  <2>6. CASE Admit(u, i)
    BY <2>5, <2>6 DEF Admit, SessionStates
  <2>7. CASE TurnDone(u, i)
    <3> DEFINE r == Spanned(s, version)
    <3>1. r \in SessionRecords /\ r.turn = s.turn
      BY <2>1, SpannedType
    <3>2. s.turn + 1 < MaxTurns => s.turn + 1 \in 0 .. MaxTurns
      BY <2>1, TurnsAssumption DEF SessionRecords
    <3>3. /\ s.turn + 1 < MaxTurns => [r EXCEPT !.pc = "tool", !.turn = @ + 1] \in SessionRecords
          /\ [r EXCEPT !.pc = "output", !.turn = 0] \in SessionRecords
      BY <3>1, <3>2, <2>3, MoveType DEF SessionStates
    <3>4. session' \in [Prompts -> [Sessions -> SessionRecords]]
      BY <2>7, <2>4, <3>3 DEF TurnDone
    <3> QED BY <2>7, <3>4 DEF TurnDone
  <2>8. CASE ToolReturn(u, i)
    <3>1. [s EXCEPT !.pc = "output", !.turn = 0] \in SessionRecords
      BY <2>1, <2>3, MoveType DEF SessionStates
    <3>2. Goto(u, i, "waiting") => session' \in [Prompts -> [Sessions -> SessionRecords]]
      BY <2>5 DEF SessionStates
    <3>3. [session EXCEPT ![u][i] = [s EXCEPT !.pc = "output", !.turn = 0]]
            \in [Prompts -> [Sessions -> SessionRecords]]
      BY <3>1, <2>4
    <3>4. session' \in [Prompts -> [Sessions -> SessionRecords]]
      BY <2>8, <3>2, <3>3 DEF ToolReturn
    <3> QED BY <2>8, <3>4 DEF ToolReturn
  <2>9. CASE SessionFail(u, i)
    BY <2>5, <2>9 DEF SessionFail, SessionStates
  <2>10. CASE Store(u, i)
    BY <2>5, <2>10 DEF Store, SessionStates, KvPutTraj, RealKeys
  <2> QED BY <1>5, <2>6, <2>7, <2>8, <2>9, <2>10 DEF SessionNext
<1> QED BY <1>1, <1>2, <1>3, <1>4, <1>5

(* AddBatch keeps the types as long as the dataloader has prompts left.    *)
LEMMA AddBatchType ==
  ASSUME TypeOK, AddBatch, fed + BatchSize <= (Warmup + TotalSteps) * BatchSize
  PROVE  KvTypeOK' /\ LoopTypeOK' /\ fed' \in 0 .. (Warmup + TotalSteps) * BatchSize
BY SizesAssumption, PromptsType
DEF TypeOK, KvTypeOK, LoopTypeOK, AddBatch, KvRegister, PromptTags, TaskStates, engineVars

LEMMA TypeStep ==
  ASSUME TypeOK, FedInv, [Next]_vars
  PROVE  TypeOK'
<1> USE SizesAssumption, PromptsType DEF kvVars, loopVars, engineVars
<1>1. CASE UNCHANGED vars
  BY <1>1 DEF vars, trainerVars, TypeOK, KvTypeOK, LoopTypeOK
<1>2. CASE WorkerNext /\ UNCHANGED trainerVars
  BY <1>2, WorkerType
<1>3. CASE WarmupBatch
  BY <1>3, NextBatch, AddBatchType DEF WarmupBatch, AddBatch, TypeOK
<1>4. CASE WarmupEnd
  BY <1>4 DEF WarmupEnd, TypeOK, KvTypeOK, LoopTypeOK, TrainerStates
<1>5. CASE StepBegin
  BY <1>5, NextBatch, AddBatchType DEF StepBegin, AddBatch, TypeOK, TrainerStates
<1>6. CASE Poll
  BY <1>6 DEF Poll, TypeOK, KvTypeOK, LoopTypeOK, TrainerStates, SyncMetadata, Snapshots
<1>7. CASE Take
  <2>1. PICK S \in Selections(snap) :
          /\ KvClear(S, TooStale(Collect(snap, S), g))
          /\ batch' = Collect(snap, S) \ TooStale(Collect(snap, S), g)
          /\ taken' = taken \cup S
    BY <1>7 DEF Take
  <2>2. S \subseteq Prompts
    BY <2>1 DEF Selections, Sampleable
  <2>3. Collect(snap, S) \subseteq RealKeys \cup PadKeys
    BY DEF Collect, TypeOK, Snapshots
  <2>4. KvTypeOK'
    BY <2>1 DEF KvClear, TypeOK, KvTypeOK, PromptTags
  <2>5. EmptySnap \in Snapshots
    BY DEF EmptySnap, Snapshots, PromptTags
  <2>6. batch' \subseteq RealKeys \cup PadKeys /\ taken' \subseteq Prompts
    BY <2>1, <2>2, <2>3 DEF TypeOK
  <2>7. LoopTypeOK' /\ snap' \in Snapshots /\ pc' \in TrainerStates /\ UNCHANGED <<g, fed>>
    BY <1>7, <2>5 DEF Take, TypeOK, LoopTypeOK, TrainerStates
  <2> QED BY <2>4, <2>6, <2>7 DEF TypeOK
<1>8. CASE Abort
  <2>1. \A u \in Prompts, i \in Sessions :
          [Spanned(session[u][i], version) EXCEPT !.pc = "waiting"] \in SessionRecords
    <3> SUFFICES ASSUME NEW u \in Prompts, NEW i \in Sessions
                 PROVE  [Spanned(session[u][i], version) EXCEPT !.pc = "waiting"] \in SessionRecords
      OBVIOUS
    <3>1. Spanned(session[u][i], version) \in SessionRecords
      BY SpannedType DEF TypeOK, LoopTypeOK
    <3> QED BY <3>1 DEF SessionRecords, SessionStates
  <2>2. LoopTypeOK'
    BY <1>8, <2>1 DEF Abort, AbortAll, TypeOK, LoopTypeOK
  <2> QED BY <1>8, <2>2 DEF Abort, AbortAll, TypeOK, KvTypeOK, TrainerStates
<1>9. CASE Drain \/ Sleep \/ Crash \/ Resume
  BY <1>9 DEF Drain, Sleep, Crash, Resume, TypeOK, KvTypeOK, LoopTypeOK, TrainerStates
<1>10. CASE Balance
  <2>1. Padding(batch) \subseteq PadKeys
    BY DEF Padding
  <2> QED BY <1>10, <2>1
          DEF Balance, KvPutTraj, TypeOK, KvTypeOK, LoopTypeOK, TrainerStates
<1>11. CASE UpdateWeights
  BY <1>11 DEF UpdateWeights, TypeOK, KvTypeOK, LoopTypeOK, TrainerStates
<1>12. CASE Cleanup
  BY <1>12 DEF Cleanup, KvClearTraj, TypeOK, KvTypeOK, LoopTypeOK, TrainerStates
<1> QED
  BY <1>1, <1>2, <1>3, <1>4, <1>5, <1>6, <1>7, <1>8, <1>9, <1>10, <1>11, <1>12
  DEF Next, TrainerNext

LEMMA FedStep ==
  ASSUME TypeOK, FedInv, [Next]_vars
  PROVE  FedInv'
<1> USE SizesAssumption, PromptsType DEF FedInv
<1>0. g \in 1 .. TotalSteps /\ fed \in Nat
  BY DEF TypeOK
<1>1. CASE UNCHANGED <<pc, g, fed>>
  BY <1>1
<1>2. CASE WarmupBatch
  <2>1. PICK k \in 0 .. WarmupBatches : fed = k * BatchSize
    BY <1>2 DEF WarmupBatch
  <2>2. k + 1 <= WarmupBatches
    BY <2>1, <1>2, BatchArithmetic DEF WarmupBatch, WarmupPrompts
  <2>3. fed' = (k + 1) * BatchSize
    BY <2>1, <1>2, BatchArithmetic DEF WarmupBatch, AddBatch
  <2>4. k + 1 \in 0 .. WarmupBatches
    BY <2>2
  <2>5. pc' = "warmup" /\ g' = 1
    BY <1>2 DEF WarmupBatch, AddBatch
  <2>6. \E j \in 0 .. WarmupBatches : fed' = j * BatchSize
    BY <2>3, <2>4
  <2> QED BY <2>5, <2>6
<1>3. CASE WarmupEnd
  <2>1. PICK k \in 0 .. WarmupBatches : fed = k * BatchSize
    BY <1>3 DEF WarmupEnd
  <2>2. fed <= WarmupBatches * BatchSize
    BY <2>1, BatchArithmetic
  <2>3. fed = WarmupPrompts
    BY <2>2, <1>0, <1>3 DEF WarmupEnd, WarmupPrompts
  <2>4. (g - 1) * BatchSize = 0
    BY <1>3 DEF WarmupEnd
  <2> QED BY <1>3, <2>3, <2>4 DEF WarmupEnd
<1>4. CASE StepBegin
  <2>1. g * BatchSize = (g - 1) * BatchSize + BatchSize /\ (g - 1) * BatchSize \in Nat
    BY <1>0, BatchArithmetic
  <2> QED BY <1>4, <2>1 DEF StepBegin, AddBatch
<1>5. CASE Poll \/ Take \/ Abort \/ Drain \/ Sleep \/ Balance \/ Crash \/ UpdateWeights \/ Resume
  BY <1>5 DEF Poll, Take, Abort, Drain, Sleep, Balance, Crash, UpdateWeights, Resume
<1>6. CASE Cleanup
  BY <1>0, <1>6 DEF Cleanup
<1> QED
  BY <1>1, <1>2, <1>3, <1>4, <1>5, <1>6 DEF Next, TrainerNext, vars, trainerVars

(* Type correctness: in particular the dataloader never runs past the      *)
(* prompts of the run and the versions never past the last step.           *)
THEOREM TypeCorrect == Spec => [](TypeOK /\ FedInv)
BY InitType, TypeStep, FedStep, PTL DEF Spec

------------------------------------------------------------------------------
(* The store, the tasks and the snapshot.                                  *)

(* A step of one agent loop touches its own session, which has started and *)
(* not ended, and reaches "stored" only by storing.                        *)
LEMMA SessionFrame ==
  ASSUME TypeOK, NEW u \in Prompts, NEW i \in Sessions, SessionNext(u, i)
  PROVE  /\ session[u][i].pc \in {"waiting", "inflight", "tool", "output"}
         /\ \A v \in Prompts : v # u => session'[v] = session[v]
         /\ \A j \in Sessions : j # i => session'[u][j] = session[u][j]
         /\ session'[u][i].pc = "stored" => Store(u, i)
         /\ UNCHANGED <<task, kvPrompt, promptStep, engineVars>>
         /\ kvTraj' = kvTraj \/ (Store(u, i) /\ kvTraj' = kvTraj \cup {<<u, i>>})
<1> USE DEF TypeOK, LoopTypeOK
<1> DEFINE s == session[u][i]
<1>1. s \in SessionRecords /\ session \in [Prompts -> [Sessions -> SessionRecords]]
  OBVIOUS
<1>2. ASSUME NEW r, session' = [session EXCEPT ![u][i] = r]
      PROVE  /\ \A v \in Prompts : v # u => session'[v] = session[v]
             /\ \A j \in Sessions : j # i => session'[u][j] = session[u][j]
             /\ session'[u][i] = r
  BY <1>1, <1>2
<1>3. ASSUME NEW q, Goto(u, i, q)
      PROVE  /\ \A v \in Prompts : v # u => session'[v] = session[v]
             /\ \A j \in Sessions : j # i => session'[u][j] = session[u][j]
             /\ session'[u][i].pc = q
  <2>1. session' = [session EXCEPT ![u][i] = [s EXCEPT !.pc = q]] /\ [s EXCEPT !.pc = q].pc = q
    BY <1>1, <1>3 DEF Goto, SessionRecords
  <2> QED BY <1>2, <2>1
<1>4. CASE Admit(u, i)
  BY <1>3, <1>4 DEF Admit, kvVars
<1>5. CASE TurnDone(u, i)
  <2> DEFINE r == Spanned(s, version)
  <2>1. r \in SessionRecords
    BY <1>1, SpannedType
  <2>2. /\ [r EXCEPT !.pc = "tool", !.turn = @ + 1].pc = "tool"
        /\ [r EXCEPT !.pc = "output", !.turn = 0].pc = "output"
    BY <2>1 DEF SessionRecords
  <2> QED BY <1>2, <1>5, <2>2 DEF TurnDone, kvVars
<1>6. CASE ToolReturn(u, i)
  <2>1. [s EXCEPT !.pc = "output", !.turn = 0].pc = "output"
    BY <1>1 DEF SessionRecords
  <2>2. CASE Goto(u, i, "waiting")
    BY <1>3, <1>6, <2>2 DEF ToolReturn, kvVars
  <2>3. CASE session' = [session EXCEPT ![u][i] = [s EXCEPT !.pc = "output", !.turn = 0]]
    BY <1>2, <1>6, <2>1, <2>3 DEF ToolReturn, kvVars
  <2> QED BY <1>6, <2>2, <2>3 DEF ToolReturn
<1>7. CASE SessionFail(u, i)
  BY <1>3, <1>7 DEF SessionFail, kvVars
<1>8. CASE Store(u, i)
  BY <1>3, <1>8 DEF Store, KvPutTraj
<1> QED BY <1>4, <1>5, <1>6, <1>7, <1>8 DEF SessionNext

(* What a sample call selects is still reported when it is cleared.        *)
LEMMA TakeFrame ==
  ASSUME TypeOK, TagInv, SnapInv, Take
  PROVE  \E S \in SUBSET Prompts :
           /\ Cardinality(S) = BatchSize
           /\ \A u \in S : /\ kvPrompt[u] \in Reported
                           /\ kvPrompt[u] = snap.status[u] /\ kvPrompt[u] = task[u]
           /\ KvClear(S, TooStale(Collect(snap, S), g))
           /\ batch' = Collect(snap, S) \ TooStale(Collect(snap, S), g)
           /\ taken' = taken \cup S
<1>1. PICK S \in Selections(snap) :
        /\ KvClear(S, TooStale(Collect(snap, S), g))
        /\ batch' = Collect(snap, S) \ TooStale(Collect(snap, S), g)
        /\ taken' = taken \cup S
  BY DEF Take
<1>2. S \in SUBSET Prompts /\ Cardinality(S) = BatchSize /\ \A u \in S : snap.status[u] \in Reported
  BY DEF Selections, Sampleable
<1>3. ASSUME NEW u \in S
      PROVE  kvPrompt[u] \in Reported /\ kvPrompt[u] = snap.status[u] /\ kvPrompt[u] = task[u]
  <2>1. kvPrompt[u] = snap.status[u] /\ kvPrompt[u] \in Reported
    BY <1>2 DEF Take, SnapInv
  <2>2. task[u] \in TaskStates
    BY <1>2 DEF TypeOK, LoopTypeOK
  <2>3. kvPrompt[u] = task[u]
    BY <1>2, <2>1, <2>2 DEF TagInv, TaskStates, Reported
  <2> QED BY <2>1, <2>3
<1> QED BY <1>1, <1>2, <1>3

LEMMA TagStep ==
  ASSUME TypeOK, TagInv, SnapInv, [Next]_vars
  PROVE  TagInv'
<1> USE DEF TypeOK, KvTypeOK, LoopTypeOK
<1>1. CASE UNCHANGED <<task, kvPrompt, session, fed>>
  BY <1>1 DEF TagInv
<1>2. CASE WarmupBatch \/ StepBegin
  <2>1. AddBatch
    BY <1>2 DEF WarmupBatch, StepBegin
  <2>2. fed \in Nat /\ BatchSize \in Nat \ {0} /\ Prompts \subseteq Nat
    BY SizesAssumption, PromptsType
  <2>3. ASSUME NEW u \in Prompts, u \in fed + 1 .. fed + BatchSize
        PROVE  /\ task[u] = "none" /\ task'[u] = "queued" /\ kvPrompt'[u] = "pending"
               /\ ~(u > fed')
    BY <2>1, <2>2, <2>3 DEF AddBatch, KvRegister, TagInv
  <2>4. ASSUME NEW u \in Prompts, u \notin fed + 1 .. fed + BatchSize
        PROVE  /\ task'[u] = task[u] /\ kvPrompt'[u] = kvPrompt[u]
               /\ u > fed' <=> u > fed
    BY <2>1, <2>2, <2>4 DEF AddBatch, KvRegister
  <2>5. session' = session
    BY <2>1 DEF AddBatch
  <2> QED BY <2>3, <2>4, <2>5 DEF TagInv, Reported
<1>3. CASE Take
  <2>1. PICK S \in SUBSET Prompts :
          /\ \A u \in S : kvPrompt[u] \in Reported /\ kvPrompt[u] = task[u]
          /\ KvClear(S, TooStale(Collect(snap, S), g))
    BY <1>3, TakeFrame
  <2>2. UNCHANGED <<task, session, fed>>
    BY <1>3 DEF Take, loopVars
  <2>3. \A u \in Prompts : kvPrompt'[u] = IF u \in S THEN "absent" ELSE kvPrompt[u]
    BY <2>1 DEF KvClear
  <2> QED BY <2>1, <2>2, <2>3 DEF TagInv, Reported
<1>4. CASE Abort
  <2>1. UNCHANGED <<task, kvPrompt, fed>>
    BY <1>4 DEF Abort, AbortAll, kvVars
  <2>2. \A u \in Prompts, i \in Sessions :
          session[u][i].pc # "inflight" => session'[u][i] = session[u][i]
    BY <1>4 DEF Abort, AbortAll, Inflight
  <2>3. FreshSession.pc = "none"
    BY DEF FreshSession
  <2> QED BY <2>1, <2>2, <2>3 DEF TagInv
<1>5. ASSUME NEW u \in Prompts, PromptStart(u), UNCHANGED trainerVars
      PROVE  TagInv'
  BY <1>5 DEF PromptStart, KvTag, trainerVars, TagInv, Reported
<1>6. ASSUME NEW u \in Prompts, PromptFinish(u), UNCHANGED trainerVars
      PROVE  TagInv'
  BY <1>6 DEF PromptFinish, KvTag, trainerVars, TagInv, Reported
<1>7. ASSUME NEW u \in Prompts, PromptFailure(u), UNCHANGED trainerVars
      PROVE  TagInv'
  BY <1>7 DEF PromptFailure, KvTag, trainerVars, TagInv, Reported
<1>8. ASSUME NEW u \in Prompts, NEW i \in Sessions, SessionNext(u, i), UNCHANGED trainerVars
      PROVE  TagInv'
  <2>1. FreshSession.pc = "none"
    BY DEF FreshSession
  <2> QED BY <1>8, <2>1, SessionFrame DEF TagInv, trainerVars
<1> QED
  BY <1>1, <1>2, <1>3, <1>4, <1>5, <1>6, <1>7, <1>8
  DEF Next, TrainerNext, WorkerNext, vars, kvVars, loopVars, trainerVars, WarmupEnd, Poll, Drain,
      Sleep, Balance, Crash, UpdateWeights, Resume, Cleanup, KvPutTraj, KvClearTraj

(* Only unreported prompts have sessions that can still store without      *)
(* having failed, so a stored trajectory of a registered prompt is found.  *)
LEMMA StoreStep ==
  ASSUME TypeOK, TagInv, StoreInv, SnapInv, BatchInv, [Next]_vars
  PROVE  StoreInv'
<1> USE DEF TypeOK, KvTypeOK, LoopTypeOK
<1>1. CASE UNCHANGED <<kvPrompt, kvTraj, session>>
  BY <1>1 DEF StoreInv
<1>2. CASE WarmupBatch \/ StepBegin
  <2>1. AddBatch
    BY <1>2 DEF WarmupBatch, StepBegin
  <2>2. fed \in Nat /\ BatchSize \in Nat \ {0} /\ Prompts \subseteq Nat
    BY SizesAssumption, PromptsType
  <2>3. \A u \in Prompts : kvPrompt'[u] # "absent" =>
          kvPrompt[u] # "absent" \/ task[u] = "none"
    BY <2>1, <2>2 DEF AddBatch, KvRegister, TagInv
  <2>4. \A u \in Prompts, i \in Sessions : task[u] = "none" => session[u][i].pc = "none"
    BY DEF TagInv, FreshSession
  <2>5. UNCHANGED <<session, kvTraj>>
    BY <2>1 DEF AddBatch, KvRegister
  <2> QED BY <2>3, <2>4, <2>5 DEF StoreInv
<1>3. CASE Take
  <2>1. PICK S \in SUBSET Prompts :
          KvClear(S, TooStale(Collect(snap, S), g))
    BY <1>3, TakeFrame
  <2>2. UNCHANGED session
    BY <1>3 DEF Take, loopVars
  <2>3. \A u \in Prompts : kvPrompt'[u] = IF u \in S THEN "absent" ELSE kvPrompt[u]
    BY <2>1 DEF KvClear
  <2>4. kvTraj' \subseteq kvTraj /\ \A t \in kvTraj : t[1] \notin S => t \in kvTraj'
    BY <2>1 DEF KvClear, TooStale, Collect
  <2> QED BY <2>2, <2>3, <2>4 DEF StoreInv
<1>4. CASE Abort
  <2>1. UNCHANGED <<kvTraj, kvPrompt>>
    BY <1>4 DEF Abort, AbortAll, kvVars
  <2>2. \A u \in Prompts, i \in Sessions :
          session[u][i].pc # "inflight" => session'[u][i] = session[u][i]
    BY <1>4 DEF Abort, AbortAll, Inflight
  <2>3. \A u \in Prompts, i \in Sessions :
          session[u][i].pc = "inflight" => session'[u][i].pc = "waiting"
    <3> SUFFICES ASSUME NEW u \in Prompts, NEW i \in Sessions, session[u][i].pc = "inflight"
                 PROVE  session'[u][i].pc = "waiting"
      OBVIOUS
    <3>1. Spanned(session[u][i], version) \in SessionRecords
      BY SpannedType
    <3>2. [Spanned(session[u][i], version) EXCEPT !.pc = "waiting"].pc = "waiting"
      BY <3>1 DEF SessionRecords
    <3> QED BY <1>4, <3>2 DEF Abort, AbortAll, Inflight
  <2> QED BY <2>1, <2>2, <2>3 DEF StoreInv, RealKeys
<1>5. CASE Balance \/ Cleanup
  <2>1. UNCHANGED <<kvPrompt, session, fed>>
    BY <1>5 DEF Balance, Cleanup, KvPutTraj, KvClearTraj, loopVars
  <2>2. kvTraj' \cap RealKeys \subseteq kvTraj
    BY <1>5, PromptsType
    DEF Balance, Cleanup, KvPutTraj, KvClearTraj, Padding, PadKeys, RealKeys
  <2>3. \A u \in Prompts, i \in Sessions :
          <<u, i>> \in kvTraj /\ kvPrompt[u] # "absent" => <<u, i>> \in kvTraj'
    BY <1>5, PromptsType DEF Balance, Cleanup, KvPutTraj, KvClearTraj, BatchInv
  <2> QED BY <2>1, <2>2, <2>3 DEF StoreInv
<1>6. ASSUME NEW u \in Prompts, PromptStart(u)
      PROVE  StoreInv'
  <2>1. kvTraj' = kvTraj /\ \A v \in Prompts : kvPrompt'[v] # "absent" => kvPrompt[v] # "absent"
    BY <1>6 DEF PromptStart, KvTag, TagInv
  <2>2. \A v \in Prompts : v # u => session'[v] = session[v]
    BY <1>6 DEF PromptStart
  <2>3. \A i \in Sessions : session[u][i].pc = "none" /\ session'[u][i].pc = "waiting"
    BY <1>6 DEF PromptStart, TagInv, FreshSession
  <2> QED BY <2>1, <2>2, <2>3 DEF StoreInv, RealKeys
<1>7. ASSUME NEW u \in Prompts, PromptFinish(u) \/ PromptFailure(u)
      PROVE  StoreInv'
  <2>1. UNCHANGED <<kvTraj, session>>
    BY <1>7 DEF PromptFinish, PromptFailure, KvTag
  <2>2. \A v \in Prompts : kvPrompt'[v] # "absent" => kvPrompt[v] # "absent"
    BY <1>7 DEF PromptFinish, PromptFailure, KvTag, TagInv
  <2> QED BY <2>1, <2>2 DEF StoreInv
<1>8. ASSUME NEW u \in Prompts, NEW i \in Sessions, SessionNext(u, i)
      PROVE  StoreInv'
  <2>1. CASE Store(u, i)
    <3>1. session'[u][i].pc = "stored" /\ kvTraj' = kvTraj \cup {<<u, i>>}
      BY <2>1 DEF Store, Goto, KvPutTraj, SessionRecords
    <3> QED BY <1>8, <3>1, SessionFrame DEF StoreInv, RealKeys
  <2>2. CASE ~Store(u, i)
    <3>1. UNCHANGED <<kvPrompt, kvTraj>>
      BY <1>8, <2>2, SessionFrame
    <3>2. \A v \in Prompts, j \in Sessions :
            session'[v][j].pc = "stored" <=> session[v][j].pc = "stored"
      BY <1>8, <2>2, SessionFrame
    <3> QED BY <3>1, <3>2 DEF StoreInv, RealKeys
  <2> QED BY <2>1, <2>2
<1> QED
  BY <1>1, <1>2, <1>3, <1>4, <1>5, <1>6, <1>7, <1>8
  DEF Next, TrainerNext, WorkerNext, vars, kvVars, loopVars, trainerVars, WarmupEnd, Poll, Drain,
      Sleep, Crash, UpdateWeights, Resume

LEMMA SnapStep ==
  ASSUME TypeOK, TagInv, StoreInv, SnapInv, [Next]_vars
  PROVE  SnapInv'
<1> USE DEF TypeOK, KvTypeOK, LoopTypeOK
<1>1. CASE UNCHANGED vars
  BY <1>1 DEF vars, kvVars, trainerVars, SnapInv
<1>2. CASE Poll
  <2>1. snap' = [status |-> kvPrompt, trajs |-> kvTraj] /\ UNCHANGED <<kvPrompt, kvTraj>>
    BY <1>2 DEF Poll, SyncMetadata, kvVars
  <2>2. ASSUME NEW u \in Prompts, kvPrompt[u] = "finished", NEW i \in Sessions
        PROVE  <<u, i>> \in kvTraj
    <3>1. task[u] = "finished"
      BY <2>2 DEF TagInv, TaskStates, Reported
    <3> QED BY <2>2, <3>1 DEF TagInv, StoreInv
  <2> QED BY <2>1, <2>2 DEF SnapInv
<1>3. CASE TrainerNext /\ ~Poll
  <2>1. pc' # "take"
    BY <1>3 DEF TrainerNext, WarmupBatch, WarmupEnd, StepBegin, Take, Abort, Drain, Sleep,
                Balance, Crash, UpdateWeights, Resume, Cleanup
  <2> QED BY <2>1 DEF SnapInv
<1>4. ASSUME NEW u \in Prompts, PromptStart(u) \/ PromptFinish(u) \/ PromptFailure(u),
             UNCHANGED trainerVars
      PROVE  SnapInv'
  <2>1. UNCHANGED <<pc, snap, kvTraj>>
    BY <1>4 DEF trainerVars, PromptStart, PromptFinish, PromptFailure, KvTag
  <2>2. kvPrompt[u] \notin Reported
    BY <1>4 DEF PromptStart, PromptFinish, PromptFailure, TagInv, Reported
  <2>3. \A v \in Prompts : v # u => kvPrompt'[v] = kvPrompt[v]
    BY <1>4 DEF PromptStart, PromptFinish, PromptFailure, KvTag
  <2> QED BY <2>1, <2>2, <2>3 DEF SnapInv
<1>5. ASSUME NEW u \in Prompts, NEW i \in Sessions, SessionNext(u, i), UNCHANGED trainerVars
      PROVE  SnapInv'
  BY <1>5, SessionFrame DEF SnapInv, trainerVars
<1> QED
  BY <1>1, <1>2, <1>3, <1>4, <1>5 DEF Next, WorkerNext

------------------------------------------------------------------------------
(* The batch of the step.                                                  *)
LEMMA BatchStep ==
  ASSUME TypeOK, TagInv, SnapInv, BatchInv, [Next]_vars
  PROVE  BatchInv'
<1> USE DEF TypeOK, KvTypeOK, LoopTypeOK
<1>0. fed \in Nat /\ BatchSize \in Nat \ {0} /\ Prompts \subseteq Nat /\ PadUid \notin Prompts
  BY SizesAssumption, PromptsType
<1>1. CASE UNCHANGED vars
  BY <1>1 DEF vars, kvVars, trainerVars, BatchInv
<1>2. CASE WarmupBatch \/ StepBegin
  <2>1. AddBatch
    BY <1>2 DEF WarmupBatch, StepBegin
  <2>2. \A u \in Prompts :
          u <= fed' /\ kvPrompt'[u] = "absent" <=> u <= fed /\ kvPrompt[u] = "absent"
    BY <2>1, <1>0 DEF AddBatch, KvRegister
  <2>3. UNCHANGED <<batch, taken>>
    BY <2>1 DEF AddBatch
  <2> QED BY <1>2, <2>2, <2>3 DEF BatchInv, WarmupBatch, StepBegin
<1>3. CASE Take
  <2>1. PICK S \in SUBSET Prompts :
          /\ \A u \in S : kvPrompt[u] \in Reported /\ kvPrompt[u] = task[u]
          /\ KvClear(S, TooStale(Collect(snap, S), g))
          /\ batch' = Collect(snap, S) \ TooStale(Collect(snap, S), g)
          /\ taken' = taken \cup S
    BY <1>3, TakeFrame
  <2>2. \A u \in Prompts : kvPrompt'[u] = IF u \in S THEN "absent" ELSE kvPrompt[u]
    BY <2>1 DEF KvClear
  <2>3. \A u \in S : u <= fed
    BY <2>1, <1>0 DEF TagInv, Reported
  <2>4. \A t \in batch' : t[1] \in S
    BY <2>1 DEF Collect
  <2>5. pc' \notin {"warmup", "add", "sample", "take"} /\ fed' = fed
    BY <1>3 DEF Take
  <2> QED BY <2>1, <2>2, <2>3, <2>4, <2>5 DEF BatchInv
<1>4. CASE WarmupEnd \/ Poll \/ Abort \/ Drain \/ Sleep \/ Crash \/ UpdateWeights \/ Resume
  BY <1>4 DEF WarmupEnd, Poll, Abort, Drain, Sleep, Crash, UpdateWeights, Resume, kvVars, BatchInv
<1>5. CASE Balance \/ Cleanup
  BY <1>5, <1>0 DEF Balance, Cleanup, KvPutTraj, KvClearTraj, Padding, PadKeys, BatchInv
<1>6. ASSUME NEW u \in Prompts, PromptStart(u) \/ PromptFinish(u) \/ PromptFailure(u),
             UNCHANGED trainerVars
      PROVE  BatchInv'
  <2>1. \A v \in Prompts : kvPrompt'[v] = "absent" <=> kvPrompt[v] = "absent"
    BY <1>6 DEF PromptStart, PromptFinish, PromptFailure, KvTag, TagInv
  <2> QED BY <1>6, <2>1 DEF trainerVars, BatchInv
<1>7. ASSUME NEW u \in Prompts, NEW i \in Sessions, SessionNext(u, i), UNCHANGED trainerVars
      PROVE  BatchInv'
  BY <1>7, SessionFrame DEF trainerVars, BatchInv
<1> QED
  BY <1>1, <1>2, <1>3, <1>4, <1>5, <1>6, <1>7 DEF Next, TrainerNext, WorkerNext

LEMMA GroupsWholeStep ==
  ASSUME TypeOK, TagInv, SnapInv, BatchInv, GroupsWhole, [Next]_vars
  PROVE  GroupsWhole'
<1> USE PromptsType DEF TypeOK, KvTypeOK, LoopTypeOK
<1>1. CASE UNCHANGED <<task, batch>>
  BY <1>1 DEF GroupsWhole
<1>2. CASE WarmupBatch \/ StepBegin
  BY <1>2 DEF WarmupBatch, StepBegin, BatchInv, AddBatch, GroupsWhole
<1>3. CASE Take
  <2>1. PICK S \in SUBSET Prompts :
          /\ \A u \in S : kvPrompt[u] = snap.status[u] /\ kvPrompt[u] = task[u]
          /\ batch' = Collect(snap, S) \ TooStale(Collect(snap, S), g)
    BY <1>3, TakeFrame
  <2>2. ASSUME NEW u \in Prompts, task'[u] = "finished", NEW i \in Sessions, <<u, i>> \in batch',
               NEW j \in Sessions
        PROVE  <<u, j>> \in batch'
    <3>1. u \in S /\ <<u, i>> \in Collect(snap, S)
      BY <2>1, <2>2 DEF Collect
    <3>2. snap.status[u] = "finished"
      BY <1>3, <2>1, <2>2, <3>1 DEF Take, loopVars
    <3>3. <<u, j>> \in Collect(snap, S)
      BY <1>3, <3>1, <3>2 DEF Take, SnapInv, Collect
    <3>4. <<u, i>> \notin TooStale(Collect(snap, S), g)
      BY <2>1, <2>2
    <3>5. <<u, j>> \notin TooStale(Collect(snap, S), g)
      BY <3>1, <3>3, <3>4 DEF TooStale
    <3> QED BY <2>1, <3>3, <3>5
  <2> QED BY <2>2 DEF GroupsWhole
<1>4. CASE Balance
  <2>1. task' = task /\ \A u \in Prompts, i \in Sessions : <<u, i>> \in batch' <=> <<u, i>> \in batch
    BY <1>4 DEF Balance, Padding, PadKeys, loopVars
  <2> QED BY <2>1 DEF GroupsWhole
<1>5. CASE Cleanup
  BY <1>5 DEF Cleanup, GroupsWhole
<1>6. ASSUME NEW u \in Prompts, PromptStart(u) \/ PromptFinish(u) \/ PromptFailure(u),
             UNCHANGED trainerVars
      PROVE  GroupsWhole'
  <2>1. kvPrompt[u] # "absent"
    BY <1>6 DEF PromptStart, PromptFinish, PromptFailure, TagInv
  <2>2. \A i \in Sessions : <<u, i>> \notin batch
    BY <2>1 DEF BatchInv
  <2>3. batch' = batch /\ \A v \in Prompts : v # u => task'[v] = task[v]
    BY <1>6 DEF PromptStart, PromptFinish, PromptFailure, trainerVars
  <2> QED BY <2>2, <2>3 DEF GroupsWhole
<1>7. ASSUME NEW u \in Prompts, NEW i \in Sessions, SessionNext(u, i), UNCHANGED trainerVars
      PROVE  GroupsWhole'
  BY <1>7, SessionFrame DEF trainerVars, GroupsWhole
<1>8. CASE Abort
  BY <1>8 DEF Abort, AbortAll, GroupsWhole
<1> QED
  BY <1>1, <1>2, <1>3, <1>4, <1>5, <1>6, <1>7, <1>8
  DEF Next, TrainerNext, WorkerNext, vars, trainerVars, loopVars, WarmupEnd, Poll, Drain,
      Sleep, Crash, UpdateWeights, Resume

LEMMA NoOrphansStep ==
  ASSUME TypeOK, TagInv, SnapInv, BatchInv, NoOrphans, [Next]_vars
  PROVE  NoOrphans'
<1> USE PromptsType DEF TypeOK, KvTypeOK, LoopTypeOK
<1>1. CASE UNCHANGED <<kvTraj, kvPrompt, task, batch>>
  BY <1>1 DEF NoOrphans
<1>2. CASE WarmupBatch \/ StepBegin
  <2>1. AddBatch
    BY <1>2 DEF WarmupBatch, StepBegin
  <2>2. UNCHANGED <<kvTraj, batch>>
    BY <2>1 DEF AddBatch, KvRegister
  <2>3. \A t \in kvTraj : t[1] # PadUid => t[1] \in Prompts
    BY DEF RealKeys, PadKeys
  <2>4. \A u \in Prompts : kvPrompt[u] # "absent" => kvPrompt'[u] # "absent"
    BY <2>1 DEF AddBatch, KvRegister
  <2>5. \A u \in Prompts : task[u] = "failure" => task'[u] = "failure" \/ kvPrompt'[u] # "absent"
    BY <2>1 DEF AddBatch, KvRegister
  <2> QED BY <2>2, <2>3, <2>4, <2>5 DEF NoOrphans
<1>3. CASE Take
  <2>1. PICK S \in SUBSET Prompts :
          /\ \A u \in S : /\ kvPrompt[u] \in Reported
                          /\ kvPrompt[u] = snap.status[u] /\ kvPrompt[u] = task[u]
          /\ KvClear(S, TooStale(Collect(snap, S), g))
          /\ batch' = Collect(snap, S) \ TooStale(Collect(snap, S), g)
    BY <1>3, TakeFrame
  <2>2. task' = task /\ batch = {}
    BY <1>3 DEF Take, loopVars, BatchInv
  <2>3. ASSUME NEW t \in kvTraj', t \notin batch'
        PROVE  t[1] # PadUid /\ (kvPrompt'[t[1]] # "absent" \/ task[t[1]] = "failure")
    <3>1. t \in kvTraj /\ t \notin Collect(snap, S)
      BY <2>1, <2>3 DEF KvClear
    <3>2. t \in RealKeys /\ (kvPrompt[t[1]] # "absent" \/ task[t[1]] = "failure")
      BY <2>2, <3>1 DEF NoOrphans, PadKeys
    <3>3. t[1] \in Prompts /\ t[2] \in Sessions /\ t = <<t[1], t[2]>>
      BY <3>2 DEF RealKeys
    <3>4. CASE t[1] \in S
      <4>1. t \notin snap.trajs
        BY <3>1, <3>4 DEF Collect
      <4>2. snap.status[t[1]] # "finished"
        BY <1>3, <3>3, <4>1 DEF Take, SnapInv
      <4> QED BY <2>1, <3>3, <3>4, <4>2 DEF Reported
    <3>5. CASE t[1] \notin S
      BY <2>1, <3>2, <3>3, <3>5 DEF KvClear
    <3> QED BY <3>3, <3>4, <3>5
  <2> QED BY <2>2, <2>3 DEF NoOrphans
<1>4. CASE Abort
  BY <1>4 DEF Abort, AbortAll, kvVars, NoOrphans
<1>5. CASE Balance
  BY <1>5 DEF Balance, KvPutTraj, loopVars, NoOrphans
<1>6. CASE Cleanup
  BY <1>6 DEF Cleanup, KvClearTraj, loopVars, NoOrphans
<1>7. ASSUME NEW u \in Prompts, PromptStart(u) \/ PromptFinish(u) \/ PromptFailure(u),
             UNCHANGED trainerVars
      PROVE  NoOrphans'
  <2>1. kvTraj' = kvTraj /\ batch' = batch
    BY <1>7 DEF PromptStart, PromptFinish, PromptFailure, KvTag, trainerVars
  <2>2. \A v \in Prompts : /\ kvPrompt[v] # "absent" => kvPrompt'[v] # "absent"
                           /\ task[v] = "failure" => task'[v] = "failure"
    BY <1>7 DEF PromptStart, PromptFinish, PromptFailure, KvTag, Reported
  <2>3. \A t \in kvTraj : t[1] # PadUid => t[1] \in Prompts
    BY DEF RealKeys, PadKeys
  <2> QED BY <2>1, <2>2, <2>3 DEF NoOrphans
<1>8. ASSUME NEW u \in Prompts, NEW i \in Sessions, SessionNext(u, i), UNCHANGED trainerVars
      PROVE  NoOrphans'
  <2>1. UNCHANGED <<task, kvPrompt, batch>>
    BY <1>8, SessionFrame DEF trainerVars
  <2>2. kvPrompt[u] # "absent" \/ task[u] = "failure"
    <3>1. session[u][i].pc \notin {"none", "stored"}
      BY <1>8, SessionFrame
    <3>2. task[u] \in {"gathering", "failure"}
      BY <3>1 DEF TagInv, FreshSession, TaskStates, Reported
    <3> QED BY <3>2 DEF TagInv
  <2>3. kvTraj' \subseteq kvTraj \cup {<<u, i>>}
    BY <1>8, SessionFrame
  <2> QED BY <2>1, <2>2, <2>3 DEF NoOrphans
<1> QED
  BY <1>1, <1>2, <1>3, <1>4, <1>5, <1>6, <1>7, <1>8
  DEF Next, TrainerNext, WorkerNext, vars, kvVars, trainerVars, loopVars, WarmupEnd, Poll, Drain,
      Sleep, Crash, UpdateWeights, Resume

LEMMA NoResampleStep ==
  ASSUME TypeOK, TagInv, SnapInv, BatchInv, [Next]_vars
  PROVE  [\A t \in batch' \ batch : t[1] \notin taken]_vars
<1> SUFFICES ASSUME Next, NEW t \in batch' \ batch
             PROVE  t[1] \notin taken
  OBVIOUS
<1> USE PromptsType DEF TypeOK
<1>1. CASE Take
  <2>1. PICK S \in SUBSET Prompts :
          /\ \A u \in S : kvPrompt[u] \in Reported
          /\ batch' = Collect(snap, S) \ TooStale(Collect(snap, S), g)
    BY <1>1, TakeFrame
  <2>2. t[1] \in S
    BY <2>1 DEF Collect
  <2> QED BY <2>1, <2>2 DEF BatchInv, Reported
<1>2. CASE Balance
  BY <1>2 DEF Balance, Padding, PadKeys
<1>3. CASE ~Take /\ ~Balance
  BY <1>3
  DEF Next, TrainerNext, trainerVars, WarmupBatch, WarmupEnd, StepBegin, AddBatch, Poll, Abort,
      Drain, Sleep, Crash, UpdateWeights, Resume, Cleanup
<1> QED BY <1>1, <1>2, <1>3

(* The first group of invariants, together.                                *)
GroupInv ==
  /\ TypeOK /\ FedInv
  /\ TagInv /\ StoreInv /\ SnapInv /\ BatchInv
  /\ GroupsWhole /\ NoOrphans

LEMMA InitGroup == Init => GroupInv
<1> SUFFICES ASSUME Init PROVE GroupInv
  OBVIOUS
<1>1. TypeOK /\ FedInv
  BY InitType
<1>2. Prompts \subseteq Nat \ {0}
  BY PromptsType
<1>3. TagInv
  BY <1>2 DEF Init, KvInit, LoopInit, TagInv, Reported
<1>4. StoreInv
  BY DEF Init, KvInit, StoreInv
<1>5. SnapInv /\ BatchInv /\ GroupsWhole /\ NoOrphans
  BY <1>2 DEF Init, KvInit, SnapInv, BatchInv, GroupsWhole, NoOrphans
<1> QED BY <1>1, <1>3, <1>4, <1>5 DEF GroupInv

LEMMA GroupStep == GroupInv /\ [Next]_vars => GroupInv'
BY TypeStep, FedStep, TagStep, StoreStep, SnapStep, BatchStep, GroupsWholeStep, NoOrphansStep
DEF GroupInv

LEMMA GroupInvariant == Spec => []GroupInv
BY InitGroup, GroupStep, PTL DEF Spec

(* A finished GRPO group is trained whole or not at all.                   *)
THEOREM GroupsTrainedWhole == Spec => []GroupsWhole
<1>1. GroupInv => GroupsWhole
  BY DEF GroupInv
<1> QED BY <1>1, GroupInvariant, PTL

(* Only a failed prompt can leave trajectories behind in the store.        *)
THEOREM OnlyFailuresLeaveOrphans == Spec => []NoOrphans
<1>1. GroupInv => NoOrphans
  BY DEF GroupInv
<1> QED BY <1>1, GroupInvariant, PTL

(* No trajectory of a prompt selected before enters a later batch.         *)
THEOREM NeverResampled == Spec => NoResample
<1>1. GroupInv /\ [Next]_vars => [\A t \in batch' \ batch : t[1] \notin taken]_vars
  BY NoResampleStep DEF GroupInv
<1> QED BY <1>1, GroupInvariant, PTL DEF Spec, NoResample

------------------------------------------------------------------------------
(* Counting: each step takes one batch, and what is registered is what has *)
(* been handed out and not taken.                                          *)
LEMMA StepsType ==
  ASSUME TypeOK
  PROVE  StepsSampled \in Nat /\ IsFiniteSet(taken) /\ Cardinality(taken) \in Nat
<1>1. IsFiniteSet(taken)
  BY PromptsType, FS_Subset DEF TypeOK
<1> QED BY <1>1, FS_CardinalityType, SizesAssumption DEF TypeOK, StepsSampled

LEMMA FlowStep ==
  ASSUME TypeOK, TagInv, SnapInv, BatchInv, FlowInv, [Next]_vars
  PROVE  FlowInv'
<1>0. g \in 1 .. TotalSteps /\ BatchSize \in Nat \ {0} /\ TotalSteps \in Nat
  BY SizesAssumption DEF TypeOK
<1>1. CASE Take
  <2>1. PICK S \in SUBSET Prompts :
          /\ Cardinality(S) = BatchSize
          /\ \A u \in S : kvPrompt[u] \in Reported
          /\ taken' = taken \cup S
    BY <1>1, TakeFrame
  <2>2. IsFiniteSet(S) /\ IsFiniteSet(taken)
    BY PromptsType, StepsType, FS_Subset
  <2>3. S \cap taken = {}
    BY <2>1 DEF BatchInv, Reported
  <2>4. Cardinality(taken') = Cardinality(taken) + BatchSize
    <3>1. Cardinality(taken \cup S) = Cardinality(taken) + Cardinality(S) - Cardinality(taken \cap S)
      BY <2>2, FS_Union
    <3>2. Cardinality(taken \cap S) = 0
      BY <2>3, FS_EmptySet
    <3> QED BY <2>1, <3>1, <3>2, StepsType, <1>0
  <2>5. Cardinality(taken) = (g - 1) * BatchSize
    BY <1>1 DEF Take, FlowInv, StepsSampled
  <2>6. g * BatchSize = (g - 1) * BatchSize + BatchSize
    BY <1>0, BatchArithmetic
  <2>7. StepsSampled' = g
    BY <1>1 DEF Take, StepsSampled
  <2> QED BY <2>4, <2>5, <2>6, <2>7 DEF FlowInv
<1>2. CASE ~Take
  <2>1. taken' = taken
    BY <1>2 DEF Next, TrainerNext, WarmupBatch, WarmupEnd, StepBegin, AddBatch, Poll, Abort, Drain,
                Sleep, Balance, Crash, UpdateWeights, Resume, Cleanup, vars, trainerVars
  <2>2. StepsSampled' = StepsSampled
    BY <1>0, <1>2
    DEF Next, TrainerNext, WarmupBatch, WarmupEnd, StepBegin, AddBatch, Poll, Abort, Drain,
        Sleep, Balance, Crash, UpdateWeights, Resume, Cleanup, vars, trainerVars, StepsSampled
  <2> QED BY <2>1, <2>2 DEF FlowInv
<1> QED BY <1>1, <1>2

Registered == WithTag({"pending", "running"}) \cup WithTag(Reported)

LEMMA RegisteredCount ==
  ASSUME TypeOK, FedInv, TagInv, BatchInv, FlowInv
  PROVE  /\ Registered = {u \in Prompts : kvPrompt[u] # "absent"}
         /\ IsFiniteSet(Registered)
         /\ pc \in {"warmup", "add"} => Cardinality(Registered) = fed - (g - 1) * BatchSize
         /\ pc = "add" => Cardinality(Registered) = WarmupPrompts
         /\ pc \in {"sample", "take"} => Cardinality(Registered) = WarmupPrompts + BatchSize
<1> USE SizesAssumption, PromptsType
<1>1. Registered = {u \in Prompts : kvPrompt[u] # "absent"}
  BY DEF Registered, WithTag, Reported, PromptTags, TypeOK, KvTypeOK
<1>2. g \in 1 .. TotalSteps /\ fed \in 0 .. (Warmup + TotalSteps) * BatchSize
  BY DEF TypeOK
<1>3. \A u \in Prompts : kvPrompt[u] # "absent" => u <= fed
  BY <1>2 DEF TagInv
<1>4. 1 .. fed \subseteq Prompts
  BY <1>2 DEF Prompts
<1>5. Registered = (1 .. fed) \ taken
  <2>1. \A u \in Registered : u \in 1 .. fed /\ u \notin taken
    BY <1>1, <1>2, <1>3 DEF BatchInv
  <2>2. \A u \in 1 .. fed : u \notin taken => u \in Registered
    BY <1>1, <1>2, <1>4 DEF BatchInv
  <2> QED BY <2>1, <2>2
<1>6. taken \subseteq 1 .. fed
  BY <1>2 DEF BatchInv, TypeOK
<1>7. IsFiniteSet(1 .. fed) /\ Cardinality(1 .. fed) = fed
  BY <1>2, FS_Interval
<1>8. (1 .. fed) \cap taken = taken
  BY <1>6
<1>9. IsFiniteSet(Registered) /\ Cardinality(Registered) = fed - Cardinality(taken)
  BY <1>5, <1>7, <1>8, FS_Difference
<1>10. g * BatchSize = (g - 1) * BatchSize + BatchSize /\ (g - 1) * BatchSize \in Nat
  BY <1>2, BatchArithmetic
<1>11. pc \in {"warmup", "add", "sample", "take"} => Cardinality(taken) = (g - 1) * BatchSize
  BY DEF FlowInv, StepsSampled
<1> QED BY <1>1, <1>2, <1>9, <1>10, <1>11 DEF FedInv

(* In the synchronous mode a sample call takes everything registered.      *)
LEMMA SyncTakesAll ==
  ASSUME TypeOK, FedInv, TagInv, SnapInv, BatchInv, FlowInv, Take, Mode = "sync"
  PROVE  \A u \in Prompts : kvPrompt'[u] = "absent"
<1>1. PICK S \in SUBSET Prompts :
        /\ Cardinality(S) = BatchSize
        /\ \A u \in S : kvPrompt[u] \in Reported
        /\ KvClear(S, TooStale(Collect(snap, S), g))
  BY TakeFrame
<1>2. WarmupPrompts = 0
  BY SizesAssumption DEF WarmupPrompts, WarmupBatches
<1>3. IsFiniteSet(Registered) /\ Cardinality(Registered) = BatchSize
  BY <1>2, RegisteredCount, SizesAssumption DEF Take
<1>4. S \subseteq Registered
  BY <1>1, RegisteredCount DEF Reported
<1>5. S = Registered
  BY <1>1, <1>3, <1>4, FS_Subset
<1> QED BY <1>1, <1>5, RegisteredCount DEF KvClear

------------------------------------------------------------------------------
(* The engine.                                                             *)
LEMMA EngineStep ==
  ASSUME TypeOK, FedInv, TagInv, SnapInv, BatchInv, FlowInv, EngineInv, [Next]_vars
  PROVE  EngineInv'
<1> USE ModeAssumption DEF EngineInv, TypeOK, LoopTypeOK, TrainerStates
<1>1. CASE UNCHANGED vars
  BY <1>1 DEF vars, kvVars, loopVars, engineVars, trainerVars, Drained, Inflight
<1>2. CASE WarmupBatch \/ StepBegin
  BY <1>2 DEF WarmupBatch, StepBegin, AddBatch, engineVars
<1>3. CASE WarmupEnd \/ Poll
  BY <1>3 DEF WarmupEnd, Poll, engineVars
<1>4. CASE Take
  <2>1. pc' = IF Mode = "sync" THEN "drain" ELSE "abort"
    BY <1>4 DEF Take
  <2>2. UNCHANGED engineVars /\ pc = "take"
    BY <1>4 DEF Take
  <2>3. Mode = "sync" => \A u \in Prompts : kvPrompt'[u] = "absent"
    BY <1>4, SyncTakesAll
  <2> QED BY <2>1, <2>2, <2>3 DEF engineVars
<1>5. CASE Abort
  BY <1>5 DEF Abort, AbortAll
<1>6. CASE Drain
  BY <1>6 DEF Drain, Drained, Inflight, kvVars, loopVars, engineVars
<1>7. CASE Sleep \/ Crash \/ UpdateWeights \/ Resume
  BY <1>7 DEF Sleep, Crash, UpdateWeights, Resume, Drained, Inflight, kvVars, loopVars, engineVars
<1>8. CASE Balance \/ Cleanup
  BY <1>8 DEF Balance, Cleanup, KvPutTraj, KvClearTraj, Drained, Inflight, loopVars, engineVars
<1>9. ASSUME NEW u \in Prompts, PromptStart(u) \/ PromptFinish(u) \/ PromptFailure(u),
             UNCHANGED trainerVars
      PROVE  EngineInv'
  <2>1. UNCHANGED <<pc, fed, awake, paused>>
    BY <1>9 DEF PromptStart, PromptFinish, PromptFailure, trainerVars, engineVars
  <2>2. \A v \in Prompts : kvPrompt[v] = "absent" => kvPrompt'[v] = "absent"
    BY <1>9 DEF PromptStart, PromptFinish, PromptFailure, KvTag, TagInv, KvTypeOK
  <2>3. Drained => Drained'
    <3> SUFFICES ASSUME Drained, NEW v \in Prompts, NEW j \in Sessions
                 PROVE  session'[v][j].pc # "inflight"
      BY DEF Drained, Inflight
    <3>1. session'[v][j] = session[v][j] \/ session'[v][j].pc = "waiting"
      BY <1>9 DEF PromptStart, PromptFinish, PromptFailure, FreshSession
    <3> QED BY <3>1 DEF Drained, Inflight
  <2> QED BY <2>1, <2>2, <2>3
<1>10. ASSUME NEW u \in Prompts, NEW i \in Sessions, SessionNext(u, i), UNCHANGED trainerVars
       PROVE  EngineInv'
  <2>1. UNCHANGED <<pc, fed, awake, paused, kvPrompt>>
    BY <1>10, SessionFrame DEF trainerVars, engineVars
  <2>2. paused /\ Drained => Drained'
    <3> SUFFICES ASSUME paused, Drained, NEW v \in Prompts, NEW j \in Sessions
                 PROVE  session'[v][j].pc # "inflight"
      BY DEF Drained, Inflight
    <3>1. session[u][i].pc # "inflight" /\ session[v][j].pc # "inflight"
      BY DEF Drained, Inflight
    <3>2. CASE v # u \/ j # i
      BY <1>10, <3>1, <3>2, SessionFrame
    <3>3. CASE v = u /\ j = i
      <4>1. ToolReturn(u, i) \/ SessionFail(u, i) \/ Store(u, i)
        BY <1>10, <3>1 DEF SessionNext, Admit, TurnDone
      <4>2. session[u][i] \in SessionRecords
        OBVIOUS
      <4>3. \A q : Goto(u, i, q) => session'[u][i].pc = q
        BY <4>2 DEF Goto, SessionRecords
      <4>4. [session[u][i] EXCEPT !.pc = "output", !.turn = 0].pc = "output"
        BY <4>2 DEF SessionRecords
      <4>5. session'[u][i].pc \in {"waiting", "output", "failed", "stored"}
        BY <4>1, <4>3, <4>4 DEF ToolReturn, SessionFail, Store
      <4> QED BY <3>3, <4>5
    <3> QED BY <3>2, <3>3
  <2> QED BY <2>1, <2>2
<1> QED
  BY <1>1, <1>2, <1>3, <1>4, <1>5, <1>6, <1>7, <1>8, <1>9, <1>10 DEF Next, TrainerNext, WorkerNext

LEMMA IdleWhenAsleep ==
  ASSUME TypeOK, TagInv, EngineInv
  PROVE  AsleepIdle
<1> SUFFICES ASSUME ~awake, NEW u \in Prompts, NEW i \in Sessions, Inflight(u, i)
             PROVE  Mode = "sync" /\ task[u] = "failure"
  BY DEF AsleepIdle
<1>1. pc \in {"balance", "update", "crashed"}
  BY DEF EngineInv
<1>2. Mode = "sync"
  BY <1>1, ModeAssumption DEF EngineInv, Drained
<1>3. task[u] \notin {"none", "queued", "finished"}
  BY DEF TagInv, Inflight, FreshSession
<1>4. u <= fed
  BY <1>3, PromptsType DEF TagInv, TypeOK
<1>5. task[u] # "gathering"
  BY <1>1, <1>2, <1>4 DEF EngineInv, TagInv
<1> QED BY <1>2, <1>3, <1>5 DEF TypeOK, LoopTypeOK, TaskStates, Reported

------------------------------------------------------------------------------
(* The refinement.                                                         *)
SamplingInv == GroupInv /\ FlowInv /\ EngineInv

LEMMA InitSampling == Init => SamplingInv
<1> SUFFICES ASSUME Init PROVE SamplingInv
  OBVIOUS
<1>1. FlowInv
  BY FS_EmptySet, SizesAssumption DEF Init, FlowInv, StepsSampled
<1>2. EngineInv
  BY ModeAssumption DEF Init, EngineInv
<1> QED BY <1>1, <1>2, InitGroup DEF SamplingInv

LEMMA SamplingStep == SamplingInv /\ [Next]_vars => SamplingInv'
BY GroupStep, FlowStep, EngineStep DEF SamplingInv, GroupInv

LEMMA SamplingInvariant == Spec => []SamplingInv
BY InitSampling, SamplingStep, PTL DEF Spec

(* In the asynchronous mode the engine sleeps idle; in the synchronous one *)
(* only a sibling of a failed session may meet it asleep.                  *)
THEOREM EngineSleepsIdle == Spec => []AsleepIdle
<1>1. SamplingInv => AsleepIdle
  BY IdleWhenAsleep DEF SamplingInv, GroupInv
<1> QED BY <1>1, SamplingInvariant, PTL

(* The instance of GroupSampling counts with its own copy of Cardinality.  *)
LEMMA SameCardinality == \A S : GS!Cardinality(S) = Cardinality(S)
BY DEF GS!Cardinality, Cardinality

LEMMA SubmitStep ==
  ASSUME SamplingInv, WarmupBatch \/ StepBegin
  PROVE  GS!Next
<1> DEFINE us == fed + 1 .. fed + BatchSize
<1> USE SizesAssumption, PromptsType DEF TypeOK, KvTypeOK
<1>1. TypeOK /\ FedInv /\ TagInv /\ BatchInv /\ FlowInv
  BY DEF SamplingInv, GroupInv
<1>2. AddBatch /\ pc \in {"warmup", "add"}
  BY DEF WarmupBatch, StepBegin
<1>3. fed \in Nat /\ g \in 1 .. TotalSteps
  BY <1>1
<1>4. us \in SUBSET Prompts
  BY <1>1, <1>3, NextBatch DEF WarmupBatch, StepBegin, Prompts
<1>5. Cardinality(us) = BatchSize /\ IsFiniteSet(us)
  BY <1>3, FS_Interval
<1>6. \A u \in Prompts : kvPrompt'[u] = IF u \in us THEN "pending" ELSE kvPrompt[u]
  BY <1>2 DEF AddBatch, KvRegister
<1>7. \A u \in us : u > fed /\ kvPrompt[u] = "absent"
  BY <1>1, <1>3, <1>4 DEF TagInv
<1>8. WithTag({"pending", "running"})' = WithTag({"pending", "running"}) \cup us
  BY <1>4, <1>6 DEF WithTag
<1>9. WithTag(Reported)' = WithTag(Reported)
  BY <1>6, <1>7 DEF WithTag, Reported
<1>10. Consumed' = Consumed
  <2>1. fed' = fed + BatchSize
    BY <1>2 DEF AddBatch
  <2>2. ASSUME NEW u \in Prompts
        PROVE  u <= fed' /\ kvPrompt'[u] = "absent" <=> u <= fed /\ kvPrompt[u] = "absent"
    <3>1. u \in Nat /\ BatchSize \in Nat
      OBVIOUS
    <3>2. CASE u \in us
      BY <1>3, <1>6, <1>7, <3>1, <3>2
    <3>3. CASE u \notin us
      BY <1>3, <1>6, <2>1, <3>1, <3>3
    <3> QED BY <3>2, <3>3
  <2> QED BY <2>2 DEF Consumed
<1>11. us \subseteq Prompts \ (Registered \cup Consumed)
  BY <1>1, <1>3, <1>4, <1>7, RegisteredCount DEF Consumed
<1>12. Cardinality(Registered \cup us) = Cardinality(Registered) + BatchSize
  <2>1. Registered \cap us = {}
    BY <1>11
  <2>2. IsFiniteSet(Registered) /\ Cardinality(Registered) \in Nat
    BY <1>1, RegisteredCount, FS_CardinalityType
  <2>3. Cardinality(Registered \cup us)
          = Cardinality(Registered) + Cardinality(us) - Cardinality(Registered \cap us)
    BY <1>5, <2>2, FS_Union
  <2>4. Cardinality(Registered \cap us) = 0
    BY <2>1, FS_EmptySet
  <2> QED BY <1>5, <2>2, <2>3, <2>4
<1>13. Cardinality(Registered) <= WarmupPrompts
  <2>1. CASE WarmupBatch
    <3>1. fed + BatchSize <= WarmupPrompts + BatchSize /\ g = 1
      BY <1>1, <1>3, <2>1 DEF WarmupBatch, FedInv
    <3>2. (g - 1) * BatchSize = 0
      BY <3>1
    <3> QED BY <1>1, <1>2, <1>3, <3>1, <3>2, RegisteredCount
  <2>2. CASE StepBegin
    BY <1>1, <2>2, RegisteredCount DEF StepBegin
  <2> QED BY <2>1, <2>2
<1>14. Cardinality(Registered \cup us) <= WarmupPrompts + BatchSize
  <2>1. Cardinality(Registered) \in Nat
    BY <1>1, RegisteredCount, FS_CardinalityType
  <2> QED BY <1>12, <1>13, <2>1
<1>15. StepsSampled' = StepsSampled
  BY <1>2 DEF WarmupBatch, StepBegin, AddBatch, StepsSampled
<1>16. GS!Submit(us)
  BY <1>5, <1>8, <1>9, <1>10, <1>11, <1>14, <1>15, SameCardinality DEF GS!Submit, Registered
<1> QED BY <1>4, <1>16 DEF GS!Next

LEMMA ConsumeStep ==
  ASSUME SamplingInv, Take
  PROVE  GS!Next
<1> USE PromptsType DEF TypeOK, KvTypeOK
<1>1. TypeOK /\ TagInv /\ SnapInv /\ BatchInv
  BY DEF SamplingInv, GroupInv
<1>2. PICK S \in SUBSET Prompts :
        /\ Cardinality(S) = BatchSize
        /\ \A u \in S : kvPrompt[u] \in Reported /\ kvPrompt[u] = task[u]
        /\ KvClear(S, TooStale(Collect(snap, S), g))
  BY <1>1, TakeFrame
<1>3. \A u \in Prompts : kvPrompt'[u] = IF u \in S THEN "absent" ELSE kvPrompt[u]
  BY <1>2 DEF KvClear
<1>4. \A u \in S : u <= fed
  BY <1>1, <1>2 DEF TagInv, Reported
<1>5. S \subseteq WithTag(Reported) /\ WithTag(Reported)' = WithTag(Reported) \ S
  BY <1>2, <1>3 DEF WithTag, Reported
<1>6. WithTag({"pending", "running"})' = WithTag({"pending", "running"})
  BY <1>2, <1>3 DEF WithTag, Reported
<1>7. Consumed' = Consumed \cup S
  BY <1>3, <1>4 DEF Consumed, Take
<1>8. StepsSampled' = StepsSampled + 1
  BY <1>1 DEF Take, StepsSampled
<1>9. GS!Consume(S)
  BY <1>2, <1>5, <1>6, <1>7, <1>8, SameCardinality DEF GS!Consume
<1> QED BY <1>9 DEF GS!Next

LEMMA ReportStep ==
  ASSUME SamplingInv, NEW u \in Prompts, PromptFinish(u) \/ PromptFailure(u), UNCHANGED trainerVars
  PROVE  GS!Next
<1> USE DEF TypeOK, KvTypeOK
<1>1. TypeOK /\ TagInv
  BY DEF SamplingInv, GroupInv
<1>2. kvPrompt[u] = "running" /\ kvPrompt'[u] \in Reported
  BY <1>1 DEF PromptFinish, PromptFailure, KvTag, TagInv, Reported
<1>3. \A v \in Prompts : v # u => kvPrompt'[v] = kvPrompt[v]
  BY <1>1 DEF PromptFinish, PromptFailure, KvTag
<1>4. /\ u \in WithTag({"pending", "running"})
      /\ WithTag({"pending", "running"})' = WithTag({"pending", "running"}) \ {u}
      /\ WithTag(Reported)' = WithTag(Reported) \cup {u}
  BY <1>2, <1>3 DEF WithTag, Reported
<1>5. Consumed' = Consumed
  BY <1>2, <1>3 DEF Consumed, trainerVars, Reported
<1>6. StepsSampled' = StepsSampled
  BY DEF StepsSampled, trainerVars
<1> QED BY <1>4, <1>5, <1>6 DEF GS!Report, GS!Next

(* A step that leaves tags, dataloader and step number, or only starts a   *)
(* prompt, is a stutter of GroupSampling.                                  *)
LEMMA StutterStep ==
  ASSUME SamplingInv,
         \A u \in Prompts :
           \/ kvPrompt'[u] = kvPrompt[u]
           \/ kvPrompt[u] = "pending" /\ kvPrompt'[u] = "running",
         fed' = fed, StepsSampled' = StepsSampled
  PROVE  UNCHANGED GS!svars
BY DEF GS!svars, WithTag, Consumed, Reported

LEMMA RefinementStep == SamplingInv /\ [Next]_vars => [GS!Next]_(GS!svars)
<1> SUFFICES ASSUME SamplingInv, [Next]_vars
             PROVE  GS!Next \/ UNCHANGED GS!svars
  OBVIOUS
<1>0. TypeOK /\ TagInv
  BY DEF SamplingInv, GroupInv
<1>1. CASE WarmupBatch \/ StepBegin
  BY <1>1, SubmitStep
<1>2. CASE Take
  BY <1>2, ConsumeStep
<1>3. CASE UNCHANGED vars
  BY <1>3, StutterStep DEF vars, kvVars, trainerVars, StepsSampled
<1>4. CASE WarmupEnd \/ Poll \/ Abort \/ Drain \/ Sleep \/ Balance \/ Crash \/ UpdateWeights
             \/ Resume \/ Cleanup
  <2>1. kvPrompt' = kvPrompt /\ fed' = fed
    BY <1>4 DEF WarmupEnd, Poll, Abort, Drain, Sleep, Balance, Crash, UpdateWeights, Resume,
                Cleanup, KvPutTraj, KvClearTraj, kvVars
  <2>2. StepsSampled' = StepsSampled
    BY <1>0, <1>4, SizesAssumption
    DEF WarmupEnd, Poll, Abort, Drain, Sleep, Balance, Crash, UpdateWeights, Resume,
        Cleanup, StepsSampled, TypeOK
  <2> QED BY <2>1, <2>2, StutterStep
<1>5. ASSUME NEW u \in Prompts, PromptStart(u), UNCHANGED trainerVars
      PROVE  UNCHANGED GS!svars
  <2>1. \A v \in Prompts :
          \/ kvPrompt'[v] = kvPrompt[v]
          \/ kvPrompt[v] = "pending" /\ kvPrompt'[v] = "running"
    BY <1>0, <1>5 DEF PromptStart, KvTag, TagInv, TypeOK, KvTypeOK
  <2> QED BY <1>5, <2>1, StutterStep DEF trainerVars, StepsSampled
<1>6. ASSUME NEW u \in Prompts, PromptFinish(u) \/ PromptFailure(u), UNCHANGED trainerVars
      PROVE  GS!Next
  BY <1>6, ReportStep
<1>7. ASSUME NEW u \in Prompts, NEW i \in Sessions, SessionNext(u, i), UNCHANGED trainerVars
      PROVE  UNCHANGED GS!svars
  BY <1>0, <1>7, SessionFrame, StutterStep DEF trainerVars, StepsSampled
<1> QED
  BY <1>1, <1>2, <1>3, <1>4, <1>5, <1>6, <1>7 DEF Next, TrainerNext, WorkerNext

(* The trainer with its workers, the store and the replay buffer delivers  *)
(* what GroupSampling promises.                                            *)
THEOREM Refinement == Spec => ImplementsGroupSampling
<1>1. Init => GS!Init
  <2> SUFFICES ASSUME Init PROVE GS!Init
    OBVIOUS
  <2>1. WithTag({"pending", "running"}) = {} /\ WithTag(Reported) = {}
    BY DEF Init, KvInit, WithTag, Reported
  <2>2. fed = 0 /\ \A u \in Prompts : ~(u <= 0)
    BY PromptsType DEF Init
  <2>3. StepsSampled = 0
    BY DEF Init, StepsSampled
  <2>4. Consumed = {}
    BY <2>2 DEF Consumed
  <2> QED BY <2>1, <2>3, <2>4 DEF GS!Init
<1> QED
  BY <1>1, RefinementStep, SamplingInvariant, PTL DEF Spec, ImplementsGroupSampling, GS!Spec

(* The prompts consumed are BatchSize per training step, whatever failed,  *)
(* was aborted or was late.                                                *)
THEOREM EachPromptOnce == Spec => []GS!ExactlyOnce
<1>1. SamplingInv => GS!ExactlyOnce
  <2> SUFFICES ASSUME SamplingInv PROVE GS!ExactlyOnce
    OBVIOUS
  <2>1. TypeOK /\ BatchInv /\ FlowInv
    BY DEF SamplingInv, GroupInv
  <2>2. Consumed = taken
    BY <2>1 DEF Consumed, BatchInv, TypeOK
  <2> QED BY <2>1, <2>2, SameCardinality DEF FlowInv, GS!ExactlyOnce
<1> QED BY <1>1, SamplingInvariant, PTL

------------------------------------------------------------------------------
(* Versions of the weights, and what each strategy bounds.                 *)
(* Another output of the engine keeps a session within its versions.       *)
LEMMA SpannedVersion ==
  ASSUME NEW s \in SessionRecords, NEW v \in 0 .. TotalSteps, NEW b \in Int, b - 1 <= v,
         SessionVersion(s, b, v), NEW r \in SessionRecords,
         r.min = Spanned(s, v).min, r.max = Spanned(s, v).max
  PROVE  SessionVersion(r, b, v)
<1>1. s.min \in Int /\ s.max \in Int /\ v \in Int /\ v # NoVersion
  BY SizesAssumption DEF SessionRecords, NoVersion
<1>2. r.max = v /\ r.min = IF s.min = NoVersion THEN v ELSE s.min
  BY SpannedType
<1> QED BY <1>1, <1>2 DEF SessionVersion

(* A move of a session that leaves its versions alone.                     *)
LEMMA MovedVersion ==
  ASSUME NEW s \in SessionRecords, NEW r \in SessionRecords, NEW v, NEW b,
         SessionVersion(s, b, v), r.min = s.min, r.max = s.max,
         r.pc \in {"tool", "output", "stored"} => s.pc \in {"tool", "output", "stored"}
  PROVE  SessionVersion(r, b, v)
BY DEF SessionVersion

(* The effect of a session step on versions: none, or one more output.     *)
LEMMA SessionMove ==
  ASSUME TypeOK, NEW u \in Prompts, NEW i \in Sessions, SessionNext(u, i)
  PROVE  LET s == session[u][i]
             r == session'[u][i]
         IN /\ s \in SessionRecords /\ r \in SessionRecords
            /\ \/ /\ s.pc = "inflight"
                  /\ r.min = Spanned(s, version).min /\ r.max = Spanned(s, version).max
               \/ /\ r.min = s.min /\ r.max = s.max
                  /\ r.pc \in {"tool", "output", "stored"} => s.pc \in {"tool", "output"}
<1> USE DEF TypeOK, LoopTypeOK
<1> DEFINE s == session[u][i]
           r == session'[u][i]
<1>1. s \in SessionRecords /\ session \in [Prompts -> [Sessions -> SessionRecords]]
  OBVIOUS
<1>2. ASSUME NEW q, Goto(u, i, q)
      PROVE  r = [s EXCEPT !.pc = q]
  BY <1>1, <1>2 DEF Goto
<1>3. ASSUME NEW q, Goto(u, i, q)
      PROVE  r.pc = q /\ r.min = s.min /\ r.max = s.max
  BY <1>1, <1>2, <1>3 DEF SessionRecords
<1>4. ASSUME NEW q \in SessionStates, Goto(u, i, q)
      PROVE  r \in SessionRecords
  <2>1. [s EXCEPT !.pc = q] \in SessionRecords
    BY <1>1 DEF SessionRecords
  <2> QED BY <1>2, <1>4, <2>1
<1>5. CASE Admit(u, i)
  BY <1>3, <1>4, <1>5 DEF Admit, SessionStates
<1>6. CASE TurnDone(u, i)
  <2> DEFINE t == Spanned(s, version)
  <2>1. t \in SessionRecords /\ t.turn = s.turn
    BY <1>1, SpannedType
  <2>2. r = [t EXCEPT !.pc = "tool", !.turn = @ + 1] \/ r = [t EXCEPT !.pc = "output", !.turn = 0]
    BY <1>1, <1>6 DEF TurnDone
  <2>3. r.min = t.min /\ r.max = t.max
    BY <2>1, <2>2 DEF SessionRecords
  <2>4. 0 \in 0 .. MaxTurns /\ (r = [t EXCEPT !.pc = "output", !.turn = 0]
                                \/ (r = [t EXCEPT !.pc = "tool", !.turn = @ + 1]
                                    /\ t.turn + 1 \in 0 .. MaxTurns))
    BY <1>1, <1>6, <2>1, TurnsAssumption DEF TurnDone, SessionRecords
  <2>5. r \in SessionRecords
    BY <2>1, <2>4, MoveType DEF SessionStates
  <2> QED BY <1>1, <1>6, <2>3, <2>5 DEF TurnDone
<1>7. CASE ToolReturn(u, i)
  <2>1. CASE Goto(u, i, "waiting")
    BY <1>1, <1>3, <1>4, <1>7, <2>1 DEF ToolReturn, SessionStates
  <2>2. CASE session' = [session EXCEPT ![u][i] = [s EXCEPT !.pc = "output", !.turn = 0]]
    <3>1. r = [s EXCEPT !.pc = "output", !.turn = 0]
      BY <1>1, <2>2
    <3>2. r.min = s.min /\ r.max = s.max
      BY <1>1, <3>1 DEF SessionRecords
    <3>3. 0 \in 0 .. MaxTurns
      BY TurnsAssumption
    <3>4. r \in SessionRecords
      BY <1>1, <3>1, <3>3, MoveType DEF SessionStates
    <3> QED BY <1>1, <1>7, <3>2, <3>4 DEF ToolReturn
  <2> QED BY <1>7, <2>1, <2>2 DEF ToolReturn
<1>8. CASE SessionFail(u, i)
  BY <1>1, <1>3, <1>4, <1>8 DEF SessionFail, SessionStates
<1>9. CASE Store(u, i)
  BY <1>1, <1>3, <1>4, <1>9 DEF Store, SessionStates
<1> QED BY <1>5, <1>6, <1>7, <1>8, <1>9 DEF SessionNext

LEMMA VersionStep ==
  ASSUME TypeOK, TypeOK', TagInv, EngineInv, VersionInv, [Next]_vars
  PROVE  VersionInv'
<1> USE SizesAssumption DEF TypeOK, LoopTypeOK, TrainerStates
<1>0. g \in 1 .. TotalSteps /\ version \in 0 .. TotalSteps /\ BatchSize \in Nat
  OBVIOUS
<1>1. CASE UNCHANGED <<pc, g, task, promptStep, session, version>>
  BY <1>1 DEF VersionInv
<1>2. CASE WarmupBatch \/ StepBegin
  <2>1. AddBatch /\ pc \in {"warmup", "add"} /\ pc' \in {"warmup", "sample"}
    BY <1>2 DEF WarmupBatch, StepBegin
  <2>2. UNCHANGED <<session, version, g>>
    BY <2>1 DEF AddBatch, engineVars
  <2>3. ASSUME NEW u \in Prompts, u \in fed + 1 .. fed + BatchSize
        PROVE  promptStep'[u] = g /\ task[u] = "none"
    BY <2>1, <2>3, PromptsType DEF AddBatch, KvRegister, TagInv
  <2>4. ASSUME NEW u \in Prompts, u \notin fed + 1 .. fed + BatchSize
        PROVE  promptStep'[u] = promptStep[u] /\ task'[u] = task[u]
    BY <2>1, <2>4 DEF AddBatch, KvRegister
  <2>5. \A u \in Prompts : task'[u] # "none" => promptStep'[u] \in 1 .. g
    BY <1>0, <2>3, <2>4 DEF VersionInv
  <2>6. FreshSession.pc = "none" /\ FreshSession.min = NoVersion /\ FreshSession.max = NoVersion
    BY DEF FreshSession
  <2>7. \A u \in Prompts, i \in Sessions : SessionVersion(session[u][i], promptStep'[u], version)
    BY <2>3, <2>4, <2>6 DEF VersionInv, TagInv, SessionVersion
  <2> QED BY <2>1, <2>2, <2>5, <2>7 DEF VersionInv
<1>3. CASE WarmupEnd \/ Poll \/ Take \/ Drain \/ Sleep \/ Balance \/ Crash \/ Resume
  <2>1. UNCHANGED <<g, task, promptStep, session, version>>
    BY <1>3 DEF WarmupEnd, Poll, Take, Drain, Sleep, Balance, Crash, Resume, KvClear, KvPutTraj,
                kvVars, loopVars, engineVars
  <2>2. pc \in {"resume", "cleanup", "done"} <=> pc' \in {"resume", "cleanup", "done"}
    BY <1>3 DEF WarmupEnd, Poll, Take, Drain, Sleep, Balance, Crash, Resume
  <2> QED BY <2>1, <2>2 DEF VersionInv
<1>4. CASE Abort
  <2>1. UNCHANGED <<g, task, promptStep, version>> /\ pc = "abort" /\ pc' = "drain"
    BY <1>4 DEF Abort, AbortAll, kvVars
  <2>2. ASSUME NEW u \in Prompts, NEW i \in Sessions
        PROVE  SessionVersion(session'[u][i], promptStep[u], version)
    <3> DEFINE s == session[u][i]
               t == Spanned(s, version)
    <3>1. s \in SessionRecords /\ t \in SessionRecords
      BY <1>0, SpannedType
    <3>2. CASE Inflight(u, i)
      <4>1. session'[u][i] = [t EXCEPT !.pc = "waiting"]
        BY <1>4, <3>2 DEF Abort, AbortAll
      <4>2. [t EXCEPT !.pc = "waiting"] \in SessionRecords
        BY <3>1 DEF SessionRecords, SessionStates
      <4>3. /\ [t EXCEPT !.pc = "waiting"].min = t.min
            /\ [t EXCEPT !.pc = "waiting"].max = t.max
        BY <3>1 DEF SessionRecords
      <4>4. task[u] # "none"
        BY <3>2 DEF TagInv, Inflight, FreshSession
      <4>5. promptStep[u] \in Int /\ promptStep[u] - 1 <= version
        BY <1>0, <2>1, <4>4 DEF VersionInv
      <4>6. SessionVersion(s, promptStep[u], version)
        BY DEF VersionInv
      <4>7. SessionVersion([t EXCEPT !.pc = "waiting"], promptStep[u], version)
        BY <1>0, <3>1, <4>2, <4>3, <4>5, <4>6, SpannedVersion
      <4> QED BY <4>1, <4>7
    <3>3. CASE ~Inflight(u, i)
      BY <1>4, <3>3 DEF Abort, AbortAll, VersionInv
    <3> QED BY <3>2, <3>3
  <2> QED BY <2>1, <2>2 DEF VersionInv
<1>5. CASE UpdateWeights
  <2>1. /\ version = g - 1 /\ version' = g /\ pc' \in {"cleanup", "resume"}
        /\ UNCHANGED <<g, task, promptStep, session>>
    BY <1>5 DEF UpdateWeights, VersionInv, kvVars, loopVars
  <2>2. \A u \in Prompts, i \in Sessions :
          session[u][i].max \in Int
    BY DEF SessionRecords, NoVersion
  <2>3. \A u \in Prompts, i \in Sessions : SessionVersion(session[u][i], promptStep[u], g)
    BY <1>0, <2>1, <2>2 DEF VersionInv, SessionVersion
  <2> QED BY <2>1, <2>3 DEF VersionInv
<1>6. CASE Cleanup
  <2>1. pc = "cleanup" /\ version = g /\ UNCHANGED <<task, promptStep, session, version>>
    BY <1>6 DEF Cleanup, KvClearTraj, loopVars, engineVars, VersionInv
  <2>2. (pc' = "done" /\ g' = g) \/ (pc' = "add" /\ g' = g + 1)
    BY <1>6 DEF Cleanup
  <2>3. version' = IF pc' \in {"resume", "cleanup", "done"} THEN g' ELSE g' - 1
    <3>1. CASE pc' = "done" /\ g' = g
      BY <2>1, <3>1
    <3>2. CASE pc' = "add" /\ g' = g + 1
      BY <1>0, <2>1, <3>2
    <3> QED BY <2>2, <3>1, <3>2
  <2>4. \A u \in Prompts : task[u] # "none" => promptStep[u] \in 1 .. g'
    BY <1>0, <2>2 DEF VersionInv
  <2> QED BY <2>1, <2>3, <2>4 DEF VersionInv
<1>7. ASSUME NEW u \in Prompts, PromptStart(u), UNCHANGED trainerVars
      PROVE  VersionInv'
  <2>1. UNCHANGED <<pc, g, promptStep, version>>
    BY <1>7 DEF PromptStart, KvTag, trainerVars, engineVars
  <2>2. \A v \in Prompts : task'[v] # "none" => task[v] # "none"
    BY <1>7 DEF PromptStart
  <2>3. \A v \in Prompts, i \in Sessions :
          \/ session'[v][i] = session[v][i]
          \/ session'[v][i] = [FreshSession EXCEPT !.pc = "waiting"]
    BY <1>7 DEF PromptStart
  <2>4. \A b, v : SessionVersion([FreshSession EXCEPT !.pc = "waiting"], b, v)
    BY DEF SessionVersion, FreshSession
  <2>5. \A v \in Prompts, i \in Sessions :
          SessionVersion(session[v][i], promptStep[v], version)
    BY DEF VersionInv
  <2>6. \A v \in Prompts, i \in Sessions :
          SessionVersion(session'[v][i], promptStep[v], version)
    <3> SUFFICES ASSUME NEW v \in Prompts, NEW i \in Sessions
                 PROVE  SessionVersion(session'[v][i], promptStep[v], version)
      OBVIOUS
    <3>1. CASE session'[v][i] = session[v][i]
      BY <2>5, <3>1
    <3>2. CASE session'[v][i] = [FreshSession EXCEPT !.pc = "waiting"]
      <4>1. SessionVersion([FreshSession EXCEPT !.pc = "waiting"], promptStep[v], version)
        BY <2>4
      <4> QED BY <3>2, <4>1
    <3> QED BY <2>3, <3>1, <3>2
  <2> QED BY <2>1, <2>2, <2>6 DEF VersionInv
<1>8. ASSUME NEW u \in Prompts, PromptFinish(u) \/ PromptFailure(u), UNCHANGED trainerVars
      PROVE  VersionInv'
  <2>1. UNCHANGED <<pc, g, promptStep, version, session>>
    BY <1>8 DEF PromptFinish, PromptFailure, KvTag, trainerVars, engineVars
  <2>2. \A v \in Prompts : task'[v] # "none" => task[v] # "none"
    BY <1>8 DEF PromptFinish, PromptFailure
  <2> QED BY <2>1, <2>2 DEF VersionInv
<1>9. ASSUME NEW u \in Prompts, NEW i \in Sessions, SessionNext(u, i), UNCHANGED trainerVars
      PROVE  VersionInv'
  <2> DEFINE s == session[u][i]
             r == session'[u][i]
  <2>1. UNCHANGED <<pc, g, task, promptStep, version>>
    BY <1>9, SessionFrame DEF trainerVars, engineVars
  <2>2. s.pc \in {"waiting", "inflight", "tool", "output"}
    BY <1>9, SessionFrame
  <2>3. task[u] # "none"
    BY <2>2 DEF TagInv, FreshSession
  <2>4. promptStep[u] \in Int /\ promptStep[u] - 1 <= version
    BY <1>0, <2>3 DEF VersionInv
  <2>5. SessionVersion(s, promptStep[u], version)
    BY DEF VersionInv
  <2>6. /\ s \in SessionRecords /\ r \in SessionRecords
        /\ \/ r.min = Spanned(s, version).min /\ r.max = Spanned(s, version).max
           \/ /\ r.min = s.min /\ r.max = s.max
              /\ r.pc \in {"tool", "output", "stored"} => s.pc \in {"tool", "output"}
    BY <1>9, SessionMove
  <2>7. SessionVersion(r, promptStep[u], version)
    BY <1>0, <2>4, <2>5, <2>6, SpannedVersion, MovedVersion
  <2>8. \A v \in Prompts, j \in Sessions :
          session'[v][j] = session[v][j] \/ (v = u /\ j = i)
    BY <1>9, SessionFrame
  <2> QED BY <2>1, <2>7, <2>8 DEF VersionInv
<1> QED
  BY <1>1, <1>2, <1>3, <1>4, <1>5, <1>6, <1>7, <1>8, <1>9
  DEF Next, TrainerNext, WorkerNext, vars, kvVars, loopVars, engineVars, trainerVars

LEMMA AgeStep ==
  ASSUME TypeOK, TypeOK', TagInv, SnapInv, EngineInv, VersionInv, AgeInv, [Next]_vars
  PROVE  AgeInv'
<1> SUFFICES ASSUME Strategy = "wait", NEW u \in Prompts, kvPrompt'[u] \in {"pending", "running"}
             PROVE  /\ version' - promptStep'[u] + 2 <= Threshold
                    /\ pc' \notin {"warmup", "add", "sample"} =>
                         g' - promptStep'[u] + 1 < Threshold
  BY DEF AgeInv, Staleness
<1> USE SizesAssumption, ThresholdAssumption DEF TypeOK, KvTypeOK, LoopTypeOK
<1>0. /\ g \in Nat /\ version \in Nat /\ BatchSize \in Nat /\ fed \in Nat
      /\ promptStep[u] \in Nat /\ u \in Nat
  BY PromptsType
<1>1. CASE WarmupBatch \/ StepBegin
  <2>1. AddBatch /\ pc \in {"warmup", "add"} /\ pc' \in {"warmup", "sample"}
    BY <1>1 DEF WarmupBatch, StepBegin
  <2>2. version' = version /\ version = g - 1
    BY <2>1 DEF AddBatch, engineVars, VersionInv
  <2>3. CASE u \in fed + 1 .. fed + BatchSize
    <3>1. promptStep'[u] = g
      BY <2>1, <2>3 DEF AddBatch, KvRegister
    <3>2. version' - promptStep'[u] + 2 = 1
      BY <1>0, <2>2, <3>1
    <3>3. 1 <= Threshold
      OBVIOUS
    <3> QED BY <2>1, <3>2, <3>3
  <2>4. CASE u \notin fed + 1 .. fed + BatchSize
    <3>1. promptStep'[u] = promptStep[u] /\ kvPrompt[u] = kvPrompt'[u]
      BY <2>1, <2>4 DEF AddBatch, KvRegister
    <3> QED BY <2>1, <2>2, <3>1 DEF AgeInv
  <2> QED BY <2>3, <2>4
<1>2. ASSUME kvPrompt[u] \in {"pending", "running"}, promptStep'[u] = promptStep[u], version' = version,
             g' = g, pc' \notin {"warmup", "add", "sample"} => pc \notin {"warmup", "add", "sample"}
      PROVE  /\ version' - promptStep'[u] + 2 <= Threshold
             /\ pc' \notin {"warmup", "add", "sample"} => g' - promptStep'[u] + 1 < Threshold
  BY <1>2 DEF AgeInv, Staleness
<1>3. CASE UNCHANGED vars
  BY <1>2, <1>3 DEF vars, kvVars, engineVars, trainerVars
<1>4. CASE WarmupEnd \/ Drain \/ Sleep \/ Balance \/ Crash \/ Resume
  <2>1. UNCHANGED <<kvPrompt, promptStep, version, g>>
    BY <1>4 DEF WarmupEnd, Drain, Sleep, Balance, Crash, Resume, KvPutTraj, kvVars, engineVars
  <2>2. pc' \notin {"warmup", "add", "sample"} => pc \notin {"warmup", "add", "sample"}
    BY <1>4 DEF WarmupEnd, Drain, Sleep, Balance, Crash, Resume
  <2> QED BY <1>2, <2>1, <2>2
<1>5. CASE Abort
  BY <1>2, <1>5 DEF Abort, AbortAll, kvVars
<1>6. CASE Poll
  <2>1. UNCHANGED <<kvPrompt, promptStep, version, g>>
    BY <1>6 DEF Poll, kvVars, engineVars
  <2>2. Staleness(u, g) < Threshold
    BY <1>6, <2>1 DEF Poll, HasEnoughSamples, NoneAtThreshold, SyncMetadata
  <2> QED BY <2>1, <2>2 DEF AgeInv, Staleness
<1>7. CASE Take
  <2>1. PICK S \in SUBSET Prompts : KvClear(S, TooStale(Collect(snap, S), g))
    BY <1>7, TakeFrame
  <2>2. kvPrompt[u] \in {"pending", "running"} /\ promptStep' = promptStep
    BY <2>1 DEF KvClear
  <2>3. version' = version /\ g' = g /\ pc \notin {"warmup", "add", "sample"}
    BY <1>7 DEF Take, engineVars
  <2> QED BY <1>2, <2>2, <2>3
<1>8. CASE UpdateWeights
  <2>1. UNCHANGED <<kvPrompt, promptStep, g>> /\ version' = g /\ pc = "update"
    BY <1>8 DEF UpdateWeights, kvVars
  <2>2. g - promptStep[u] + 1 < Threshold
    BY <2>1 DEF AgeInv, Staleness
  <2> QED BY <1>0, <2>1, <2>2
<1>9. CASE Cleanup
  <2>1. UNCHANGED <<kvPrompt, promptStep, version>> /\ pc = "cleanup"
    BY <1>9 DEF Cleanup, KvClearTraj, engineVars
  <2>2. pc' = "add" \/ g' = g
    BY <1>9 DEF Cleanup
  <2> QED BY <2>1, <2>2 DEF AgeInv, Staleness
<1>10. ASSUME NEW v \in Prompts, PromptStart(v) \/ PromptFinish(v) \/ PromptFailure(v),
              UNCHANGED trainerVars
       PROVE  /\ version' - promptStep'[u] + 2 <= Threshold
              /\ pc' \notin {"warmup", "add", "sample"} => g' - promptStep'[u] + 1 < Threshold
  <2>1. kvPrompt[u] \in {"pending", "running"}
    BY <1>10 DEF PromptStart, PromptFinish, PromptFailure, KvTag, TagInv, Reported
  <2>2. UNCHANGED <<promptStep, version, g, pc>>
    BY <1>10 DEF PromptStart, PromptFinish, PromptFailure, KvTag, engineVars, trainerVars
  <2> QED BY <1>2, <2>1, <2>2
<1>11. ASSUME NEW v \in Prompts, NEW i \in Sessions, SessionNext(v, i), UNCHANGED trainerVars
       PROVE  /\ version' - promptStep'[u] + 2 <= Threshold
              /\ pc' \notin {"warmup", "add", "sample"} => g' - promptStep'[u] + 1 < Threshold
  <2>1. UNCHANGED <<kvPrompt, promptStep, version, g, pc>>
    BY <1>11, SessionFrame DEF engineVars, trainerVars
  <2> QED BY <1>2, <2>1
<1> QED
  BY <1>1, <1>3, <1>4, <1>5, <1>6, <1>7, <1>8, <1>9, <1>10, <1>11 DEF Next, TrainerNext, WorkerNext

(* One more output of an unreported prompt stays within the threshold.     *)
LEMMA SpanStep ==
  ASSUME TypeOK, TypeOK', TagInv, EngineInv, VersionInv, AgeInv, SpanInv, [Next]_vars
  PROVE  SpanInv'
<1> SUFFICES ASSUME Strategy = "wait", NEW u \in Prompts, NEW i \in Sessions,
                    task'[u] # "failure", session'[u][i].min # NoVersion
             PROVE  session'[u][i].max - session'[u][i].min + 1 <= Threshold
  BY DEF SpanInv
<1> USE SizesAssumption, ThresholdAssumption DEF TypeOK, KvTypeOK, LoopTypeOK
<1>0. /\ version \in 0 .. TotalSteps /\ promptStep[u] \in Nat
      /\ session[u][i] \in SessionRecords
      /\ session[u][i].min \in Int /\ session[u][i].max \in Int
  BY DEF SessionRecords, NoVersion
<1>1. ASSUME task[u] # "failure", session'[u][i].min = session[u][i].min,
             session'[u][i].max = session[u][i].max
      PROVE  session'[u][i].max - session'[u][i].min + 1 <= Threshold
  BY <1>1 DEF SpanInv
<1>2. ASSUME task[u] # "failure", session[u][i].pc = "inflight",
             session'[u][i].min = Spanned(session[u][i], version).min,
             session'[u][i].max = Spanned(session[u][i], version).max
      PROVE  session'[u][i].max - session'[u][i].min + 1 <= Threshold
  <2>1. task[u] = "gathering"
    BY <1>2 DEF TagInv, FreshSession, TaskStates, Reported
  <2>2. version - promptStep[u] + 2 <= Threshold
    BY <2>1 DEF TagInv, AgeInv
  <2>3. promptStep[u] - 1 <= version
    BY <2>1, <1>0 DEF VersionInv
  <2>4. /\ session'[u][i].max = version
        /\ session'[u][i].min = IF session[u][i].min = NoVersion THEN version ELSE session[u][i].min
    BY <1>0, <1>2, SpannedType
  <2>5. promptStep[u] - 1 <= session'[u][i].min /\ session'[u][i].min \in Int
    BY <1>0, <2>3, <2>4 DEF VersionInv, SessionVersion
  <2> QED BY <1>0, <2>2, <2>4, <2>5
<1>3. CASE UNCHANGED <<task, session>>
  BY <1>1, <1>3
<1>4. CASE WarmupBatch \/ StepBegin
  <2>1. AddBatch
    BY <1>4 DEF WarmupBatch, StepBegin
  <2>2. session' = session /\ (task[u] = "failure" => fed < u \/ task'[u] = "failure")
    BY <2>1, PromptsType DEF AddBatch
  <2>3. task[u] # "failure"
    BY <2>1, <2>2, PromptsType DEF AddBatch, TagInv
  <2> QED BY <1>1, <2>2, <2>3
<1>5. CASE Abort
  <2>1. task' = task
    BY <1>5 DEF Abort, AbortAll
  <2>2. CASE Inflight(u, i)
    <3>1. session'[u][i] = [Spanned(session[u][i], version) EXCEPT !.pc = "waiting"]
      BY <1>5, <2>2 DEF Abort, AbortAll
    <3>2. Spanned(session[u][i], version) \in SessionRecords
      BY <1>0, SpannedType
    <3>3. /\ session'[u][i].min = Spanned(session[u][i], version).min
          /\ session'[u][i].max = Spanned(session[u][i], version).max
      BY <3>1, <3>2 DEF SessionRecords
    <3> QED BY <1>2, <2>1, <2>2, <3>3 DEF Inflight
  <2>3. CASE ~Inflight(u, i)
    BY <1>1, <1>5, <2>1, <2>3 DEF Abort, AbortAll
  <2> QED BY <2>2, <2>3
<1>6. ASSUME NEW v \in Prompts, PromptStart(v)
      PROVE  session'[u][i].max - session'[u][i].min + 1 <= Threshold
  <2>1. CASE v = u
    <3>1. session'[u][i] = [FreshSession EXCEPT !.pc = "waiting"]
      BY <1>6, <2>1 DEF PromptStart
    <3>2. [FreshSession EXCEPT !.pc = "waiting"].min = NoVersion
      BY DEF FreshSession
    <3> QED BY <3>1, <3>2
  <2>2. CASE v # u
    BY <1>1, <1>6, <2>2 DEF PromptStart
  <2> QED BY <2>1, <2>2
<1>7. ASSUME NEW v \in Prompts, PromptFinish(v) \/ PromptFailure(v)
      PROVE  session'[u][i].max - session'[u][i].min + 1 <= Threshold
  <2>1. session' = session
    BY <1>7 DEF PromptFinish, PromptFailure
  <2>2. task[u] # "failure"
    BY <1>7 DEF PromptFinish, PromptFailure
  <2> QED BY <1>1, <2>1, <2>2
<1>8. ASSUME NEW v \in Prompts, NEW j \in Sessions, SessionNext(v, j)
      PROVE  session'[u][i].max - session'[u][i].min + 1 <= Threshold
  <2>1. task' = task
    BY <1>8, SessionFrame
  <2>2. CASE v = u /\ j = i
    BY <1>1, <1>2, <1>8, <2>1, <2>2, SessionMove
  <2>3. CASE ~(v = u /\ j = i)
    BY <1>1, <1>8, <2>1, <2>3, SessionFrame
  <2> QED BY <2>2, <2>3
<1> QED
  BY <1>3, <1>4, <1>5, <1>6, <1>7, <1>8
  DEF Next, TrainerNext, WorkerNext, vars, loopVars, WarmupEnd, Poll, Take, Drain, Sleep, Balance,
      Crash, UpdateWeights, Resume, Cleanup

LEMMA HeldStep ==
  ASSUME TypeOK, SnapInv, TagInv, BatchInv, HeldInv, [Next]_vars
  PROVE  HeldInv'
<1> USE DEF HeldInv
<1>1. CASE UNCHANGED <<batch, kvTraj>>
  BY <1>1
<1>2. CASE WarmupBatch \/ StepBegin
  BY <1>2 DEF WarmupBatch, StepBegin, AddBatch, KvRegister
<1>3. CASE Take
  <2>1. PICK S \in SUBSET Prompts :
          /\ KvClear(S, TooStale(Collect(snap, S), g))
          /\ batch' = Collect(snap, S) \ TooStale(Collect(snap, S), g)
    BY <1>3, TakeFrame
  <2>2. Collect(snap, S) \subseteq kvTraj
    BY <1>3 DEF Take, SnapInv, Collect
  <2> QED BY <2>1, <2>2 DEF KvClear
<1>4. CASE Balance
  BY <1>4 DEF Balance, KvPutTraj
<1>5. CASE Cleanup
  BY <1>5 DEF Cleanup
<1>6. ASSUME NEW u \in Prompts, PromptStart(u) \/ PromptFinish(u) \/ PromptFailure(u),
             UNCHANGED trainerVars
      PROVE  HeldInv'
  BY <1>6 DEF PromptStart, PromptFinish, PromptFailure, KvTag, trainerVars
<1>7. ASSUME NEW u \in Prompts, NEW i \in Sessions, SessionNext(u, i), UNCHANGED trainerVars
      PROVE  HeldInv'
  BY <1>7, SessionFrame DEF trainerVars
<1> QED
  BY <1>1, <1>2, <1>3, <1>4, <1>5, <1>6, <1>7
  DEF Next, TrainerNext, WorkerNext, vars, kvVars, trainerVars, WarmupEnd, Poll, Abort, Drain,
      Sleep, Crash, UpdateWeights, Resume

LEMMA StaleStep ==
  ASSUME TypeOK, SnapInv, TagInv, BatchInv, StaleInv, [Next]_vars
  PROVE  StaleInv'
<1> SUFFICES ASSUME Strategy = "drop", NEW t \in batch', t[1] # PadUid
             PROVE  (g - promptStep[t[1]] + 1 <= Threshold)'
  BY DEF StaleInv, Staleness
<1> USE DEF TypeOK, KvTypeOK
<1>1. CASE t \in batch /\ UNCHANGED <<g, promptStep>>
  BY <1>1 DEF StaleInv, Staleness
<1>2. CASE WarmupBatch \/ StepBegin
  BY <1>2 DEF WarmupBatch, StepBegin, AddBatch, BatchInv
<1>3. CASE Take
  <2>1. PICK S \in SUBSET Prompts :
          /\ KvClear(S, TooStale(Collect(snap, S), g))
          /\ batch' = Collect(snap, S) \ TooStale(Collect(snap, S), g)
    BY <1>3, TakeFrame
  <2>2. t[1] \in Prompts
    BY <2>1 DEF Collect
  <2>3. ~(Staleness(t[1], g) > Threshold)
    BY <2>1 DEF TooStale
  <2>4. Staleness(t[1], g) <= Threshold
    BY <2>2, <2>3, ThresholdAssumption, SizesAssumption DEF Staleness
  <2>5. UNCHANGED <<g, promptStep>>
    BY <1>3, <2>1 DEF Take, KvClear
  <2> QED BY <2>4, <2>5 DEF Staleness
<1>4. CASE Balance
  BY <1>1, <1>4 DEF Balance, KvPutTraj, Padding, PadKeys
<1>5. CASE Cleanup
  BY <1>5 DEF Cleanup
<1>6. CASE UNCHANGED <<batch, g, promptStep>>
  BY <1>1, <1>6
<1>7. ASSUME NEW u \in Prompts, PromptStart(u) \/ PromptFinish(u) \/ PromptFailure(u),
             UNCHANGED trainerVars
      PROVE  UNCHANGED <<batch, g, promptStep>>
  BY <1>7 DEF PromptStart, PromptFinish, PromptFailure, KvTag, trainerVars
<1>8. ASSUME NEW u \in Prompts, NEW i \in Sessions, SessionNext(u, i), UNCHANGED trainerVars
      PROVE  UNCHANGED <<batch, g, promptStep>>
  BY <1>8, SessionFrame DEF trainerVars
<1> QED
  BY <1>2, <1>3, <1>4, <1>5, <1>6, <1>7, <1>8
  DEF Next, TrainerNext, WorkerNext, vars, kvVars, trainerVars, WarmupEnd, Poll, Abort, AbortAll,
      Drain, Sleep, Crash, UpdateWeights, Resume

(* Everything together.                                                    *)
StalenessInv == SamplingInv /\ VersionInv /\ AgeInv /\ SpanInv /\ HeldInv /\ StaleInv

LEMMA InitStaleness == Init => StalenessInv
<1> SUFFICES ASSUME Init PROVE StalenessInv
  OBVIOUS
<1>1. VersionInv
  <2>1. \A b, v : SessionVersion(FreshSession, b, v)
    BY DEF SessionVersion, FreshSession
  <2>2. \A u \in Prompts, i \in Sessions : session[u][i] = FreshSession /\ task[u] = "none"
    BY DEF Init, LoopInit
  <2>3. \A u \in Prompts, i \in Sessions : SessionVersion(session[u][i], promptStep[u], version)
    BY <2>1, <2>2
  <2>4. version = IF pc \in {"resume", "cleanup", "done"} THEN g ELSE g - 1
    BY DEF Init
  <2>5. \A u \in Prompts : task[u] = "none"
    BY DEF Init, LoopInit
  <2> QED BY <2>3, <2>4, <2>5 DEF VersionInv
<1>2. AgeInv /\ SpanInv
  BY DEF Init, KvInit, LoopInit, FreshSession, AgeInv, SpanInv
<1>3. HeldInv /\ StaleInv
  BY DEF Init, HeldInv, StaleInv
<1> QED BY <1>1, <1>2, <1>3, InitSampling DEF StalenessInv

LEMMA StalenessStep == StalenessInv /\ [Next]_vars => StalenessInv'
BY SamplingStep, VersionStep, AgeStep, SpanStep, HeldStep, StaleStep
DEF StalenessInv, SamplingInv, GroupInv

LEMMA StalenessInvariant == Spec => []StalenessInv
BY InitStaleness, StalenessStep, PTL DEF Spec

(* "drop": no trained trajectory was started more than Threshold versions  *)
(* before the weights it trains.                                           *)
THEOREM DropBounds == Spec => []DropBoundsStaleness
<1>1. StalenessInv => DropBoundsStaleness
  <2> SUFFICES ASSUME StalenessInv, Strategy = "drop", NEW t \in batch, t[1] # PadUid
               PROVE  g - session[t[1]][t[2]].min <= Threshold
    BY DEF DropBoundsStaleness
  <2>1. TypeOK /\ StoreInv /\ VersionInv /\ HeldInv /\ StaleInv
    BY DEF StalenessInv, SamplingInv, GroupInv
  <2>2. t \in RealKeys /\ t[1] \in Prompts /\ t[2] \in Sessions
    BY <2>1 DEF TypeOK, RealKeys, PadKeys
  <2>3. session[t[1]][t[2]].pc = "stored"
    BY <2>1, <2>2 DEF HeldInv, StoreInv
  <2>4. promptStep[t[1]] - 1 <= session[t[1]][t[2]].min
    BY <2>1, <2>2, <2>3 DEF VersionInv, SessionVersion
  <2>5. g - promptStep[t[1]] + 1 <= Threshold
    BY <2>1 DEF StaleInv, Staleness
  <2>6. /\ g \in Int /\ promptStep[t[1]] \in Int
        /\ session[t[1]][t[2]] \in SessionRecords
    BY <2>1, <2>2, SizesAssumption DEF TypeOK, KvTypeOK, LoopTypeOK
  <2>7. session[t[1]][t[2]].min \in Int
    BY <2>6 DEF SessionRecords, NoVersion
  <2> QED BY <2>4, <2>5, <2>6, <2>7, ThresholdAssumption
<1> QED BY <1>1, StalenessInvariant, PTL

(* "wait": no trajectory spans more than Threshold versions.               *)
THEOREM WaitBounds == Spec => []WaitBoundsSpan
<1>1. StalenessInv => WaitBoundsSpan
  <2> SUFFICES ASSUME StalenessInv, Strategy = "wait", NEW t \in kvTraj \cap RealKeys,
                      task[t[1]] # "failure"
               PROVE  session[t[1]][t[2]].max - session[t[1]][t[2]].min + 1 <= Threshold
    BY DEF WaitBoundsSpan
  <2>1. StoreInv /\ VersionInv /\ SpanInv
    BY DEF StalenessInv, SamplingInv, GroupInv
  <2>2. t[1] \in Prompts /\ t[2] \in Sessions
    BY DEF RealKeys
  <2>3. session[t[1]][t[2]].min # NoVersion
    BY <2>1, <2>2 DEF StoreInv, VersionInv, SessionVersion
  <2> QED BY <2>1, <2>2, <2>3 DEF SpanInv
<1> QED BY <1>1, StalenessInvariant, PTL
------------------------------------------------------------------------------
(* The prompts of the step are the last ones handed out, and wait to be    *)
(* sampled until the step takes its batch.                                 *)
NewestInv ==
  pc \notin {"warmup", "add"} =>
    \A u \in fed - BatchSize + 1 .. fed :
      /\ promptStep[u] = g
      /\ pc \in {"sample", "take"} => kvPrompt[u] # "absent"

(* A snapshot that ends a wait knows every prompt at its threshold to be   *)
(* reported.                                                               *)
WaitedInv ==
  Strategy = "wait" /\ pc = "take" =>
    \A u \in Prompts :
      kvPrompt[u] # "absent" /\ Staleness(u, g) >= Threshold => snap.status[u] \in Reported

(* With at most one batch ahead nothing at its threshold outlives a        *)
(* selection, reported or not.                                             *)
OneBatchAhead == Strategy = "wait" /\ Warmup <= 1 /\ Warmup < Threshold

AheadInv ==
  OneBatchAhead =>
    /\ \A u \in Prompts :
         kvPrompt[u] # "absent" =>
           /\ Staleness(u, g) <= Threshold
           /\ pc \notin {"warmup", "add", "sample", "take"} => Staleness(u, g) < Threshold
    /\ \A t \in batch : t[1] # PadUid => Staleness(t[1], g) <= Threshold

(* What a step of the workers leaves alone.                                *)
LEMMA WorkerFrame ==
  ASSUME TypeOK, TagInv, WorkerNext, UNCHANGED trainerVars
  PROVE  /\ UNCHANGED <<pc, g, fed, batch, snap, promptStep>>
         /\ \A u \in Prompts : kvPrompt'[u] = "absent" <=> kvPrompt[u] = "absent"
<1> USE DEF TypeOK, KvTypeOK
<1>1. UNCHANGED <<pc, g, fed, batch, snap>>
  BY DEF trainerVars
<1>2. ASSUME NEW u \in Prompts, PromptStart(u) \/ PromptFinish(u) \/ PromptFailure(u)
      PROVE  /\ promptStep' = promptStep
             /\ \A v \in Prompts : kvPrompt'[v] = "absent" <=> kvPrompt[v] = "absent"
  BY <1>2 DEF PromptStart, PromptFinish, PromptFailure, KvTag, TagInv
<1>3. ASSUME NEW u \in Prompts, NEW i \in Sessions, SessionNext(u, i)
      PROVE  UNCHANGED <<promptStep, kvPrompt>>
  BY <1>3, SessionFrame
<1> QED BY <1>1, <1>2, <1>3 DEF WorkerNext

(* What the trainer does to the tags outside AddBatch and Take.            *)
LEMMA TrainerFrame ==
  ASSUME TrainerNext, ~WarmupBatch, ~StepBegin, ~Take
  PROVE  /\ UNCHANGED <<kvPrompt, promptStep, fed>>
         /\ pc' \in {"warmup", "add"} => pc \in {"warmup", "cleanup"}
         /\ pc' \in {"sample", "take"} => Poll
         /\ g' = g \/ Cleanup
BY DEF TrainerNext, WarmupEnd, Poll, Abort, AbortAll, Drain, Sleep, Balance, Crash, UpdateWeights,
       Resume, Cleanup, KvPutTraj, KvClearTraj, kvVars, loopVars, engineVars

LEMMA NewestStep ==
  ASSUME TypeOK, TypeOK', FedInv, TagInv, SnapInv, NewestInv, [Next]_vars
  PROVE  NewestInv'
<1> USE SizesAssumption, PromptsType
<1>0. fed \in Nat /\ fed' \in Nat /\ BatchSize \in Nat \ {0}
  BY DEF TypeOK
<1>1. CASE UNCHANGED vars
  BY <1>1 DEF vars, kvVars, trainerVars, NewestInv
<1>2. CASE WarmupBatch
  BY <1>2 DEF WarmupBatch, NewestInv
<1>3. CASE StepBegin
  <2>1. fed' = fed + BatchSize /\ g' = g /\ KvRegister(fed + 1 .. fed + BatchSize, g)
    BY <1>3 DEF StepBegin, AddBatch
  <2>2. \A u \in fed + 1 .. fed + BatchSize : u \in Prompts
    BY <1>0, <2>1 DEF TypeOK, Prompts
  <2>3. \A u \in fed + 1 .. fed + BatchSize : promptStep'[u] = g /\ kvPrompt'[u] = "pending"
    BY <2>1, <2>2 DEF KvRegister
  <2>4. fed' - BatchSize + 1 .. fed' = fed + 1 .. fed + BatchSize
    BY <1>0, <2>1
  <2> QED BY <2>1, <2>3, <2>4 DEF NewestInv
<1>4. CASE Take
  <2>1. promptStep' = promptStep /\ pc = "take" /\ pc' \in {"drain", "abort"} /\ g' = g /\ fed' = fed
    BY <1>4 DEF Take, KvClear
  <2> QED BY <2>1 DEF NewestInv
<1>5. CASE TrainerNext /\ ~WarmupBatch /\ ~StepBegin /\ ~Take
  <2>1. /\ UNCHANGED <<kvPrompt, promptStep, fed>>
        /\ pc' \in {"warmup", "add"} => pc \in {"warmup", "cleanup"}
        /\ pc' \in {"sample", "take"} => Poll
        /\ g' = g \/ Cleanup
    BY <1>5, TrainerFrame
  <2>2. CASE WarmupEnd \/ Cleanup
    <3>1. pc' \in {"add", "done"} /\ (pc' = "done" => g' = g /\ pc = "cleanup")
      BY <2>2 DEF WarmupEnd, Cleanup
    <3> QED BY <2>1, <3>1 DEF NewestInv
  <2>3. CASE ~WarmupEnd /\ ~Cleanup
    <3>1. pc \notin {"warmup", "add"} /\ g' = g
      BY <1>5, <2>1, <2>3
      DEF TrainerNext, Poll, Abort, Drain, Sleep, Balance, Crash, UpdateWeights, Resume
    <3>2. Poll => pc = "sample"
      BY DEF Poll
    <3> QED BY <2>1, <3>1, <3>2 DEF NewestInv
  <2> QED BY <2>2, <2>3
<1>6. CASE WorkerNext /\ UNCHANGED trainerVars
  <2>1. /\ UNCHANGED <<pc, g, fed, batch, snap, promptStep>>
        /\ \A u \in Prompts : kvPrompt'[u] = "absent" <=> kvPrompt[u] = "absent"
    BY <1>6, WorkerFrame
  <2>2. pc \notin {"warmup", "add"} => fed >= BatchSize
    <3>1. g \in 1 .. TotalSteps
      BY DEF TypeOK
    <3>2. g * BatchSize = (g - 1) * BatchSize + BatchSize /\ (g - 1) * BatchSize \in Nat
      BY <3>1, BatchArithmetic
    <3> QED BY <3>2, <1>0 DEF FedInv
  <2>3. pc \notin {"warmup", "add"} => fed - BatchSize + 1 .. fed \subseteq Prompts
    BY <1>0, <2>2 DEF TypeOK, Prompts
  <2> QED BY <2>1, <2>3 DEF NewestInv
<1> QED BY <1>1, <1>2, <1>3, <1>4, <1>5, <1>6 DEF Next

LEMMA WaitedStep ==
  ASSUME TypeOK, TypeOK', TagInv, SnapInv, WaitedInv, [Next]_vars
  PROVE  WaitedInv'
<1> SUFFICES ASSUME Strategy = "wait", pc' = "take", NEW u \in Prompts, kvPrompt'[u] # "absent",
                    Staleness(u, g)' >= Threshold
             PROVE  snap'.status[u] \in Reported
  BY DEF WaitedInv
<1>1. CASE Poll
  <2>1. UNCHANGED <<kvPrompt, promptStep, g>> /\ snap'.status = kvPrompt
    BY <1>1 DEF Poll, kvVars, SyncMetadata
  <2>2. NoneAtThreshold(SyncMetadata, g)
    BY <1>1 DEF Poll, HasEnoughSamples
  <2>3. kvPrompt[u] \notin {"pending", "running"}
    <3>1. Staleness(u, g) = Staleness(u, g)' /\ Staleness(u, g) \in Int
      BY <2>1, SizesAssumption DEF Staleness, TypeOK, KvTypeOK
    <3> QED BY <2>2, <3>1, ThresholdAssumption DEF NoneAtThreshold, SyncMetadata
  <2> QED BY <2>1, <2>3 DEF TypeOK, KvTypeOK, PromptTags
<1>2. CASE UNCHANGED vars
  BY <1>2 DEF vars, kvVars, trainerVars, WaitedInv, Staleness
<1>3. CASE TrainerNext /\ ~Poll
  BY <1>3 DEF TrainerNext, WarmupBatch, WarmupEnd, StepBegin, Take, Abort, Drain, Sleep,
              Balance, Crash, UpdateWeights, Resume, Cleanup
<1>4. CASE WorkerNext /\ UNCHANGED trainerVars
  BY <1>4, WorkerFrame DEF WaitedInv, Staleness
<1> QED BY <1>1, <1>2, <1>3, <1>4 DEF Next

(* A selection leaves nothing at its threshold: with nothing ahead it      *)
(* takes all; else the prompts at the threshold, those selected before     *)
(* them and the BatchSize prompts of this step do not fit among those      *)
(* registered.                                                             *)
LEMMA SelectionTakesOld ==
  ASSUME TypeOK, FedInv, TagInv, SnapInv, BatchInv, FlowInv, NewestInv, WaitedInv, OneBatchAhead,
         pc = "take", NEW S \in Selections(snap), NEW u \in Prompts \ S, kvPrompt[u] # "absent"
  PROVE  Staleness(u, g) < Threshold
<1> USE SizesAssumption, ThresholdAssumption, PromptsType
<1>1. /\ g \in 1 .. TotalSteps /\ g \in Nat /\ fed \in Nat /\ BatchSize \in Nat \ {0}
      /\ Threshold \in Nat /\ \A v \in Prompts : promptStep[v] \in Nat
  BY DEF TypeOK, KvTypeOK
<1>2. /\ S \subseteq Sampleable(snap) /\ Cardinality(S) = BatchSize
      /\ \A v \in S, w \in Sampleable(snap) \ S : promptStep[v] <= promptStep[w]
  BY DEF Selections
<1>3. /\ Registered = {v \in Prompts : kvPrompt[v] # "absent"}
      /\ IsFiniteSet(Registered)
      /\ Cardinality(Registered) = WarmupPrompts + BatchSize
  BY RegisteredCount
<1>4. S \cup {u} \subseteq Registered
  BY <1>2, <1>3 DEF Sampleable, SnapInv, Reported
<1>5. IsFiniteSet(S) /\ IsFiniteSet(S \cup {u}) /\ Cardinality(S \cup {u}) = BatchSize + 1
  <2>1. IsFiniteSet(S)
    BY <1>3, <1>4, FS_Subset
  <2> QED BY <2>1, <1>2, FS_AddElement
<1>6. CASE WarmupPrompts = 0
  <2>1. Cardinality(S \cup {u}) <= Cardinality(Registered)
    BY <1>3, <1>4, FS_Subset
  <2> QED BY <2>1, <1>1, <1>3, <1>5, <1>6
<1>7. CASE WarmupPrompts # 0
  <2>1. WarmupPrompts = BatchSize /\ Threshold >= 2
    <3>1. WarmupBatches = 0 \/ (WarmupBatches = 1 /\ Warmup = 1)
      BY DEF WarmupBatches, OneBatchAhead
    <3>2. WarmupBatches # 0
      BY <1>7, <1>1 DEF WarmupPrompts
    <3> QED BY <3>1, <3>2, <1>1 DEF WarmupPrompts, OneBatchAhead
  <2> SUFFICES ASSUME Staleness(u, g) >= Threshold
               PROVE  FALSE
    BY <1>1 DEF Staleness
  <2>2. promptStep[u] < g
    BY <2>1, <1>1 DEF Staleness
  <2>3. u \in Sampleable(snap) \ S
    BY DEF WaitedInv, OneBatchAhead, Sampleable
  <2>4. ASSUME NEW v \in S \cup {u} PROVE promptStep[v] < g
    <3>1. CASE v = u
      BY <3>1, <2>2
    <3>2. CASE v \in S
      <4>1. promptStep[v] <= promptStep[u]
        BY <1>2, <2>3, <3>2
      <4>2. promptStep[v] \in Nat /\ promptStep[u] \in Nat
        BY <1>1, <1>2, <3>2 DEF Sampleable
      <4> QED BY <4>1, <4>2, <2>2, <1>1
    <3> QED BY <3>1, <3>2
  <2> DEFINE N == fed - BatchSize + 1 .. fed
  <2>5. N \subseteq Registered /\ \A v \in N : promptStep[v] = g
    <3>1. g * BatchSize = (g - 1) * BatchSize + BatchSize /\ (g - 1) * BatchSize \in Nat
      BY <1>1, BatchArithmetic
    <3>2. fed >= BatchSize
      BY <3>1, <1>1 DEF FedInv
    <3>3. N \subseteq Prompts
      BY <3>2, <1>1 DEF TypeOK, Prompts
    <3> QED BY <3>3, <1>3 DEF NewestInv
  <2>6. IsFiniteSet(N) /\ Cardinality(N) = BatchSize
    <3>1. Cardinality(N) = IF fed - BatchSize + 1 > fed THEN 0 ELSE fed - (fed - BatchSize + 1) + 1
      BY <1>1, FS_Interval
    <3> QED BY <3>1, <1>1, FS_Interval
  <2>7. (S \cup {u}) \cap N = {}
    BY <2>4, <2>5, <1>1
  <2> HIDE DEF N
  <2>8. Cardinality((S \cup {u}) \cup N) = BatchSize + 1 + BatchSize
    <3>1. Cardinality((S \cup {u}) \cup N)
            = Cardinality(S \cup {u}) + Cardinality(N) - Cardinality((S \cup {u}) \cap N)
      BY <1>5, <2>6, FS_Union
    <3>2. Cardinality((S \cup {u}) \cap N) = 0
      BY <2>7, FS_EmptySet
    <3> QED BY <3>1, <3>2, <1>5, <2>6, <1>1
  <2>9. Cardinality((S \cup {u}) \cup N) <= Cardinality(Registered)
    BY <1>3, <1>4, <2>5, FS_Subset
  <2> QED BY <2>8, <2>9, <2>1, <1>3, <1>1
<1> QED BY <1>6, <1>7

LEMMA AheadStep ==
  ASSUME TypeOK, TypeOK', FedInv, TagInv, SnapInv, BatchInv, FlowInv, NewestInv, WaitedInv, AheadInv,
         VersionInv, [Next]_vars
  PROVE  AheadInv'
<1> SUFFICES ASSUME OneBatchAhead
             PROVE  /\ \A u \in Prompts :
                         kvPrompt'[u] # "absent" =>
                           /\ Staleness(u, g)' <= Threshold
                           /\ pc' \notin {"warmup", "add", "sample", "take"} =>
                                Staleness(u, g)' < Threshold
                    /\ \A t \in batch' : t[1] # PadUid => Staleness(t[1], g)' <= Threshold
  BY DEF AheadInv, Staleness
<1> USE SizesAssumption, ThresholdAssumption
<1>0. g \in Nat /\ Threshold \in Nat \ {0} /\ \A u \in Prompts : promptStep[u] \in Nat
  BY DEF TypeOK, KvTypeOK
<1>1. CASE UNCHANGED <<promptStep, g, batch>>
           /\ (\A u \in Prompts : kvPrompt'[u] = "absent" <=> kvPrompt[u] = "absent")
           /\ (pc' \in {"warmup", "add", "sample", "take"} <=> pc \in {"warmup", "add", "sample", "take"})
  BY <1>1 DEF AheadInv, Staleness
<1>2. CASE WarmupBatch \/ StepBegin
  <2>1. /\ KvRegister(fed + 1 .. fed + BatchSize, g) /\ g' = g /\ batch' = batch
        /\ pc \in {"warmup", "add"} /\ pc' \in {"warmup", "sample"}
    BY <1>2 DEF WarmupBatch, StepBegin, AddBatch
  <2>2. batch' = {}
    BY <2>1 DEF BatchInv
  <2>3. ASSUME NEW u \in Prompts, kvPrompt'[u] # "absent"
        PROVE  Staleness(u, g)' <= Threshold
    <3>1. CASE u \in fed + 1 .. fed + BatchSize
      <4>1. promptStep'[u] = g
        BY <2>1, <3>1 DEF KvRegister
      <4> QED BY <4>1, <2>1, <1>0 DEF Staleness
    <3>2. CASE u \notin fed + 1 .. fed + BatchSize
      <4>1. promptStep'[u] = promptStep[u] /\ kvPrompt'[u] = kvPrompt[u]
        BY <2>1, <3>2 DEF KvRegister
      <4> QED BY <4>1, <2>1, <2>3 DEF AheadInv, Staleness
    <3> QED BY <3>1, <3>2
  <2> QED BY <2>1, <2>2, <2>3
<1>3. CASE Take
  <2>1. PICK S \in Selections(snap) :
          /\ KvClear(S, TooStale(Collect(snap, S), g))
          /\ batch' = Collect(snap, S) \ TooStale(Collect(snap, S), g)
    BY <1>3 DEF Take
  <2>2. UNCHANGED <<promptStep, g>> /\ pc = "take"
    BY <1>3, <2>1 DEF Take, KvClear
  <2>3. ASSUME NEW u \in Prompts, kvPrompt'[u] # "absent"
        PROVE  Staleness(u, g)' < Threshold
    <3>1. u \notin S /\ kvPrompt[u] # "absent"
      BY <2>1, <2>3 DEF KvClear
    <3>2. Staleness(u, g) < Threshold
      BY <3>1, <2>2, SelectionTakesOld
    <3> QED BY <3>2, <2>2 DEF Staleness
  <2>4. ASSUME NEW t \in batch'
        PROVE  Staleness(t[1], g)' <= Threshold
    <3>1. t[1] \in S
      BY <2>1, <2>4 DEF Collect
    <3>2. t[1] \in Prompts /\ kvPrompt[t[1]] # "absent"
      BY <3>1, <2>2 DEF Selections, Sampleable, SnapInv, Reported
    <3> QED BY <3>2, <2>2 DEF AheadInv, Staleness
  <2>5. \A u \in Prompts : Staleness(u, g)' \in Int
    BY <1>0, <2>2 DEF Staleness
  <2> QED BY <2>3, <2>4, <2>5
<1>4. CASE Balance
  <2>1. /\ UNCHANGED <<kvPrompt, promptStep, g>> /\ batch' = batch \cup Padding(batch)
        /\ pc = "balance" /\ pc' = "update"
    BY <1>4 DEF Balance, KvPutTraj
  <2>2. \A t \in Padding(batch) : t[1] = PadUid
    BY DEF Padding, PadKeys
  <2> QED BY <2>1, <2>2 DEF AheadInv, Staleness
<1>5. CASE Cleanup
  <2>1. /\ UNCHANGED <<kvPrompt, promptStep>> /\ batch' = {} /\ pc = "cleanup"
        /\ (pc' = "add" /\ g' = g + 1) \/ (pc' = "done" /\ g' = g)
    BY <1>5 DEF Cleanup, KvClearTraj
  <2>2. ASSUME NEW u \in Prompts, kvPrompt'[u] # "absent"
        PROVE  g - promptStep[u] + 1 < Threshold
    BY <2>1, <2>2 DEF AheadInv, Staleness
  <2> QED BY <2>1, <2>2, <1>0 DEF Staleness
<1>6. CASE WarmupEnd \/ Poll \/ Abort \/ Drain \/ Sleep \/ Crash \/ UpdateWeights \/ Resume
  <2>1. UNCHANGED <<kvPrompt, promptStep, g, batch>>
    BY <1>6 DEF WarmupEnd, Poll, Abort, AbortAll, Drain, Sleep, Crash, UpdateWeights, Resume, kvVars
  <2>2. pc' \in {"warmup", "add", "sample", "take"} <=> pc \in {"warmup", "add", "sample", "take"}
    BY <1>6 DEF WarmupEnd, Poll, Abort, Drain, Sleep, Crash, UpdateWeights, Resume
  <2> QED BY <1>1, <2>1, <2>2
<1>7. CASE WorkerNext /\ UNCHANGED trainerVars
  BY <1>1, <1>7, WorkerFrame
<1>8. CASE UNCHANGED vars
  BY <1>1, <1>8 DEF vars, kvVars, trainerVars
<1> QED BY <1>2, <1>3, <1>4, <1>5, <1>6, <1>7, <1>8 DEF Next, TrainerNext

(* Together with the layers they rest on.                                  *)
WaitInv == StalenessInv /\ NewestInv /\ WaitedInv /\ AheadInv

LEMMA InitWait == Init => WaitInv
<1> SUFFICES ASSUME Init PROVE NewestInv /\ WaitedInv /\ AheadInv
  BY InitStaleness DEF WaitInv
<1>1. \A u \in Prompts : kvPrompt[u] = "absent"
  BY DEF Init, KvInit
<1> QED BY <1>1 DEF Init, NewestInv, WaitedInv, AheadInv

LEMMA WaitStep == WaitInv /\ [Next]_vars => WaitInv'
<1> SUFFICES ASSUME WaitInv, [Next]_vars PROVE WaitInv'
  OBVIOUS
<1>1. StalenessInv'
  BY StalenessStep DEF WaitInv
<1>2. /\ TypeOK /\ TypeOK' /\ FedInv /\ TagInv /\ SnapInv /\ BatchInv /\ FlowInv /\ VersionInv
      /\ NewestInv /\ WaitedInv /\ AheadInv
  BY <1>1 DEF WaitInv, StalenessInv, SamplingInv, GroupInv
<1>3. NewestInv' /\ WaitedInv'
  BY <1>2, NewestStep, WaitedStep
<1>4. AheadInv'
  BY <1>2, AheadStep
<1> QED BY <1>1, <1>3, <1>4 DEF WaitInv

(* "wait", with at most one batch and fewer than Threshold submitted       *)
(* ahead: no trained prompt is older than Threshold versions.              *)
THEOREM WaitBoundsPrompts == Spec => []WaitBoundsStaleness
<1>1. WaitInv => WaitBoundsStaleness
  BY DEF WaitInv, AheadInv, OneBatchAhead, WaitBoundsStaleness
<1>2. Spec => []WaitInv
  BY InitWait, WaitStep, PTL DEF Spec
<1> QED BY <1>1, <1>2, PTL
=============================================================================
