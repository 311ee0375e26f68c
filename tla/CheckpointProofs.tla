-------------------------- MODULE CheckpointProofs --------------------------
(***************************************************************************)
(* Theorems about saving, crashing and resuming, for every number of ranks *)
(* and steps, every save frequency, retention and number of crashes.       *)
(***************************************************************************)
EXTENDS Checkpoint, FiniteSetTheorems, SequenceTheorems, TLAPS

Tracked == IF tracker \in Steps THEN tracker ELSE 0

(* The steps the weights have been trained for.                            *)
Trained == IF pc = "step" THEN g - 1 ELSE g

SavingPcs == {"capacity", "write", "data", "dataopen", "tracker"}

(* Where the job is, compared with what the tracker says.                  *)
PhaseInv ==
  /\ pc \in {"start", "failed"} => g = 0 /\ fed = 0 /\ ahead = {}
  /\ pc = "resumed" => g = Tracked /\ ahead = {}
  /\ pc \in {"step"} \cup SavingPcs => g > Tracked
  /\ pc = "trackeropen" => tracker = Torn /\ g > 0
  /\ pc = "next" => g > 0 /\ g >= Tracked
  /\ tracker = Torn => pc \in {"start", "failed", "trackeropen"}

(* w has been trained for n steps on different ones of the first f batches.*)
Lineage(w, n, f) ==
  /\ w \in Seq(Nat)
  /\ Len(w) = n
  /\ \A i, j \in 1 .. n : w[i] = w[j] => i = j
  /\ \A i \in 1 .. n : w[i] \in 1 .. f

WeightsInv ==
  /\ \A p \in Parts :
       /\ Lineage(weights[p], Trained, fed)
       /\ \A i \in 1 .. Trained : weights[p][i] \notin ahead
  /\ \A p, q \in Parts : weights[p] = weights[q]

(* What the tracker names is whole; only where a single checkpoint is kept *)
(* may it have been deleted.                                               *)
TrackedInv ==
  tracker \in Steps =>
    /\ data[tracker] \in Nat
    /\ \A p \in Parts :
         \/ MaxToKeep = 1 /\ shard[tracker][p] = NoFile
         \/ Lineage(shard[tracker][p], tracker, data[tracker])
    /\ \A p, q \in Parts :
         shard[tracker][p] # NoFile /\ shard[tracker][q] # NoFile
           => shard[tracker][p] = shard[tracker][q]

(* Role number i has its checkpoint of step g registered.                  *)
Registered(i) ==
  \/ pc \in {"data", "dataopen", "tracker", "trackeropen"}
  \/ pc \in {"capacity", "write"} /\ i < role

(* Its rank k has written that checkpoint.                                 *)
Stored(i, k) == Registered(i) \/ (pc = "write" /\ i = role /\ k \in written)

(* What the present save has written is the present weights.               *)
SaveInv ==
  /\ \A i \in DOMAIN Roles, k \in Ranks :
       Stored(i, k) => shard[g][<<Roles[i], k>>] = weights[<<Roles[i], k>>]
  /\ pc \in {"tracker", "trackeropen"} => data[g] = fed

(* previous_saved_paths increases, up to the checkpoint the tracker names  *)
(* and, once it is registered, the present one.                            *)
SavedInv ==
  /\ pc \in {"start", "failed", "resumed"} => \A r \in RoleSet : saved[r] = <<>>
  /\ \A i \in DOMAIN Roles :
       LET q == saved[Roles[i]] IN
       /\ \A m, n \in 1 .. Len(q) : m < n => q[m] < q[n]
       /\ Registered(i) => Len(q) > 0 /\ q[Len(q)] = g
       /\ pc \in {"step", "next"} \cup SavingPcs /\ ~Registered(i)
            => \A n \in 1 .. Len(q) : q[n] <= Tracked

DiskInv == TypeOK /\ PhaseInv /\ WeightsInv /\ TrackedInv /\ SaveInv /\ SavedInv

-----------------------------------------------------------------------------
(* How many batches each life of the job may have given up.                *)
Lives == IF pc \in {"start", "resumed"} THEN crashes ELSE crashes + 1

FedInv ==
  /\ Cardinality(ahead) <= Warmup
  /\ fed - Trained - Cardinality(ahead) <= Warmup * crashes
  /\ tracker \in Steps => data[tracker] - tracker <= Warmup * Lives

(* How far the job is from the last save.                                  *)
PeriodInv ==
  /\ tracker \in Steps => Saves(tracker)
  /\ pc \in SavingPcs \cup {"trackeropen"} => Saves(g)
  /\ pc \in {"step"} \cup SavingPcs => g - Tracked <= SaveFreq
  /\ pc = "next" => g - Tracked < SaveFreq
  /\ tracker # Torn => reached <= Tracked + SaveFreq
  /\ pc = "trackeropen" => reached <= g + SaveFreq

-----------------------------------------------------------------------------
OnDisk(r) == {s \in Steps : \E k \in Ranks : shard[s][<<r, k>>] # NoFile}

(* The checkpoints of role number i that the present life has saved or is  *)
(* writing.                                                                *)
Mine(i) ==
  Elements(saved[Roles[i]]) \cup (IF pc = "write" /\ role = i THEN {g} ELSE {})

RetentionInv ==
  MaxToKeep > 0 =>
    \A i \in DOMAIN Roles :
      /\ Len(saved[Roles[i]]) <= MaxToKeep
      /\ pc = "write" /\ role = i => Len(saved[Roles[i]]) < AtOnce
      /\ Cardinality(OnDisk(Roles[i]) \ Mine(i)) <= AtOnce * crashes

-----------------------------------------------------------------------------
(* What the proofs need of the constants.                                  *)
LEMMA Constants ==
  /\ NoFile # Torn /\ NoFile \notin Nat /\ Torn \notin Nat
  /\ NoFile \notin Steps /\ Torn \notin Steps
  /\ NoFile \notin Seq(Nat) /\ Torn \notin Seq(Nat)
  /\ \A s \in Steps : s \in Nat /\ s > 0 /\ s <= TotalSteps
  /\ TotalSteps \in Nat \ {0} /\ MaxToKeep \in Nat /\ Warmup \in Nat
  /\ \A i \in DOMAIN Roles : Roles[i] \in RoleSet
  /\ \A r \in RoleSet : \E i \in DOMAIN Roles : r = Roles[i]
  /\ \A i, j \in DOMAIN Roles : Roles[i] = Roles[j] => i = j
  /\ Len(Roles) \in Nat \ {0} /\ DOMAIN Roles = 1 .. Len(Roles)
  BY CheckpointAssumption DEF CheckpointAssumption, Steps, RoleSet

(* Kept(q, n) is the last n elements of q.                                 *)
LEMMA KeptProperties ==
  ASSUME NEW S, NEW q \in Seq(S), NEW n \in Nat
  PROVE  LET k == Kept(q, n)
             d == IF Len(q) <= n THEN 0 ELSE Len(q) - n
         IN  /\ k \in Seq(S)
             /\ d \in Nat
             /\ Len(k) = Len(q) - d
             /\ \A m \in 1 .. Len(k) : m + d \in 1 .. Len(q) /\ k[m] = q[m + d]
<1>1. CASE Len(q) <= n
  BY <1>1, LenProperties DEF Kept
<1>2. CASE ~(Len(q) <= n)
  <2> DEFINE a == Len(q) - n + 1
  <2>1. Len(q) \in Nat /\ a \in Int /\ a >= 1 /\ \A i \in a .. Len(q) : q[i] \in S
    BY <1>2, LenProperties, ElementOfSeq
  <2>2. Kept(q, n) = SubSeq(q, a, Len(q))
    BY <1>2 DEF Kept
  <2> HIDE DEF a
  <2>3. /\ SubSeq(q, a, Len(q)) \in Seq(S)
        /\ Len(SubSeq(q, a, Len(q))) = IF a <= Len(q) THEN Len(q) - a + 1 ELSE 0
        /\ \A i \in 1 .. Len(q) - a + 1 : SubSeq(q, a, Len(q))[i] = q[a + i - 1]
    BY <2>1, SubSeqProperties
  <2> USE DEF a
  <2>4. Len(SubSeq(q, a, Len(q))) = n
    BY <1>2, <2>1, <2>3
  <2>5. \A m \in 1 .. n : m + (Len(q) - n) \in 1 .. Len(q)
                          /\ SubSeq(q, a, Len(q))[m] = q[m + (Len(q) - n)]
    <3> SUFFICES ASSUME NEW m \in 1 .. n
                 PROVE  m + (Len(q) - n) \in 1 .. Len(q)
                        /\ SubSeq(q, a, Len(q))[m] = q[m + (Len(q) - n)]
      OBVIOUS
    <3>1. m \in 1 .. Len(q) - a + 1 /\ a + m - 1 = m + (Len(q) - n)
      BY <1>2, <2>1
    <3> QED
      BY <1>2, <2>1, <2>3, <3>1
  <2> QED
    BY <1>2, <2>1, <2>2, <2>3, <2>4, <2>5
<1> QED
  BY <1>1, <1>2

(* Appending to a sequence.                                                *)
LEMMA Appended ==
  ASSUME NEW S, NEW q \in Seq(S), NEW e \in S
  PROVE  /\ Append(q, e) \in Seq(S)
         /\ Len(Append(q, e)) = Len(q) + 1
         /\ \A m \in 1 .. Len(q) : Append(q, e)[m] = q[m]
         /\ Append(q, e)[Len(q) + 1] = e
  OBVIOUS

-----------------------------------------------------------------------------
ShardType == [Steps -> [Parts -> Seq(Nat) \cup {NoFile, Torn}]]

(* What RemovePaths leaves.                                                *)
LEMMA RemovedPaths ==
  ASSUME shard \in ShardType, NEW r, NEW S, RemovePaths(r, S)
  PROVE  /\ shard' \in ShardType
         /\ \A s \in Steps, p \in Parts :
              shard'[s][p] = IF s \in S /\ p[1] = r THEN NoFile ELSE shard[s][p]
  BY DEF RemovePaths, ShardType

LEMMA TypeInit == Init => TypeOK
<1> SUFFICES ASSUME Init PROVE TypeOK
  OBVIOUS
<1>1. /\ shard \in [Steps -> [Parts -> Seq(Nat) \cup {NoFile, Torn}]]
      /\ data \in [Steps -> Nat \cup {NoFile, Torn}]
      /\ tracker \in Steps \cup {NoFile, Torn}
  BY DEF Init, Empty
<1>2. /\ weights \in [Parts -> Seq(Nat)]
      /\ saved \in [RoleSet -> Seq(Steps)]
  BY EmptySeq DEF Init
<1>3. /\ pc \in Pcs /\ g \in 0 .. TotalSteps /\ role \in DOMAIN Roles /\ written \subseteq Ranks
      /\ fed \in Nat /\ ahead \subseteq 1 .. fed
      /\ crashes \in 0 .. MaxCrashes /\ reached \in 0 .. TotalSteps
  BY Constants, CheckpointAssumption DEF Init, Pcs, CheckpointAssumption
<1> QED
  BY <1>1, <1>2, <1>3 DEF TypeOK

(* In a save, the step is one of the run.                                  *)
LEMMA SavedStep ==
  ASSUME TypeOK, PhaseInv, pc \in {"step"} \cup SavingPcs \cup {"trackeropen"}
  PROVE  g \in Steps
  BY Constants DEF TypeOK, PhaseInv, Steps, Tracked

LEMMA TypeStep == TypeOK /\ PhaseInv /\ [Next]_vars => TypeOK'
<1> SUFFICES ASSUME TypeOK, PhaseInv, [Next]_vars PROVE TypeOK'
  OBVIOUS
<1> USE DEF TypeOK
<1>1. CASE StartFromScratch
  BY <1>1, EmptySeq, Constants DEF StartFromScratch, diskVars, Pcs, PhaseInv
<1>2. CASE Load
  <2>1. weights' \in [Parts -> Seq(Nat)]
    BY <1>2 DEF Load, Loadable
  <2>2. fed' \in Nat /\ ahead' = {}
    BY <1>2 DEF Load, Loadable, PhaseInv
  <2> QED
    BY <1>2, <2>1, <2>2 DEF Load, Loadable, diskVars, Pcs, Steps
<1>3. CASE LoadFails
  BY <1>3 DEF LoadFails, diskVars, jobVars, Pcs
<1>4. CASE Fit
  <2>1. CASE g < TotalSteps
    <3>1. g' \in 0 .. TotalSteps
      BY <1>4, <2>1, Constants DEF Fit
    <3>2. fed' \in Nat /\ ahead' \subseteq 1 .. fed'
      BY <1>4, <2>1, Constants DEF Fit
    <3> QED
      BY <1>4, <2>1, <3>1, <3>2 DEF Fit, diskVars, Pcs
  <2>2. CASE ~(g < TotalSteps)
    BY <1>4, <2>2 DEF Fit, diskVars, Pcs
  <2> QED
    BY <2>1, <2>2
<1>5. CASE TrainStep
  <2>1. fed' = fed + 1 /\ ahead' \subseteq 1 .. fed'
    BY <1>5 DEF TrainStep
  <2>2. weights' \in [Parts -> Seq(Nat)]
    <3>1. PICK b \in ahead \cup {fed'} : weights' = [p \in Parts |-> Append(weights[p], b)]
      BY <1>5 DEF TrainStep
    <3>2. b \in Nat
      BY <2>1, <3>1
    <3> QED
      BY <3>1, <3>2, Appended
  <2> QED
    BY <1>5, <2>1, <2>2, Constants DEF TrainStep, diskVars, Pcs
<1>6. CASE NextStep
  BY <1>6, Constants DEF NextStep, diskVars, Pcs
<1>7. CASE EnsureCapacity
  <2>1. Roles[role] \in RoleSet
    BY Constants
  <2>2. shard' \in ShardType /\ saved' \in [RoleSet -> Seq(Steps)]
    <3>1. CASE MaxToKeep > 1 /\ Len(saved[Roles[role]]) >= MaxToKeep
      <4>1. Kept(saved[Roles[role]], MaxToKeep - 1) \in Seq(Steps)
        BY <2>1, <3>1, Constants, KeptProperties
      <4>2. RemovePaths(Roles[role], Excess(saved[Roles[role]], MaxToKeep - 1))
        BY <1>7, <3>1 DEF EnsureCapacity
      <4>3. shard' \in ShardType
        BY <4>2, RemovedPaths DEF ShardType
      <4> QED
        BY <1>7, <2>1, <3>1, <4>1, <4>3 DEF EnsureCapacity
    <3>2. CASE ~(MaxToKeep > 1 /\ Len(saved[Roles[role]]) >= MaxToKeep)
      BY <1>7, <3>2 DEF EnsureCapacity, ShardType
    <3> QED
      BY <3>1, <3>2
  <2> QED
    BY <1>7, <2>2 DEF EnsureCapacity, Pcs, ShardType
<1>8. CASE Register
  <2>1. Roles[role] \in RoleSet /\ g \in Steps
    BY <1>8, Constants, SavedStep DEF Register, SavingPcs
  <2>2. Append(saved[Roles[role]], g) \in Seq(Steps)
    BY <2>1, Appended
  <2>3. shard' \in ShardType /\ saved' \in [RoleSet -> Seq(Steps)]
    <3>1. CASE MaxToKeep > 0
      <4>1. Kept(Append(saved[Roles[role]], g), MaxToKeep) \in Seq(Steps)
        BY <2>2, Constants, KeptProperties
      <4>2. RemovePaths(Roles[role], Excess(Append(saved[Roles[role]], g), MaxToKeep))
        BY <1>8, <3>1 DEF Register
      <4>3. shard' \in ShardType
        BY <4>2, RemovedPaths DEF ShardType
      <4> QED
        BY <1>8, <2>1, <3>1, <4>1, <4>3 DEF Register
    <3>2. CASE ~(MaxToKeep > 0)
      BY <1>8, <2>1, <2>2, <3>2 DEF Register, ShardType
    <3> QED
      BY <3>1, <3>2
  <2>4. role' \in DOMAIN Roles
    BY <1>8, Constants DEF Register
  <2> QED
    BY <1>8, <2>3, <2>4 DEF Register, Pcs, ShardType
<1>9. ASSUME NEW k \in Ranks, OpenShard(k) PROVE TypeOK'
  BY <1>9, SavedStep DEF OpenShard, jobVars
<1>10. ASSUME NEW k \in Ranks, WriteShard(k) PROVE TypeOK'
  <2>1. <<Roles[role], k>> \in Parts
    BY Constants DEF Parts
  <2> QED
    BY <1>10, <2>1 DEF WriteShard
<1>11. CASE OpenData
  BY <1>11 DEF OpenData, jobVars, Pcs
<1>12. CASE WriteData
  BY <1>12 DEF WriteData, jobVars, Pcs
<1>13. CASE OpenTracker
  BY <1>13 DEF OpenTracker, jobVars, Pcs
<1>14. CASE WriteTracker
  BY <1>14, SavedStep DEF WriteTracker, jobVars, Pcs
<1>15. CASE Crash
  BY <1>15, EmptySeq, Constants, CheckpointAssumption
  DEF Crash, diskVars, Pcs, CheckpointAssumption
<1>16. CASE UNCHANGED vars
  BY <1>16 DEF vars, diskVars, jobVars
<1> QED
  BY <1>1, <1>2, <1>3, <1>4, <1>5, <1>6, <1>7, <1>8, <1>9, <1>10, <1>11, <1>12, <1>13, <1>14,
     <1>15, <1>16 DEF Next, JobNext, Save
-----------------------------------------------------------------------------
(* A job starts from scratch only if no checkpoint was ever completed.     *)
LEMMA ScratchMeansNoFile ==
  ASSUME TypeOK, TrackedInv, Scratch
  PROVE  tracker = NoFile
  BY Constants DEF Scratch, HasFolder, TrackedInv

(* What a job finds when it loads: a whole checkpoint.                     *)
LEMMA LoadsWhole ==
  ASSUME TypeOK, TrackedInv, Load
  PROVE  /\ tracker \in Steps /\ fed' = data[tracker] /\ fed' \in Nat
         /\ \A p \in Parts : /\ weights'[p] = shard[tracker][p]
                             /\ Lineage(weights'[p], tracker, fed')
         /\ \A p, q \in Parts : weights'[p] = weights'[q]
  BY Constants DEF Load, Loadable, TrackedInv

LEMMA PhaseStep ==
  ASSUME TypeOK, PhaseInv, TrackedInv, [Next]_vars
  PROVE  PhaseInv'
<1> USE DEF TypeOK
<1>1. CASE StartFromScratch
  <2>1. tracker = NoFile
    BY <1>1, ScratchMeansNoFile DEF StartFromScratch
  <2> QED
    BY <1>1, <2>1, Constants DEF StartFromScratch, diskVars, PhaseInv, Tracked, SavingPcs
<1>2. CASE Load
  BY <1>2, LoadsWhole, Constants DEF Load, diskVars, PhaseInv, Tracked, SavingPcs
<1>3. CASE LoadFails
  BY <1>3 DEF LoadFails, diskVars, jobVars, PhaseInv, SavingPcs
<1>4. CASE Fit
  BY <1>4, Constants DEF Fit, diskVars, PhaseInv, Tracked, SavingPcs
<1>5. CASE TrainStep
  BY <1>5, Constants DEF TrainStep, diskVars, PhaseInv, Tracked, SavingPcs
<1>6. CASE NextStep
  BY <1>6, Constants DEF NextStep, diskVars, PhaseInv, Tracked, SavingPcs
<1>7. CASE EnsureCapacity
  BY <1>7, Constants DEF EnsureCapacity, PhaseInv, Tracked, SavingPcs
<1>8. CASE Register
  BY <1>8, Constants DEF Register, PhaseInv, Tracked, SavingPcs
<1>9. ASSUME NEW k \in Ranks, OpenShard(k) \/ WriteShard(k) PROVE PhaseInv'
  BY <1>9, Constants DEF OpenShard, WriteShard, jobVars, PhaseInv, Tracked, SavingPcs
<1>10. CASE OpenData \/ WriteData
  BY <1>10, Constants DEF OpenData, WriteData, jobVars, PhaseInv, Tracked, SavingPcs
<1>11. CASE OpenTracker
  BY <1>11, SavedStep, Constants DEF OpenTracker, jobVars, PhaseInv, Tracked, SavingPcs
<1>12. CASE WriteTracker
  BY <1>12, SavedStep, Constants DEF WriteTracker, jobVars, PhaseInv, Tracked, SavingPcs
<1>13. CASE Crash
  BY <1>13 DEF Crash, diskVars, PhaseInv, SavingPcs
<1>14. CASE UNCHANGED vars
  BY <1>14 DEF vars, diskVars, jobVars, PhaseInv, Tracked
<1> QED
  BY <1>1, <1>2, <1>3, <1>4, <1>5, <1>6, <1>7, <1>8, <1>9, <1>10, <1>11, <1>12, <1>13, <1>14
  DEF Next, JobNext, Save

-----------------------------------------------------------------------------
(* One batch more, not among those trained yet.                            *)
LEMMA LineageGrows ==
  ASSUME NEW w, NEW n \in Nat, NEW f \in Nat, Lineage(w, n, f),
         NEW b \in 1 .. f + 1, \A i \in 1 .. n : w[i] # b
  PROVE  Lineage(Append(w, b), n + 1, f + 1)
<1>1. w \in Seq(Nat) /\ Len(w) = n /\ b \in Nat
  BY DEF Lineage
<1>2. /\ Append(w, b) \in Seq(Nat)
      /\ Len(Append(w, b)) = n + 1
      /\ \A m \in 1 .. n : Append(w, b)[m] = w[m]
      /\ Append(w, b)[n + 1] = b
  BY <1>1, Appended
<1> DEFINE v == Append(w, b)
<1> HIDE DEF v
<1>3. \A m \in 1 .. n + 1 : m \in 1 .. n \/ m = n + 1
  OBVIOUS
<1>4. \A i, j \in 1 .. n + 1 : v[i] = v[j] => i = j
  BY <1>2, <1>3 DEF Lineage, v
<1>5. \A i \in 1 .. n + 1 : v[i] \in 1 .. f + 1
  BY <1>2, <1>3 DEF Lineage, v
<1> QED
  BY <1>2, <1>4, <1>5 DEF Lineage, v

LEMMA LineageFed ==
  ASSUME NEW w, NEW n \in Nat, NEW f \in Nat, Lineage(w, n, f), NEW h \in Nat, h >= f
  PROVE  Lineage(w, n, h)
  BY DEF Lineage

LEMMA EmptyLineage == \A f \in Nat : Lineage(<<>>, 0, f)
  BY EmptySeq DEF Lineage

LEMMA WeightsStep ==
  ASSUME TypeOK, PhaseInv, TrackedInv, WeightsInv, [Next]_vars, TypeOK'
  PROVE  WeightsInv'
<1> DEFINE Same == /\ UNCHANGED <<weights, fed, ahead, g>>
                   /\ pc # "step" /\ pc' # "step"
<1> USE DEF TypeOK
<1>1. CASE StartFromScratch
  BY <1>1, EmptyLineage DEF StartFromScratch, WeightsInv, Trained
<1>2. CASE Load
  BY <1>2, LoadsWhole DEF Load, WeightsInv, Trained, PhaseInv
<1>3. CASE Fit
  <2>1. CASE g < TotalSteps
    <3>1. Trained = g /\ Trained' = g /\ fed' = fed + Warmup /\ weights' = weights
      BY <1>3, <2>1, Constants DEF Fit, Trained
    <3>2. \A p \in Parts : Lineage(weights'[p], Trained', fed')
      BY <3>1, LineageFed, Constants DEF WeightsInv
    <3>3. \A p \in Parts : \A i \in 1 .. Trained : weights[p][i] \in 1 .. fed
      BY <3>1 DEF WeightsInv, Lineage
    <3>4. \A p \in Parts : \A i \in 1 .. Trained' : weights'[p][i] \notin ahead'
      BY <1>3, <2>1, <3>1, <3>3 DEF Fit
    <3> QED
      BY <3>1, <3>2, <3>4 DEF WeightsInv
  <2>2. CASE ~(g < TotalSteps)
    BY <1>3, <2>2 DEF Fit, WeightsInv, Trained
  <2> QED
    BY <2>1, <2>2
<1>4. CASE TrainStep
  <2>1. /\ g \in Nat /\ g > 0 /\ Trained = g - 1 /\ Trained' = g /\ Trained \in Nat
    BY <1>4, SavedStep, Constants DEF TrainStep, Trained
  <2>2. fed' = fed + 1
    BY <1>4 DEF TrainStep
  <2>3. PICK b \in ahead \cup {fed'} : /\ weights' = [p \in Parts |-> Append(weights[p], b)]
                                       /\ ahead' = (ahead \cup {fed'}) \ {b}
    BY <1>4 DEF TrainStep
  <2>4. b \in 1 .. fed + 1
    BY <2>2, <2>3
  <2>5. ASSUME NEW p \in Parts
        PROVE  /\ Lineage(weights'[p], Trained', fed')
               /\ \A i \in 1 .. Trained' : weights'[p][i] \notin ahead'
    <3>1. Lineage(weights[p], Trained, fed) /\ \A i \in 1 .. Trained : weights[p][i] \notin ahead
      BY DEF WeightsInv
    <3>2. \A i \in 1 .. Trained : weights[p][i] \in 1 .. fed
      BY <3>1 DEF Lineage
    <3>3. \A i \in 1 .. Trained : weights[p][i] \notin ahead \cup {fed'}
      BY <2>2, <3>1, <3>2
    <3>4. Lineage(Append(weights[p], b), Trained + 1, fed + 1)
      BY <2>1, <2>3, <2>4, <3>1, <3>3, LineageGrows
    <3>5. weights'[p] = Append(weights[p], b) /\ Len(weights[p]) = Trained
      BY <2>3, <3>1 DEF Lineage
    <3>6. \A i \in 1 .. Trained' : weights'[p][i] \notin ahead'
      <4> SUFFICES ASSUME NEW i \in 1 .. Trained' PROVE weights'[p][i] \notin ahead'
        OBVIOUS
      <4>1. CASE i \in 1 .. Trained
        BY <2>3, <2>4, <3>3, <3>5, <4>1, Appended
      <4>2. CASE i = Trained + 1
        BY <2>3, <2>4, <3>5, <4>2, Appended
      <4> QED
        BY <2>1, <4>1, <4>2
    <3> QED
      BY <2>1, <2>2, <3>4, <3>5, <3>6
  <2>6. \A p, q \in Parts : weights'[p] = weights'[q]
    BY <2>3 DEF WeightsInv
  <2> QED
    BY <2>5, <2>6 DEF WeightsInv
<1>5. CASE NextStep
  <2>1. Trained' = Trained /\ UNCHANGED <<weights, fed, ahead>>
    <3>1. g \in Nat /\ pc = "next" /\ UNCHANGED <<weights, fed, ahead>>
      BY <1>5, Constants DEF NextStep
    <3>2. (pc' = "done" /\ g' = g) \/ (pc' = "step" /\ g' = g + 1)
      BY <1>5 DEF NextStep
    <3>3. Trained = g
      BY <3>1 DEF Trained
    <3>4. CASE pc' = "done" /\ g' = g
      BY <3>1, <3>3, <3>4 DEF Trained
    <3>5. CASE pc' = "step" /\ g' = g + 1
      <4>1. Trained' = g' - 1
        BY <3>5 DEF Trained
      <4>2. (g + 1) - 1 = g
        BY <3>1
      <4> QED
        BY <3>1, <3>3, <3>5, <4>1, <4>2
    <3> QED
      BY <3>2, <3>4, <3>5
  <2> QED
    BY <2>1 DEF WeightsInv
<1>6. CASE Crash
  <2>1. weights' = [p \in Parts |-> <<>>] /\ Trained' = 0 /\ fed' = 0 /\ ahead' = {}
    BY <1>6 DEF Crash, Trained
  <2> QED
    BY <2>1, EmptyLineage DEF WeightsInv
<1>7. CASE Same
  BY <1>7 DEF WeightsInv, Trained
<1>8. CASE UNCHANGED vars
  BY <1>8 DEF vars, jobVars, WeightsInv, Trained
<1>9. CASE LoadFails
  BY <1>7, <1>9 DEF LoadFails, jobVars
<1>10. CASE EnsureCapacity \/ Register
  BY <1>7, <1>10 DEF EnsureCapacity, Register
<1>11. ASSUME NEW k \in Ranks, OpenShard(k) \/ WriteShard(k) PROVE WeightsInv'
  BY <1>7, <1>11 DEF OpenShard, WriteShard, jobVars
<1>12. CASE OpenData \/ WriteData \/ OpenTracker \/ WriteTracker
  BY <1>7, <1>12 DEF OpenData, WriteData, OpenTracker, WriteTracker, jobVars
<1> QED
  BY <1>1, <1>2, <1>3, <1>4, <1>5, <1>6, <1>8, <1>9, <1>10, <1>11, <1>12 DEF Next, JobNext, Save
-----------------------------------------------------------------------------
(* The paths of role number i, in the increasing order SavedInv states, are*)
(* before the checkpoint the tracker names, but perhaps the last of them.  *)
LEMMA OlderThanTracked ==
  ASSUME TypeOK, SavedInv, NEW i \in DOMAIN Roles, ~Registered(i),
         pc \in {"step", "next"} \cup SavingPcs,
         NEW j \in DOMAIN saved[Roles[i]]
  PROVE  /\ saved[Roles[i]][j] \in Steps
         /\ saved[Roles[i]][j] <= Tracked
         /\ j < Len(saved[Roles[i]]) => saved[Roles[i]][j] < Tracked
<1> DEFINE q == saved[Roles[i]]
<1>1. q \in Seq(Steps) /\ DOMAIN q = 1 .. Len(q) /\ Len(q) \in Nat
  BY Constants, LenProperties DEF TypeOK
<1>2. \A n \in 1 .. Len(q) : q[n] \in Steps /\ q[n] <= Tracked
  BY <1>1, ElementOfSeq DEF SavedInv
<1>3. j < Len(q) => q[j] < q[Len(q)]
  BY <1>1 DEF SavedInv
<1>4. Tracked \in Nat /\ \A s \in Steps : s \in Nat
  BY Constants DEF Tracked
<1> QED
  BY <1>1, <1>2, <1>3, <1>4

(* Shards and data of other steps are as they were: nothing happens to the *)
(* tracked checkpoint.                                                     *)
LEMMA TrackedUntouched ==
  ASSUME TrackedInv, tracker' = tracker,
         tracker \in Steps => /\ data'[tracker] = data[tracker]
                              /\ \A p \in Parts : shard'[tracker][p] = shard[tracker][p]
  PROVE  TrackedInv'
  BY DEF TrackedInv

LEMMA TrackedStep ==
  ASSUME DiskInv, [Next]_vars, TypeOK'
  PROVE  TrackedInv'
<1> USE DEF DiskInv
<1>1. CASE UNCHANGED diskVars
  BY <1>1, TrackedUntouched DEF diskVars
<1>2. CASE StartFromScratch \/ Load \/ LoadFails \/ Fit \/ TrainStep \/ NextStep \/ Crash
  BY <1>1, <1>2 DEF StartFromScratch, Load, LoadFails, Fit, TrainStep, NextStep, Crash
<1>3. tracker \in Steps /\ pc \in SavingPcs => g # tracker /\ g \in Steps
  BY SavedStep, Constants DEF PhaseInv, Tracked, TypeOK
<1>4. CASE EnsureCapacity
  <2> DEFINE r == Roles[role]
  <2>1. CASE MaxToKeep > 1 /\ Len(saved[r]) >= MaxToKeep
    <3>1. RemovePaths(r, Excess(saved[r], MaxToKeep - 1)) /\ tracker' = tracker /\ data' = data
      BY <1>4, <2>1 DEF EnsureCapacity
    <3>2. role \in DOMAIN Roles /\ ~Registered(role) /\ pc = "capacity"
      BY <1>4, Constants DEF TypeOK, EnsureCapacity, Registered
    <3>3. ASSUME tracker \in Steps PROVE tracker \notin Excess(saved[r], MaxToKeep - 1)
      <4> SUFFICES ASSUME NEW j \in DOMAIN saved[r], j <= Len(saved[r]) - (MaxToKeep - 1),
                          saved[r][j] = tracker
                   PROVE  FALSE
        BY DEF Excess
      <4>1. saved[r] \in Seq(Steps)
        BY <3>2, Constants DEF TypeOK
      <4>2. j \in Nat /\ Len(saved[r]) \in Nat
        BY <4>1, LenProperties
      <4>3. j < Len(saved[r])
        BY <2>1, <4>2, Constants
      <4>4. saved[r][j] < Tracked
        BY <3>2, <4>3, OlderThanTracked DEF SavingPcs
      <4> QED
        BY <3>3, <4>4, Constants DEF Tracked
    <3>4. tracker \in Steps => \A p \in Parts : shard'[tracker][p] = shard[tracker][p]
      BY <3>1, <3>3, RemovedPaths DEF TypeOK, ShardType
    <3> QED
      BY <3>1, <3>4, TrackedUntouched
  <2>2. CASE ~(MaxToKeep > 1 /\ Len(saved[r]) >= MaxToKeep)
    BY <1>1, <1>4, <2>2 DEF EnsureCapacity, diskVars
  <2> QED
    BY <2>1, <2>2
<1>5. CASE Register
  <2> DEFINE r == Roles[role]
             paths == Append(saved[r], g)
  <2>1. role \in DOMAIN Roles /\ ~Registered(role) /\ pc = "write"
    BY <1>5, Constants DEF TypeOK, Register, Registered
  <2>2. saved[r] \in Seq(Steps) /\ g \in Steps /\ Len(saved[r]) \in Nat
    BY <2>1, Constants, SavedStep, LenProperties DEF TypeOK, SavingPcs
  <2>3. tracker' = tracker /\ data' = data
    BY <1>5 DEF Register
  <2>4. CASE MaxToKeep > 1
    <3>1. RemovePaths(r, Excess(paths, MaxToKeep))
      BY <1>5, <2>4, Constants DEF Register
    <3>2. ASSUME tracker \in Steps PROVE tracker \notin Excess(paths, MaxToKeep)
      <4> SUFFICES ASSUME NEW j \in DOMAIN paths, j <= Len(paths) - MaxToKeep,
                          paths[j] = tracker
                   PROVE  FALSE
        BY DEF Excess
      <4>1. Len(paths) = Len(saved[r]) + 1 /\ DOMAIN paths = 1 .. Len(saved[r]) + 1
        BY <2>2, Appended
      <4>2. j \in 1 .. Len(saved[r]) /\ j < Len(saved[r])
        BY <2>2, <2>4, <4>1, Constants
      <4>3. saved[r][j] = tracker /\ j \in DOMAIN saved[r]
        BY <2>2, <4>2, Appended
      <4>4. saved[r][j] < Tracked
        BY <2>1, <4>2, <4>3, OlderThanTracked DEF SavingPcs
      <4> QED
        BY <3>2, <4>3, <4>4, Constants DEF Tracked
    <3>3. tracker \in Steps => \A p \in Parts : shard'[tracker][p] = shard[tracker][p]
      BY <3>1, <3>2, RemovedPaths DEF TypeOK, ShardType
    <3> QED
      BY <2>3, <3>3, TrackedUntouched
  <2>5. CASE MaxToKeep = 1
    <3>1. RemovePaths(r, Excess(paths, MaxToKeep))
      BY <1>5, <2>5 DEF Register
    <3>2. \A s \in Steps, p \in Parts :
            shard'[s][p] = NoFile \/ shard'[s][p] = shard[s][p]
      BY <3>1, RemovedPaths DEF TypeOK, ShardType
    <3> QED
      BY <2>3, <2>5, <3>2 DEF TrackedInv
  <2>6. CASE MaxToKeep = 0
    BY <1>1, <1>5, <2>6 DEF Register, diskVars
  <2> QED
    BY <2>4, <2>5, <2>6, Constants
<1>6. ASSUME NEW k \in Ranks, OpenShard(k) \/ WriteShard(k) PROVE TrackedInv'
  <2>1. tracker' = tracker /\ data' = data /\ pc = "write"
    BY <1>6 DEF OpenShard, WriteShard
  <2>2. tracker \in Steps => \A p \in Parts : shard'[tracker][p] = shard[tracker][p]
    BY <1>3, <1>6, <2>1 DEF OpenShard, WriteShard, TypeOK, SavingPcs
  <2> QED
    BY <2>1, <2>2, TrackedUntouched
<1>7. CASE OpenData \/ WriteData
  <2>1. tracker' = tracker /\ shard' = shard /\ pc \in SavingPcs
    BY <1>7 DEF OpenData, WriteData, SavingPcs
  <2>2. tracker \in Steps => data'[tracker] = data[tracker]
    BY <1>3, <1>7, <2>1 DEF OpenData, WriteData, TypeOK
  <2> QED
    BY <2>1, <2>2, TrackedUntouched
<1>8. CASE OpenTracker
  BY <1>8, Constants DEF OpenTracker, TrackedInv
<1>9. CASE WriteTracker
  <2>1. /\ tracker' = g /\ shard' = shard /\ data' = data /\ pc = "trackeropen"
        /\ Trained = g
    BY <1>9 DEF WriteTracker, Trained
  <2>2. data[g] = fed /\ fed \in Nat
    BY <2>1 DEF SaveInv, TypeOK
  <2>3. ASSUME NEW p \in Parts PROVE shard[g][p] = weights[p]
    <3>1. PICK r \in RoleSet, k \in Ranks : p = <<r, k>>
      BY DEF Parts
    <3>2. PICK i \in DOMAIN Roles : r = Roles[i]
      BY Constants
    <3>3. Stored(i, k)
      BY <2>1 DEF Stored, Registered
    <3> QED
      BY <3>1, <3>2, <3>3 DEF SaveInv
  <2> QED
    BY <2>1, <2>2, <2>3 DEF TrackedInv, WeightsInv
<1> QED
  BY <1>1, <1>2, <1>4, <1>5, <1>6, <1>7, <1>8, <1>9
  DEF Next, JobNext, Save, vars, diskVars
-----------------------------------------------------------------------------
(* What is registered or stored changes with where the save is.            *)
LEMMA SaveStep ==
  ASSUME DiskInv, [Next]_vars, TypeOK'
  PROVE  SaveInv'
<1> USE DEF DiskInv
<1> DEFINE Idle == pc' \in {"start", "resumed", "failed", "step", "next", "done"}
<1>1. CASE Idle
  BY <1>1 DEF SaveInv, Stored, Registered
<1>2. CASE StartFromScratch \/ Load \/ LoadFails \/ Fit \/ NextStep \/ WriteTracker \/ Crash
  BY <1>1, <1>2 DEF StartFromScratch, Load, LoadFails, Fit, NextStep, WriteTracker, Crash
<1>3. CASE TrainStep
  <2>1. role' = 1 /\ pc' \in {"capacity", "next"}
    BY <1>3 DEF TrainStep
  <2>2. \A i \in DOMAIN Roles, k \in Ranks : ~Stored(i, k)'
    BY <2>1, Constants DEF Stored, Registered
  <2> QED
    BY <2>1, <2>2 DEF SaveInv
<1>4. \A i \in DOMAIN Roles, k \in Ranks : <<Roles[i], k>> \in Parts
  BY Constants DEF Parts
<1>5. \A p \in Parts : weights[p] \in Seq(Nat) /\ weights[p] # NoFile /\ weights[p] # Torn
  BY Constants DEF TypeOK
<1>6. pc \in SavingPcs \cup {"trackeropen"} => g \in Steps
  BY SavedStep
<1>7. CASE EnsureCapacity \/ Register
  <2>1. /\ UNCHANGED <<data, tracker, g, weights, fed>>
        /\ pc \in {"capacity", "write"} /\ pc' \in {"capacity", "write", "data"}
    BY <1>7 DEF EnsureCapacity, Register
  <2>2. g \in Steps /\ g \in Nat /\ Tracked < g /\ role \in DOMAIN Roles
    BY <1>6, <2>1, Constants DEF SavingPcs, PhaseInv, TypeOK
  <2>3. ~Registered(role) /\ \A n \in 1 .. Len(saved[Roles[role]]) :
                               saved[Roles[role]][n] <= Tracked
    BY <2>1, <2>2, Constants DEF Registered, SavedInv, SavingPcs
  <2>4. saved[Roles[role]] \in Seq(Steps) /\ Len(saved[Roles[role]]) \in Nat
        /\ Tracked \in Nat
    BY <2>2, Constants, LenProperties DEF TypeOK, Tracked
  <2>5. \A p \in Parts : shard'[g][p] = shard[g][p]
    <3>1. CASE EnsureCapacity
      <4>1. CASE MaxToKeep > 1 /\ Len(saved[Roles[role]]) >= MaxToKeep
        <5>1. RemovePaths(Roles[role], Excess(saved[Roles[role]], MaxToKeep - 1))
          BY <3>1, <4>1 DEF EnsureCapacity
        <5>2. g \notin Excess(saved[Roles[role]], MaxToKeep - 1)
          BY <2>2, <2>3, <2>4, LenProperties DEF Excess
        <5> QED
          BY <2>2, <5>1, <5>2, RemovedPaths DEF TypeOK, ShardType
      <4>2. CASE ~(MaxToKeep > 1 /\ Len(saved[Roles[role]]) >= MaxToKeep)
        BY <3>1, <4>2 DEF EnsureCapacity
      <4> QED
        BY <4>1, <4>2
    <3>2. CASE Register
      <4>1. CASE MaxToKeep > 0
        <5> DEFINE paths == Append(saved[Roles[role]], g)
        <5>1. RemovePaths(Roles[role], Excess(paths, MaxToKeep))
          BY <3>2, <4>1 DEF Register
        <5>2. g \notin Excess(paths, MaxToKeep)
          <6> SUFFICES ASSUME NEW j \in DOMAIN paths, j <= Len(paths) - MaxToKeep,
                              paths[j] = g
                       PROVE  FALSE
            BY DEF Excess
          <6>1. Len(paths) = Len(saved[Roles[role]]) + 1
                /\ DOMAIN paths = 1 .. Len(saved[Roles[role]]) + 1
            BY <2>2, <2>4, Appended
          <6>2. j \in 1 .. Len(saved[Roles[role]])
            BY <2>4, <4>1, <6>1, Constants
          <6>3. saved[Roles[role]][j] = g
            BY <2>2, <2>4, <6>2, Appended
          <6> QED
            BY <2>2, <2>3, <2>4, <6>2, <6>3
        <5> QED
          BY <2>2, <5>1, <5>2, RemovedPaths DEF TypeOK, ShardType
      <4>2. CASE ~(MaxToKeep > 0)
        BY <3>2, <4>2 DEF Register
      <4> QED
        BY <4>1, <4>2
    <3> QED
      BY <1>7, <3>1, <3>2
  <2>6. ASSUME NEW i \in DOMAIN Roles, NEW k \in Ranks, Stored(i, k)'
        PROVE  Stored(i, k)
    <3>1. CASE EnsureCapacity
      BY <2>6, <3>1 DEF EnsureCapacity, Stored, Registered
    <3>2. CASE Register
      <4>1. i <= role /\ written = Ranks /\ pc = "write"
        BY <2>2, <2>6, <3>2, Constants DEF Register, Written, Stored, Registered
      <4> QED
        BY <2>2, <4>1, Constants DEF Stored, Registered
    <3> QED
      BY <1>7, <3>1, <3>2
  <2> QED
    BY <1>4, <2>1, <2>5, <2>6 DEF SaveInv
<1>8. ASSUME NEW k \in Ranks, OpenShard(k) PROVE SaveInv'
  <2>1. /\ UNCHANGED <<data, tracker, pc, g, role, written, weights, fed>>
        /\ pc = "write" /\ k \notin written
        /\ shard' = [shard EXCEPT ![g][<<Roles[role], k>>] = Torn]
    BY <1>8 DEF OpenShard, jobVars
  <2>2. ASSUME NEW i \in DOMAIN Roles, NEW j \in Ranks, Stored(i, j)'
        PROVE  shard'[g][<<Roles[i], j>>] = weights[<<Roles[i], j>>]
    <3>1. Stored(i, j) /\ ~(i = role /\ j = k)
      BY <2>1, <2>2, Constants DEF Stored, Registered, TypeOK
    <3>2. <<Roles[i], j>> # <<Roles[role], k>>
      BY <3>1, Constants DEF TypeOK
    <3>3. shard'[g][<<Roles[i], j>>] = shard[g][<<Roles[i], j>>]
      BY <1>4, <1>6, <2>1, <3>2 DEF TypeOK, SavingPcs
    <3> QED
      BY <3>1, <3>3 DEF SaveInv
  <2> QED
    BY <2>1, <2>2 DEF SaveInv
<1>9. ASSUME NEW k \in Ranks, WriteShard(k) PROVE SaveInv'
  <2>1. /\ UNCHANGED <<data, tracker, pc, g, role, weights, fed>>
        /\ pc = "write" /\ written' = written \cup {k}
        /\ shard' = [shard EXCEPT ![g][<<Roles[role], k>>] = weights[<<Roles[role], k>>]]
    BY <1>9 DEF WriteShard
  <2>2. ASSUME NEW i \in DOMAIN Roles, NEW j \in Ranks, Stored(i, j)'
        PROVE  shard'[g][<<Roles[i], j>>] = weights[<<Roles[i], j>>]
    <3>1. CASE i = role /\ j = k
      BY <1>4, <1>6, <2>1, <3>1 DEF TypeOK, SavingPcs
    <3>2. CASE ~(i = role /\ j = k)
      <4>1. Stored(i, j)
        BY <2>1, <2>2, <3>2 DEF Stored, Registered
      <4>2. <<Roles[i], j>> # <<Roles[role], k>>
        BY <3>2, Constants DEF TypeOK
      <4>3. shard'[g][<<Roles[i], j>>] = shard[g][<<Roles[i], j>>]
        BY <1>4, <1>6, <2>1, <4>2 DEF TypeOK, SavingPcs
      <4> QED
        BY <4>1, <4>3 DEF SaveInv
    <3> QED
      BY <3>1, <3>2
  <2> QED
    BY <2>1, <2>2 DEF SaveInv
<1>10. CASE OpenData \/ WriteData \/ OpenTracker
  <2>1. /\ UNCHANGED <<shard, g, role, written, weights, fed>>
        /\ pc \in {"data", "dataopen", "tracker"} /\ pc' \in {"dataopen", "tracker", "trackeropen"}
    BY <1>10 DEF OpenData, WriteData, OpenTracker, jobVars
  <2>2. \A i \in DOMAIN Roles, k \in Ranks : Stored(i, k)
    BY <2>1 DEF Stored, Registered
  <2>3. pc' \in {"tracker", "trackeropen"} => data'[g] = fed
    BY <1>6, <1>10 DEF OpenData, WriteData, OpenTracker, SaveInv, TypeOK, SavingPcs
  <2> QED
    BY <2>1, <2>2, <2>3 DEF SaveInv
<1>11. CASE UNCHANGED vars
  BY <1>11 DEF vars, diskVars, jobVars, SaveInv, Stored, Registered
<1> QED
  BY <1>2, <1>3, <1>7, <1>8, <1>9, <1>10, <1>11 DEF Next, JobNext, Save
-----------------------------------------------------------------------------
Increasing(q) == \A m, n \in 1 .. Len(q) : m < n => q[m] < q[n]

LEMMA KeptIncreasing ==
  ASSUME NEW q \in Seq(Steps), NEW n \in Nat, Increasing(q)
  PROVE  Increasing(Kept(q, n))
<1> DEFINE k == Kept(q, n)
           d == IF Len(q) <= n THEN 0 ELSE Len(q) - n
<1>1. /\ d \in Nat /\ k \in Seq(Steps) /\ Len(k) = Len(q) - d
      /\ \A m \in 1 .. Len(k) : m + d \in 1 .. Len(q) /\ k[m] = q[m + d]
  BY KeptProperties
<1> HIDE DEF k, d
<1>2. Len(k) \in Nat
  BY <1>1, LenProperties
<1>3. \A x, y \in 1 .. Len(k) : x < y => k[x] < k[y]
  <2> SUFFICES ASSUME NEW x \in 1 .. Len(k), NEW y \in 1 .. Len(k), x < y PROVE k[x] < k[y]
    OBVIOUS
  <2>1. x + d \in 1 .. Len(q) /\ y + d \in 1 .. Len(q) /\ x + d < y + d
    BY <1>1
  <2> QED
    BY <1>1, <2>1 DEF Increasing
<1> QED
  BY <1>3 DEF Increasing, k

LEMMA AppendIncreasing ==
  ASSUME NEW q \in Seq(Steps), NEW e \in Steps, Increasing(q), \A n \in 1 .. Len(q) : q[n] < e
  PROVE  Increasing(Append(q, e))
<1>1. Len(q) \in Nat
  BY LenProperties
<1>2. /\ Len(Append(q, e)) = Len(q) + 1
      /\ \A m \in 1 .. Len(q) : Append(q, e)[m] = q[m]
      /\ Append(q, e)[Len(q) + 1] = e
  BY Appended
<1> SUFFICES ASSUME NEW x \in 1 .. Len(q) + 1, NEW y \in 1 .. Len(q) + 1, x < y
             PROVE  Append(q, e)[x] < Append(q, e)[y]
  BY <1>2 DEF Increasing
<1>3. x \in 1 .. Len(q) /\ (y \in 1 .. Len(q) \/ y = Len(q) + 1)
  BY <1>1
<1> QED
  BY <1>2, <1>3 DEF Increasing

(* SavedInv, for one role.                                                 *)
Listed(i) ==
  LET q == saved[Roles[i]] IN
  /\ Increasing(q)
  /\ Registered(i) => Len(q) > 0 /\ q[Len(q)] = g
  /\ pc \in {"step", "next"} \cup SavingPcs /\ ~Registered(i)
       => \A n \in 1 .. Len(q) : q[n] <= Tracked

LEMMA SavedByRole ==
  SavedInv <=> /\ pc \in {"start", "failed", "resumed"} => \A r \in RoleSet : saved[r] = <<>>
               /\ \A i \in DOMAIN Roles : Listed(i)
  BY DEF SavedInv, Listed, Increasing

LEMMA NothingListed ==
  ASSUME NEW i \in DOMAIN Roles, saved[Roles[i]] = <<>>, ~Registered(i)
  PROVE  Listed(i)
  BY DEF Listed, Increasing

(* What a role lists stays while neither its paths, the step and what is   *)
(* registered nor the tracker change.                                      *)
LEMMA ListedStays ==
  ASSUME NEW i \in DOMAIN Roles, Listed(i),
         saved'[Roles[i]] = saved[Roles[i]], tracker' = tracker,
         Registered(i)' => Registered(i) /\ g' = g,
         ~Registered(i)' => ~Registered(i) /\ pc \in {"step", "next"} \cup SavingPcs
  PROVE  Listed(i)'
<1>1. Tracked' = Tracked
  BY DEF Tracked
<1> QED
  BY <1>1 DEF Listed, Increasing

LEMMA SavedStepInv ==
  ASSUME DiskInv, [Next]_vars, TypeOK'
  PROVE  SavedInv'
<1> USE DEF DiskInv
<1>1. /\ pc \in {"start", "failed", "resumed"} => \A r \in RoleSet : saved[r] = <<>>
      /\ \A i \in DOMAIN Roles : Listed(i)
  BY SavedByRole
<1>2. SUFFICES /\ pc' \in {"start", "failed", "resumed"} => \A r \in RoleSet : saved'[r] = <<>>
               /\ \A i \in DOMAIN Roles : Listed(i)'
  <2>1. (SavedInv <=> /\ pc \in {"start", "failed", "resumed"} =>
                           \A r \in RoleSet : saved[r] = <<>>
                      /\ \A i \in DOMAIN Roles : Listed(i))'
    BY SavedByRole, PTL
  <2> QED
    BY <1>2, <2>1
<1>3. CASE /\ \A r \in RoleSet : saved'[r] = <<>>
           /\ pc' \in {"start", "failed", "resumed", "step", "done"}
  <2>1. ASSUME NEW i \in DOMAIN Roles PROVE Listed(i)'
    BY <1>3, Constants DEF Listed, Increasing, Registered
  <2> QED
    BY <1>3, <2>1
<1>4. CASE StartFromScratch \/ Load \/ LoadFails \/ Fit \/ Crash
  BY <1>1, <1>3, <1>4 DEF StartFromScratch, Load, LoadFails, Fit, Crash, jobVars
<1>5. role \in DOMAIN Roles /\ role \in Nat /\ role <= Len(Roles) /\ DOMAIN Roles = 1 .. Len(Roles)
      /\ Len(Roles) \in Nat
  BY Constants DEF TypeOK
<1>6. CASE TrainStep \/ NextStep
  <2>1. /\ saved' = saved /\ tracker' = tracker /\ pc \in {"step", "next"}
        /\ pc' \in {"step", "next", "done"} \/ (pc' = "capacity" /\ role' = 1)
    BY <1>6 DEF TrainStep, NextStep, diskVars
  <2>2. \A i \in DOMAIN Roles : ~Registered(i) /\ ~Registered(i)'
    BY <1>5, <2>1 DEF Registered
  <2>3. \A i \in DOMAIN Roles : Listed(i)'
    BY <1>1, <2>1, <2>2, ListedStays
  <2> QED
    BY <2>1, <2>3
<1>7. CASE EnsureCapacity
  <2>1. /\ tracker' = tracker /\ g' = g /\ role' = role /\ pc = "capacity" /\ pc' = "write"
        /\ \A i \in DOMAIN Roles : Registered(i)' <=> Registered(i)
    BY <1>7 DEF EnsureCapacity, Registered
  <2>2. ASSUME NEW i \in DOMAIN Roles PROVE Listed(i)'
    <3>1. CASE saved'[Roles[i]] = saved[Roles[i]]
      BY <1>1, <2>1, <3>1, ListedStays DEF SavingPcs
    <3>2. CASE saved'[Roles[i]] # saved[Roles[i]]
      <4> DEFINE q == saved[Roles[role]]
                 k == Kept(q, MaxToKeep - 1)
                 d == IF Len(q) <= MaxToKeep - 1 THEN 0 ELSE Len(q) - (MaxToKeep - 1)
      <4>1. /\ MaxToKeep > 1 /\ saved' = [saved EXCEPT ![Roles[role]] = k]
        BY <1>7, <3>2 DEF EnsureCapacity
      <4>2. i = role /\ saved'[Roles[i]] = k
        BY <1>5, <3>2, <4>1, Constants DEF TypeOK
      <4>3. MaxToKeep - 1 \in Nat /\ q \in Seq(Steps)
        BY <1>5, <4>1, Constants DEF TypeOK
      <4>4. Increasing(k)
        BY <1>1, <1>5, <4>3, KeptIncreasing DEF Listed
      <4>5. \A m \in 1 .. Len(k) : m + d \in 1 .. Len(q) /\ k[m] = q[m + d]
        BY <4>3, KeptProperties
      <4>6. ~Registered(role)
        BY <1>5, <2>1 DEF Registered
      <4>7. \A n \in 1 .. Len(q) : q[n] <= Tracked
        BY <1>1, <1>5, <2>1, <4>6 DEF Listed, SavingPcs
      <4>8. \A m \in 1 .. Len(k) : k[m] <= Tracked
        BY <4>5, <4>7
      <4>9. Tracked' = Tracked
        BY <2>1 DEF Tracked
      <4> HIDE DEF k
      <4> QED
        BY <2>1, <4>2, <4>4, <4>6, <4>8, <4>9 DEF Listed, Increasing
    <3> QED
      BY <3>1, <3>2
  <2> QED
    BY <2>1, <2>2
<1>8. CASE Register
  <2> DEFINE q == saved[Roles[role]]
             paths == Append(q, g)
  <2>1. /\ tracker' = tracker /\ g' = g /\ pc = "write"
        /\ \/ role < Len(Roles) /\ pc' = "capacity" /\ role' = role + 1
           \/ role = Len(Roles) /\ pc' = "data" /\ role' = role
    BY <1>5, <1>8 DEF Register
  <2>2. /\ \A i \in DOMAIN Roles : i = role => ~Registered(i) /\ Registered(i)'
        /\ \A i \in DOMAIN Roles : i # role => (Registered(i)' <=> Registered(i))
    BY <1>5, <2>1 DEF Registered
  <2>3. g \in Steps /\ q \in Seq(Steps) /\ g > Tracked /\ Tracked \in Nat /\ Len(q) \in Nat
    BY <1>5, <2>1, SavedStep, Constants, LenProperties DEF TypeOK, PhaseInv, SavingPcs, Tracked
  <2>4. Increasing(q) /\ \A n \in 1 .. Len(q) : q[n] <= Tracked
    BY <1>1, <1>5, <2>1, <2>2 DEF Listed, SavingPcs
  <2>5. \A n \in 1 .. Len(q) : q[n] < g
    BY <2>3, <2>4, ElementOfSeq, Constants
  <2>6. /\ paths \in Seq(Steps) /\ Increasing(paths)
        /\ Len(paths) = Len(q) + 1 /\ paths[Len(q) + 1] = g
    BY <2>3, <2>4, <2>5, AppendIncreasing, Appended
  <2> HIDE DEF q, paths
  <2>7. ASSUME NEW i \in DOMAIN Roles PROVE Listed(i)'
    <3>1. CASE i # role
      <4>1. saved'[Roles[i]] = saved[Roles[i]]
        BY <1>5, <1>8, <3>1, Constants DEF Register, TypeOK
      <4> QED
        BY <1>1, <2>1, <2>2, <3>1, <4>1, ListedStays DEF SavingPcs
    <3>2. CASE i = role /\ MaxToKeep = 0
      <4>1. saved'[Roles[i]] = paths
        BY <1>5, <1>8, <3>2, Constants DEF Register, TypeOK, q, paths
      <4> QED
        BY <2>1, <2>2, <2>3, <2>6, <3>2, <4>1 DEF Listed, Increasing
    <3>3. CASE i = role /\ MaxToKeep # 0
      <4> DEFINE k == Kept(paths, MaxToKeep)
                 d == IF Len(paths) <= MaxToKeep THEN 0 ELSE Len(paths) - MaxToKeep
      <4>1. saved'[Roles[i]] = k
        BY <1>5, <1>8, <3>3, Constants DEF Register, TypeOK, q, paths
      <4>2. /\ d \in Nat /\ Len(k) = Len(paths) - d
            /\ \A m \in 1 .. Len(k) : m + d \in 1 .. Len(paths) /\ k[m] = paths[m + d]
        <5>1. paths \in Seq(Steps) /\ MaxToKeep \in Nat
          BY <2>6, Constants
        <5> QED
          BY <5>1, KeptProperties
      <4>3. Increasing(k)
        BY <2>6, KeptIncreasing, Constants
      <4>4. Len(k) \in Nat /\ Len(k) > 0
        <5>1. d = 0 \/ d = Len(paths) - MaxToKeep
          OBVIOUS
        <5>2. Len(paths) \in Nat /\ Len(paths) > 0 /\ MaxToKeep \in Nat /\ MaxToKeep > 0
          BY <2>3, <2>6, <3>3, Constants
        <5> HIDE DEF k, d
        <5> QED
          BY <4>2, <5>1, <5>2
      <4> HIDE DEF k, d
      <4>5. Len(k) \in 1 .. Len(k) /\ Len(k) + d = Len(q) + 1
        BY <2>3, <2>6, <4>2, <4>4
      <4>6. k[Len(k)] = g
        BY <2>6, <4>2, <4>5
      <4> QED
        BY <2>1, <2>2, <3>3, <4>1, <4>3, <4>4, <4>6 DEF Listed, Increasing
    <3> QED
      BY <3>1, <3>2, <3>3
  <2> QED
    BY <2>1, <2>7
<1>9. CASE \E k \in Ranks : OpenShard(k) \/ WriteShard(k)
  <2>1. /\ UNCHANGED <<tracker, pc, g, role, saved>> /\ pc = "write"
    BY <1>9 DEF OpenShard, WriteShard, jobVars
  <2>2. \A i \in DOMAIN Roles : Listed(i)'
    BY <1>1, <2>1, ListedStays DEF Registered, SavingPcs
  <2> QED
    BY <2>1, <2>2
<1>10. CASE OpenData \/ WriteData \/ OpenTracker
  <2>1. /\ UNCHANGED <<g, role, saved>>
        /\ pc \in {"data", "dataopen", "tracker"} /\ pc' \in {"dataopen", "tracker", "trackeropen"}
    BY <1>10 DEF OpenData, WriteData, OpenTracker, jobVars
  <2>2. \A i \in DOMAIN Roles : Registered(i) /\ Registered(i)'
    BY <2>1 DEF Registered
  <2>3. \A i \in DOMAIN Roles : Listed(i)'
    BY <1>1, <2>1, <2>2 DEF Listed, Increasing
  <2> QED
    BY <2>1, <2>3
<1>11. CASE WriteTracker
  <2>1. /\ UNCHANGED saved /\ pc = "trackeropen" /\ pc' = "next" /\ tracker' = g
    BY <1>11 DEF WriteTracker, jobVars
  <2>2. g \in Steps /\ Tracked' = g
    BY <2>1, SavedStep DEF Tracked
  <2>3. ASSUME NEW i \in DOMAIN Roles PROVE Listed(i)'
    <3> DEFINE q == saved[Roles[i]]
    <3>1. Increasing(q) /\ Len(q) > 0 /\ q[Len(q)] = g
      BY <1>1, <2>1 DEF Listed, Registered
    <3>2. q \in Seq(Steps) /\ Len(q) \in Nat
      BY Constants, LenProperties DEF TypeOK
    <3>3. \A n \in 1 .. Len(q) : q[n] <= g
      <4> SUFFICES ASSUME NEW n \in 1 .. Len(q) PROVE q[n] <= g
        OBVIOUS
      <4>1. Len(q) \in 1 .. Len(q) /\ g \in Nat
        BY <2>2, <3>1, <3>2, Constants
      <4>2. n = Len(q) \/ n < Len(q)
        BY <3>2
      <4>3. n < Len(q) => q[n] < g
        BY <3>1, <4>1 DEF Increasing
      <4>4. q[n] \in Nat
        BY <3>2, ElementOfSeq, Constants
      <4> QED
        BY <3>1, <4>1, <4>2, <4>3, <4>4
    <3>4. saved'[Roles[i]] = q /\ ~Registered(i)'
      BY <2>1 DEF Registered
    <3> HIDE DEF q
    <3> QED
      BY <2>2, <3>1, <3>3, <3>4 DEF Listed, Increasing
  <2> QED
    BY <2>1, <2>3
<1>12. CASE UNCHANGED vars
  <2>1. UNCHANGED <<tracker, pc, g, role, saved>>
    BY <1>12 DEF vars, diskVars, jobVars
  <2> QED
    BY <1>1, <2>1 DEF Listed, Increasing, Registered, Tracked
<1> QED
  BY <1>4, <1>6, <1>7, <1>8, <1>9, <1>10, <1>11, <1>12 DEF Next, JobNext, Save
-----------------------------------------------------------------------------
(* The parts together are inductive.                                       *)
LEMMA DiskInit == Init => DiskInv
<1> SUFFICES ASSUME Init PROVE DiskInv
  OBVIOUS
<1>1. TypeOK
  BY TypeInit
<1>2. PhaseInv /\ WeightsInv /\ TrackedInv /\ SaveInv
  BY EmptyLineage, Constants
  DEF Init, PhaseInv, Tracked, Trained, SavingPcs, WeightsInv, TrackedInv, SaveInv, Stored,
      Registered
<1>3. SavedInv
  BY Constants DEF Init, SavedInv, SavingPcs, Registered
<1> QED
  BY <1>1, <1>2, <1>3 DEF DiskInv

THEOREM DiskInvariant == Spec => []DiskInv
<1>1. Init => DiskInv
  BY DiskInit
<1>2. DiskInv /\ [Next]_vars => DiskInv'
  BY TypeStep, PhaseStep, WeightsStep, TrackedStep, SaveStep, SavedStepInv DEF DiskInv
<1> QED
  BY <1>1, <1>2, PTL DEF Spec

(* Every variable keeps its type: no action stores what another cannot use.*)
THEOREM TypeCorrect == Spec => []TypeOK
<1>1. DiskInv => TypeOK
  BY DEF DiskInv
<1> QED
  BY <1>1, DiskInvariant, PTL

(* What the retention deletes, before and after a save and over all        *)
(* restarts, is never the checkpoint that a restart would load.            *)
THEOREM TrackedStaysWhole == Spec => []TrackedIntact
<1>1. DiskInv => TrackedIntact
  <2> SUFFICES ASSUME DiskInv, MaxToKeep # 1, tracker \in Steps
               PROVE  /\ data[tracker] \in Nat
                      /\ \A p \in Parts :
                           /\ shard[tracker][p] \in Seq(Nat)
                           /\ Len(shard[tracker][p]) = tracker
                           /\ \A q \in Parts : shard[tracker][p] = shard[tracker][q]
    BY DEF TrackedIntact
  <2>1. \A p \in Parts : Lineage(shard[tracker][p], tracker, data[tracker])
    BY DEF DiskInv, TrackedInv
  <2>2. \A p \in Parts : shard[tracker][p] \in Seq(Nat) /\ Len(shard[tracker][p]) = tracker
    BY <2>1 DEF Lineage
  <2>3. \A p, q \in Parts : shard[tracker][p] = shard[tracker][q]
    BY <2>2, Constants DEF DiskInv, TrackedInv
  <2> QED
    BY <2>2, <2>3 DEF DiskInv, TrackedInv
<1> QED
  BY <1>1, DiskInvariant, PTL

-----------------------------------------------------------------------------
LEMMA MultiplesOfSaveFreq ==
  ASSUME NEW T \in Nat, NEW F \in Nat \ {0}, T % F = 0
  PROVE  (T + F) % F = 0
<1> DEFINE q == T \div F
<1>1. q \in Nat /\ T = F * q + (T % F)
  OBVIOUS
<1> HIDE DEF q
<1>2. q + 1 \in Nat /\ T + F = F * (q + 1)
  BY <1>1
<1>3. \A n \in Nat : (F * n) % F = 0
  OBVIOUS
<1> QED
  BY <1>2, <1>3

(* Every save is at most save_freq steps after the one the tracker names.  *)
LEMMA PeriodInit == Init => PeriodInv
<1> SUFFICES ASSUME Init PROVE PeriodInv
  OBVIOUS
<1>1. tracker = NoFile /\ pc = "start" /\ reached = 0 /\ Tracked = 0
  BY Constants DEF Init, Tracked
<1>2. SaveFreq \in Nat
  BY CheckpointAssumption DEF CheckpointAssumption
<1> QED
  BY <1>1, <1>2, Constants DEF PeriodInv, SavingPcs

LEMMA PeriodStep ==
  ASSUME DiskInv, PeriodInv, [Next]_vars
  PROVE  PeriodInv'
<1> USE DEF DiskInv
<1>1. /\ SaveFreq \in Nat \ {0} /\ TotalSteps \in Nat
      /\ g \in Nat /\ Tracked \in Nat /\ reached \in Nat
  BY Constants, CheckpointAssumption DEF CheckpointAssumption, TypeOK, Tracked
<1>2. CASE StartFromScratch
  BY <1>2 DEF StartFromScratch, diskVars, PeriodInv, SavingPcs, Tracked
<1>3. CASE Load
  BY <1>3 DEF Load, diskVars, PeriodInv, SavingPcs, Tracked
<1>4. CASE LoadFails
  BY <1>4 DEF LoadFails, diskVars, jobVars, PeriodInv, SavingPcs, Tracked
<1>5. CASE Fit
  <2>1. /\ UNCHANGED <<tracker, reached>> /\ g = Tracked
        /\ (pc' = "step" /\ g' = g + 1) \/ (pc' = "done" /\ g' = g)
    BY <1>5 DEF Fit, diskVars, PhaseInv
  <2>2. Tracked' = Tracked
    BY <2>1 DEF Tracked
  <2> QED
    BY <1>1, <2>1, <2>2, Constants DEF PeriodInv, SavingPcs, PhaseInv
<1>6. CASE TrainStep
  <2>1. /\ UNCHANGED <<tracker, g>> /\ pc = "step" /\ pc' = IF Saves(g) THEN "capacity" ELSE "next"
        /\ reached' = IF g > reached THEN g ELSE reached
    BY <1>6 DEF TrainStep, diskVars
  <2>2. Tracked' = Tracked /\ Tracked < g /\ g <= TotalSteps /\ tracker # Torn
    BY <2>1, Constants DEF Tracked, PhaseInv, TypeOK
  <2>3. g - Tracked <= SaveFreq /\ reached <= Tracked + SaveFreq
    BY <2>1, <2>2 DEF PeriodInv
  <2>4. Tracked % SaveFreq = 0
    <3>1. CASE tracker \in Steps
      BY <1>1, <2>2, <3>1 DEF PeriodInv, Saves, Tracked
    <3>2. CASE tracker \notin Steps
      BY <1>1, <3>2 DEF Tracked
    <3> QED
      BY <3>1, <3>2
  <2>5. g = Tracked + SaveFreq => Saves(g)
    BY <1>1, <2>4, MultiplesOfSaveFreq DEF Saves
  <2>6. ~Saves(g) => g - Tracked < SaveFreq
    BY <1>1, <2>3, <2>5
  <2>7. reached' <= Tracked + SaveFreq
    BY <1>1, <2>1, <2>3
  <2> QED
    BY <1>1, <2>1, <2>2, <2>3, <2>6, <2>7 DEF PeriodInv, SavingPcs
<1>7. CASE NextStep
  <2>1. /\ UNCHANGED <<tracker, reached>> /\ pc = "next"
        /\ (pc' = "step" /\ g' = g + 1) \/ (pc' = "done" /\ g' = g)
    BY <1>7 DEF NextStep, diskVars
  <2>2. Tracked' = Tracked
    BY <2>1 DEF Tracked
  <2> QED
    BY <1>1, <2>1, <2>2 DEF PeriodInv, SavingPcs
<1>8. ASSUME NEW k \in Ranks, OpenShard(k) \/ WriteShard(k) PROVE PeriodInv'
  BY <1>8 DEF OpenShard, WriteShard, jobVars, PeriodInv, SavingPcs, Tracked
<1>9. CASE EnsureCapacity \/ Register \/ OpenData \/ WriteData
  BY <1>9 DEF EnsureCapacity, Register, OpenData, WriteData, jobVars, PeriodInv, SavingPcs,
       Tracked
<1>10. CASE OpenTracker
  <2>1. tracker' = Torn /\ g' = g /\ reached' = reached /\ pc = "tracker" /\ pc' = "trackeropen"
    BY <1>10 DEF OpenTracker, jobVars
  <2>2. Saves(g) /\ g > Tracked /\ tracker # Torn /\ reached <= Tracked + SaveFreq
    BY <2>1 DEF PeriodInv, PhaseInv, SavingPcs
  <2>3. reached <= g + SaveFreq
    BY <1>1, <2>2
  <2> QED
    BY <2>1, <2>2, <2>3, Constants DEF PeriodInv, SavingPcs
<1>11. CASE WriteTracker
  <2>1. tracker' = g /\ g' = g /\ reached' = reached /\ pc = "trackeropen" /\ pc' = "next"
    BY <1>11 DEF WriteTracker, jobVars
  <2>2. g \in Steps /\ Saves(g) /\ reached <= g + SaveFreq
    BY <2>1, SavedStep DEF PeriodInv
  <2>3. Tracked' = g
    BY <2>1, <2>2 DEF Tracked
  <2> QED
    BY <1>1, <2>1, <2>2, <2>3 DEF PeriodInv, SavingPcs
<1>12. CASE Crash
  BY <1>12 DEF Crash, diskVars, PeriodInv, SavingPcs, Tracked
<1>13. CASE UNCHANGED vars
  BY <1>13 DEF vars, diskVars, jobVars, PeriodInv, Tracked
<1> QED
  BY <1>2, <1>3, <1>4, <1>5, <1>6, <1>7, <1>8, <1>9, <1>10, <1>11, <1>12, <1>13
  DEF Next, JobNext, Save

-----------------------------------------------------------------------------
(* The batches one life may give up.                                       *)
LEMMA WarmupTimes ==
  ASSUME NEW c \in Nat
  PROVE  /\ Warmup * c \in Nat
         /\ Warmup * (c + 1) = Warmup * c + Warmup
  BY Constants

LEMMA FedInit == Init => FedInv
<1> SUFFICES ASSUME Init PROVE FedInv
  OBVIOUS
<1>1. fed = 0 /\ Trained = 0 /\ Cardinality(ahead) = 0 /\ crashes = 0 /\ tracker \notin Steps
  BY FS_EmptySet, Constants DEF Init, Trained
<1> QED
  BY <1>1, Constants DEF FedInv

(* What an action leaves of it: the batches handed out, in flight and      *)
(* trained stay, and no life is taken away.                                *)
LEMMA FedUntouched ==
  ASSUME DiskInv, FedInv, DiskInv',
         fed' = fed, Trained' = Trained, ahead' = ahead, crashes' = crashes,
         Lives' = Lives \/ Lives' = Lives + 1,
         tracker' \in Steps => tracker' = tracker /\ data'[tracker] = data[tracker]
  PROVE  FedInv'
<1>1. tracker' \in Steps => data'[tracker'] - tracker' <= Warmup * Lives'
  <2> SUFFICES ASSUME tracker' \in Steps PROVE data'[tracker'] - tracker' <= Warmup * Lives'
    OBVIOUS
  <2>1. Lives \in Nat /\ Warmup \in Nat
    BY Constants, CheckpointAssumption DEF Lives, DiskInv, TypeOK, CheckpointAssumption
  <2>2. Warmup * Lives \in Nat /\ (Warmup * Lives' = Warmup * Lives
                                   \/ Warmup * Lives' = Warmup * Lives + Warmup)
    BY <2>1, WarmupTimes
  <2>3. data[tracker] \in Nat /\ tracker \in Nat /\ data[tracker] - tracker <= Warmup * Lives
    BY Constants DEF DiskInv, TrackedInv, FedInv
  <2> QED
    BY <2>1, <2>2, <2>3
<1> QED
  BY <1>1 DEF FedInv

LEMMA FedStep ==
  ASSUME DiskInv, FedInv, [Next]_vars, DiskInv'
  PROVE  FedInv'
<1> USE DEF DiskInv
<1>1. crashes \in Nat /\ fed \in Nat /\ g \in Nat /\ Warmup \in Nat /\ TotalSteps \in Nat
  BY Constants, CheckpointAssumption DEF TypeOK, CheckpointAssumption
<1>2. IsFiniteSet(ahead) /\ Cardinality(ahead) \in Nat
  <2>1. IsFiniteSet(1 .. fed)
    BY <1>1, FS_Interval
  <2>2. ahead \in SUBSET (1 .. fed)
    BY DEF TypeOK
  <2> QED
    BY <2>1, <2>2, FS_Subset, FS_CardinalityType
<1>3. /\ Warmup * crashes \in Nat
      /\ Warmup * (crashes + 1) = Warmup * crashes + Warmup
      /\ Cardinality({}) = 0
  BY <1>1, WarmupTimes, FS_EmptySet
<1>4. CASE StartFromScratch
  <2>1. tracker = NoFile
    BY <1>4, ScratchMeansNoFile DEF StartFromScratch
  <2>2. fed' = 0 /\ Trained' = 0 /\ ahead' = {} /\ crashes' = crashes /\ tracker' \notin Steps
    BY <1>4, <2>1, Constants DEF StartFromScratch, diskVars, PhaseInv, Trained
  <2> QED
    BY <1>1, <1>3, <2>2 DEF FedInv
<1>5. CASE Load
  <2>1. /\ tracker \in Steps /\ fed' = data[tracker] /\ Trained' = tracker /\ ahead' = {}
        /\ crashes' = crashes /\ tracker' = tracker /\ data' = data
        /\ Lives = crashes /\ Lives' = crashes
    BY <1>5, LoadsWhole DEF Load, diskVars, PhaseInv, Trained, Lives
  <2>2. data[tracker] \in Nat /\ tracker \in Nat /\ data[tracker] - tracker <= Warmup * crashes
    BY <2>1, LoadsWhole, Constants DEF FedInv, TrackedInv
  <2> QED
    BY <1>1, <1>3, <2>1, <2>2 DEF FedInv
<1>6. CASE LoadFails
  <2>1. Trained' = Trained /\ Lives' = Lives + 1
    BY <1>6 DEF LoadFails, jobVars, Trained, Lives
  <2> QED
    BY <1>6, <2>1, FedUntouched DEF LoadFails, diskVars, jobVars
<1>7. CASE Fit
  <2>1. CASE g < TotalSteps
    <3>1. /\ fed' = fed + Warmup /\ ahead' = fed + 1 .. fed + Warmup /\ Trained = g /\ Trained' = g
          /\ ahead = {} /\ crashes' = crashes /\ tracker' = tracker /\ data' = data
          /\ Lives = crashes /\ Lives' = crashes + 1
      BY <1>1, <1>7, <2>1 DEF Fit, diskVars, PhaseInv, Trained, Lives
    <3>2. Cardinality(ahead') = Warmup
      BY <1>1, <3>1, FS_Interval
    <3>3. fed - g <= Warmup * crashes
      BY <1>1, <1>3, <3>1 DEF FedInv
    <3>4. tracker \in Steps =>
            /\ data[tracker] \in Nat /\ tracker \in Nat
            /\ data[tracker] - tracker <= Warmup * crashes
      BY <3>1, Constants DEF FedInv, TrackedInv
    <3>5. fed' - Trained' - Cardinality(ahead') <= Warmup * crashes'
      BY <1>1, <1>3, <3>1, <3>2, <3>3
    <3>6. tracker' \in Steps => data'[tracker'] - tracker' <= Warmup * Lives'
      BY <1>1, <1>3, <3>1, <3>4
    <3> QED
      BY <1>1, <3>2, <3>5, <3>6 DEF FedInv
  <2>2. CASE ~(g < TotalSteps)
    <3>1. Trained' = Trained /\ Lives' = Lives + 1
      BY <1>7, <2>2 DEF Fit, Trained, Lives
    <3> QED
      BY <1>7, <2>2, <3>1, FedUntouched DEF Fit, diskVars
  <2> QED
    BY <2>1, <2>2
<1>8. CASE TrainStep
  <2>1. PICK b \in ahead \cup {fed'} : ahead' = (ahead \cup {fed'}) \ {b}
    BY <1>8 DEF TrainStep
  <2>2. /\ fed' = fed + 1 /\ Trained = g - 1 /\ Trained' = g /\ crashes' = crashes
        /\ tracker' = tracker /\ data' = data /\ Lives' = Lives
    BY <1>8 DEF TrainStep, diskVars, Trained, Lives
  <2>3. fed' \notin ahead
    BY <1>1, <2>2 DEF TypeOK
  <2>4. IsFiniteSet(ahead \cup {fed'}) /\ Cardinality(ahead \cup {fed'}) = Cardinality(ahead) + 1
    BY <1>2, <2>3, FS_AddElement
  <2>5. Cardinality(ahead') = Cardinality(ahead)
    BY <1>2, <2>1, <2>4, FS_RemoveElement
  <2>6. fed' - Trained' - Cardinality(ahead') <= Warmup * crashes'
    BY <1>1, <1>2, <1>3, <2>2, <2>5 DEF FedInv
  <2> QED
    BY <2>2, <2>5, <2>6 DEF FedInv
<1>9. CASE NextStep
  <2>1. pc = "next" /\ ((pc' = "done" /\ g' = g) \/ (pc' = "step" /\ g' = g + 1))
    BY <1>9 DEF NextStep
  <2>2. Trained' = Trained /\ Lives' = Lives
    <3>1. CASE pc' = "done" /\ g' = g
      BY <1>9, <2>1, <3>1 DEF Trained, Lives, NextStep
    <3>2. CASE pc' = "step" /\ g' = g + 1
      <4>1. Trained' = g' - 1 /\ Trained = g /\ (g + 1) - 1 = g
        BY <1>1, <2>1, <3>2 DEF Trained
      <4> QED
        BY <1>9, <2>1, <3>2, <4>1 DEF Lives, NextStep
    <3> QED
      BY <2>1, <3>1, <3>2
  <2> QED
    BY <1>9, <2>2, FedUntouched DEF NextStep, diskVars
<1>10. CASE EnsureCapacity \/ Register
  <2>1. /\ UNCHANGED <<data, tracker, g, fed, ahead, crashes>>
        /\ pc \in {"capacity", "write"} /\ pc' \in {"capacity", "write", "data"}
    BY <1>10 DEF EnsureCapacity, Register
  <2>2. Trained' = Trained /\ Lives' = Lives
    BY <2>1 DEF Trained, Lives
  <2> QED
    BY <2>1, <2>2, FedUntouched
<1>11. CASE \E k \in Ranks : OpenShard(k) \/ WriteShard(k)
  <2>1. UNCHANGED <<data, tracker, pc, g, fed, ahead, crashes>>
    BY <1>11 DEF OpenShard, WriteShard, jobVars
  <2>2. Trained' = Trained /\ Lives' = Lives
    BY <2>1 DEF Trained, Lives
  <2> QED
    BY <2>1, <2>2, FedUntouched
<1>12. CASE OpenData \/ WriteData \/ OpenTracker
  <2>1. /\ UNCHANGED <<g, fed, ahead, crashes>>
        /\ pc \in {"data", "dataopen", "tracker"} /\ pc' \in {"dataopen", "tracker", "trackeropen"}
    BY <1>12 DEF OpenData, WriteData, OpenTracker, jobVars
  <2>2. Trained' = Trained /\ Lives' = Lives
    BY <2>1 DEF Trained, Lives
  <2>3. tracker \in Steps => g # tracker
    BY <1>1, <2>1, Constants DEF PhaseInv, SavingPcs, Tracked
  <2>4. tracker' \in Steps => tracker' = tracker /\ data'[tracker] = data[tracker]
    BY <1>12, <2>3, Constants DEF OpenData, WriteData, OpenTracker, TypeOK
  <2> QED
    BY <2>1, <2>2, <2>4, FedUntouched
<1>13. CASE WriteTracker
  <2>1. /\ UNCHANGED <<data, g, fed, ahead, crashes>> /\ pc = "trackeropen" /\ pc' = "next"
        /\ tracker' = g
    BY <1>13 DEF WriteTracker, jobVars
  <2>2. Trained = g /\ Trained' = g /\ Lives' = crashes + 1 /\ data[g] = fed
    BY <2>1 DEF Trained, Lives, SaveInv
  <2>3. data'[tracker'] - tracker' <= Warmup * Lives'
    BY <1>1, <1>2, <1>3, <2>1, <2>2 DEF FedInv
  <2> QED
    BY <2>1, <2>2, <2>3 DEF FedInv
<1>14. CASE Crash
  <2>1. /\ fed' = 0 /\ Trained' = 0 /\ ahead' = {} /\ crashes' = crashes + 1
        /\ tracker' = tracker /\ data' = data
        /\ Lives' = crashes + 1 /\ (Lives = crashes \/ Lives = crashes + 1)
    BY <1>14 DEF Crash, diskVars, Trained, Lives
  <2>2. tracker' \in Steps => data'[tracker'] - tracker' <= Warmup * Lives'
    <3> SUFFICES ASSUME tracker \in Steps
                 PROVE  data[tracker] - tracker <= Warmup * (crashes + 1)
      BY <2>1
    <3>1. data[tracker] \in Nat /\ tracker \in Nat /\ data[tracker] - tracker <= Warmup * Lives
      BY Constants DEF TrackedInv, FedInv
    <3> QED
      BY <1>1, <1>3, <2>1, <3>1
  <2>3. 0 - 0 - 0 <= Warmup * (crashes + 1)
    BY <1>1, <1>3
  <2> QED
    BY <1>1, <1>3, <2>1, <2>2, <2>3 DEF FedInv
<1>15. CASE UNCHANGED vars
  <2>1. UNCHANGED <<data, tracker, pc, g, fed, ahead, crashes>>
    BY <1>15 DEF vars, diskVars, jobVars
  <2>2. Trained' = Trained /\ Lives' = Lives
    BY <2>1 DEF Trained, Lives
  <2> QED
    BY <2>1, <2>2, FedUntouched
<1> QED
  BY <1>4, <1>5, <1>6, <1>7, <1>8, <1>9, <1>10, <1>11, <1>12, <1>13, <1>14, <1>15
  DEF Next, JobNext, Save
-----------------------------------------------------------------------------
(* As many elements as positions, when no element is repeated.             *)
LEMMA ElementsOfLineage ==
  ASSUME NEW w, NEW n \in Nat, NEW f \in Nat, Lineage(w, n, f)
  PROVE  /\ IsFiniteSet(Elements(w))
         /\ Cardinality(Elements(w)) = n
         /\ Elements(w) \subseteq 1 .. f
<1>1. w \in Seq(Nat) /\ DOMAIN w = 1 .. n
  BY LenProperties DEF Lineage
<1>2. w \in [1 .. n -> Elements(w)]
  BY <1>1, LenProperties DEF Elements, Lineage
<1>3. w \in Bijection(1 .. n, Elements(w))
  BY <1>1, <1>2 DEF Lineage, Elements, Bijection, Injection, IsInjective, Surjection
<1>4. ExistsBijection(1 .. n, Elements(w))
  BY <1>3 DEF ExistsBijection
<1>5. IsFiniteSet(Elements(w)) /\ Cardinality(Elements(w)) = n
  BY <1>4, FS_NatBijection, FS_CountingElements
<1> QED
  BY <1>1, <1>5 DEF Elements, Lineage

(* Of the batches handed out, those neither trained nor in flight.         *)
LEMMA GivenUp ==
  ASSUME DiskInv, FedInv, NEW p \in Parts
  PROVE  Cardinality((1 .. fed) \ (Elements(weights[p]) \cup ahead)) <= Warmup * crashes
<1> DEFINE E == Elements(weights[p])
<1>1. fed \in Nat /\ crashes \in Nat /\ ahead \subseteq 1 .. fed
  BY CheckpointAssumption DEF DiskInv, TypeOK, CheckpointAssumption
<1>2. Trained \in Nat
  BY Constants DEF DiskInv, TypeOK, PhaseInv, Trained, Tracked
<1>3. Lineage(weights[p], Trained, fed) /\ \A i \in 1 .. Trained : weights[p][i] \notin ahead
  BY DEF DiskInv, WeightsInv
<1>4. IsFiniteSet(E) /\ Cardinality(E) = Trained /\ E \subseteq 1 .. fed
  BY <1>1, <1>2, <1>3, ElementsOfLineage
<1>5. E \cap ahead = {}
  <2>1. DOMAIN weights[p] = 1 .. Trained
    BY <1>3, LenProperties DEF Lineage
  <2> QED
    BY <1>3, <2>1 DEF Elements
<1>6. IsFiniteSet(1 .. fed) /\ Cardinality(1 .. fed) = fed
  BY <1>1, FS_Interval
<1>7. IsFiniteSet(ahead) /\ Cardinality(ahead) \in Nat
  BY <1>1, <1>6, FS_Subset, FS_CardinalityType
<1> HIDE DEF E
<1>8. /\ IsFiniteSet(E \cup ahead)
      /\ Cardinality(E \cup ahead) = Trained + Cardinality(ahead)
  <2>1. Cardinality(E \cup ahead) = Cardinality(E) + Cardinality(ahead) - Cardinality(E \cap ahead)
        /\ IsFiniteSet(E \cup ahead)
    BY <1>4, <1>7, FS_Union
  <2>2. Cardinality(E \cap ahead) = 0
    BY <1>5, FS_EmptySet
  <2> QED
    BY <1>2, <1>4, <1>7, <2>1, <2>2
<1> DEFINE U == E \cup ahead
           R == (1 .. fed) \ U
<1>9. IsFiniteSet(R) /\ Cardinality(R) \in Nat
  BY <1>6, FS_Subset, FS_CardinalityType
<1>10. R \cup U = 1 .. fed /\ R \cap U = {}
  BY <1>1, <1>4
<1> HIDE DEF U, R
<1>11. Cardinality(R) + Cardinality(U) = fed
  <2>1. Cardinality(R \cup U) = Cardinality(R) + Cardinality(U) - Cardinality(R \cap U)
    BY <1>8, <1>9, FS_Union DEF U
  <2>2. Cardinality(R \cap U) = 0
    BY <1>10, FS_EmptySet
  <2>3. Cardinality(U) \in Nat
    BY <1>8, FS_CardinalityType DEF U
  <2>4. Cardinality(R \cup U) = fed
    BY <1>6, <1>10
  <2> QED
    BY <1>9, <2>1, <2>2, <2>3, <2>4
<1>12. fed - Trained - Cardinality(ahead) <= Warmup * crashes /\ Warmup * crashes \in Nat
  BY <1>1, WarmupTimes DEF FedInv
<1>13. Cardinality(R) <= Warmup * crashes
  BY <1>1, <1>2, <1>7, <1>8, <1>9, <1>11, <1>12 DEF U
<1> QED
  BY <1>13 DEF R, U, E

(* Over all restarts the training goes on from where it was saved: no      *)
(* batch is trained twice, none is skipped but those in flight when a job  *)
(* ended, and at most save_freq steps are repeated.                        *)
THEOREM ResumedExactly == Spec => []ResumesExactly
<1>1. Init => DiskInv /\ FedInv /\ PeriodInv
  BY DiskInit, FedInit, PeriodInit
<1>2. DiskInv /\ FedInv /\ PeriodInv /\ [Next]_vars => (DiskInv /\ FedInv /\ PeriodInv)'
  <2> SUFFICES ASSUME DiskInv, FedInv, PeriodInv, [Next]_vars
               PROVE  DiskInv' /\ FedInv' /\ PeriodInv'
    OBVIOUS
  <2>1. DiskInv'
    BY TypeStep, PhaseStep, WeightsStep, TrackedStep, SaveStep, SavedStepInv DEF DiskInv
  <2> QED
    BY <2>1, FedStep, PeriodStep
<1>3. DiskInv /\ FedInv /\ PeriodInv => ResumesExactly
  <2> SUFFICES ASSUME DiskInv, FedInv, PeriodInv PROVE ResumesExactly
    OBVIOUS
  <2>1. EachBatchOnce
    <3> SUFFICES ASSUME NEW p \in Parts, NEW i \in DOMAIN weights[p], NEW j \in DOMAIN weights[p],
                        weights[p][i] = weights[p][j]
                 PROVE  i = j
      BY DEF EachBatchOnce
    <3>1. Lineage(weights[p], Trained, fed)
      BY DEF DiskInv, WeightsInv
    <3>2. DOMAIN weights[p] = 1 .. Trained
      BY <3>1, LenProperties DEF Lineage
    <3> QED
      BY <3>1, <3>2 DEF Lineage
  <2>2. SkipsOnlyInFlight
    BY GivenUp DEF SkipsOnlyInFlight
  <2>3. BoundedLoss
    <3> SUFFICES ASSUME pc = "resumed" PROVE reached - g <= SaveFreq
      BY DEF BoundedLoss
    <3>1. g = Tracked /\ tracker # Torn
      BY DEF DiskInv, PhaseInv
    <3>2. reached <= Tracked + SaveFreq /\ reached \in Nat /\ g \in Nat /\ SaveFreq \in Nat
      BY <3>1, Constants, CheckpointAssumption DEF PeriodInv, DiskInv, TypeOK,
           CheckpointAssumption
    <3> QED
      BY <3>1, <3>2
  <2> QED
    BY <2>1, <2>2, <2>3 DEF ResumesExactly
<1> QED
  BY <1>1, <1>2, <1>3, PTL DEF Spec
-----------------------------------------------------------------------------
(* Every path is either in excess or kept.                                 *)
LEMMA ExcessOrKept ==
  ASSUME NEW S, NEW q \in Seq(S), NEW n \in Nat
  PROVE  Elements(q) \subseteq Excess(q, n) \cup Elements(Kept(q, n))
<1> DEFINE k == Kept(q, n)
           d == IF Len(q) <= n THEN 0 ELSE Len(q) - n
<1>1. /\ d \in Nat /\ k \in Seq(S) /\ Len(k) = Len(q) - d
      /\ \A m \in 1 .. Len(k) : m + d \in 1 .. Len(q) /\ k[m] = q[m + d]
  BY KeptProperties
<1>2. DOMAIN q = 1 .. Len(q) /\ Len(q) \in Nat
  BY LenProperties
<1>3. DOMAIN k = 1 .. Len(k)
  BY <1>1, LenProperties
<1>4. \A j \in 1 .. Len(q) : j > d => j - d \in DOMAIN k /\ k[j - d] = q[j]
  <2> HIDE DEF k, d
  <2> SUFFICES ASSUME NEW j \in 1 .. Len(q), j > d PROVE j - d \in DOMAIN k /\ k[j - d] = q[j]
    OBVIOUS
  <2>1. j - d \in 1 .. Len(k) /\ (j - d) + d = j
    BY <1>1, <1>2
  <2> QED
    BY <1>1, <1>3, <2>1
<1>5. \A j \in 1 .. Len(q) : j <= d => j <= Len(q) - n
  BY <1>2
<1> HIDE DEF k
<1>6. ASSUME NEW j \in 1 .. Len(q) PROVE q[j] \in Excess(q, n) \cup Elements(k)
  <2>1. CASE j <= d
    BY <1>2, <1>5, <2>1 DEF Excess
  <2>2. CASE j > d
    BY <1>4, <2>2 DEF Elements
  <2> QED
    BY <1>1, <1>2, <2>1, <2>2
<1> QED
  BY <1>2, <1>6 DEF Elements, k

(* No more different elements than positions.                              *)
LEMMA FewElements ==
  ASSUME NEW S, NEW q \in Seq(S)
  PROVE  /\ IsFiniteSet(Elements(q))
         /\ Cardinality(Elements(q)) \in Nat
         /\ Cardinality(Elements(q)) <= Len(q)
<1>1. Len(q) \in Nat /\ DOMAIN q = 1 .. Len(q) /\ q \in [1 .. Len(q) -> Elements(q)]
  BY LenProperties DEF Elements
<1>2. q \in Surjection(1 .. Len(q), Elements(q))
  BY <1>1 DEF Elements, Surjection
<1>3. IsFiniteSet(1 .. Len(q)) /\ Cardinality(1 .. Len(q)) = Len(q)
  BY <1>1, FS_Interval
<1> QED
  BY <1>2, <1>3, FS_Surjection, FS_CardinalityType

(* The part of RetentionInv about one role.                                *)
Retained(i) ==
  /\ Len(saved[Roles[i]]) <= MaxToKeep
  /\ pc = "write" /\ role = i => Len(saved[Roles[i]]) < AtOnce
  /\ Cardinality(OnDisk(Roles[i]) \ Mine(i)) <= AtOnce * crashes

LEMMA RetainedConstants ==
  ASSUME TypeOK, NEW i \in DOMAIN Roles
  PROVE  /\ saved[Roles[i]] \in Seq(Steps)
         /\ Len(saved[Roles[i]]) \in Nat
         /\ MaxToKeep \in Nat /\ AtOnce \in Nat /\ AtOnce >= MaxToKeep
         /\ crashes \in Nat /\ AtOnce * crashes \in Nat
         /\ AtOnce * (crashes + 1) = AtOnce * crashes + AtOnce
         /\ IsFiniteSet(OnDisk(Roles[i]))
<1>1. /\ saved[Roles[i]] \in Seq(Steps) /\ Len(saved[Roles[i]]) \in Nat
  BY Constants, LenProperties DEF TypeOK
<1>2. MaxToKeep \in Nat /\ AtOnce \in Nat /\ AtOnce >= MaxToKeep
  BY Constants DEF AtOnce
<1>3. crashes \in Nat
  BY CheckpointAssumption DEF TypeOK, CheckpointAssumption
<1> HIDE DEF AtOnce
<1>4. AtOnce * crashes \in Nat /\ AtOnce * (crashes + 1) = AtOnce * crashes + AtOnce
  BY <1>2, <1>3
<1>5. IsFiniteSet(Steps)
  BY Constants, FS_Interval DEF Steps
<1>6. OnDisk(Roles[i]) \in SUBSET Steps
  BY DEF OnDisk
<1> QED
  BY <1>1, <1>2, <1>3, <1>4, <1>5, <1>6, FS_Subset

(* All the checkpoints of a role: those of earlier lives and its own.      *)
LEMMA RetainedTotal ==
  ASSUME TypeOK, NEW i \in DOMAIN Roles, Retained(i), MaxToKeep > 0
  PROVE  Cardinality(OnDisk(Roles[i])) <= AtOnce * crashes + AtOnce
<1> DEFINE q == saved[Roles[i]]
           O == OnDisk(Roles[i])
<1>1. /\ q \in Seq(Steps) /\ Len(q) \in Nat /\ AtOnce \in Nat /\ AtOnce >= MaxToKeep
      /\ AtOnce * crashes \in Nat /\ IsFiniteSet(O) /\ MaxToKeep \in Nat
  BY RetainedConstants
<1>2. /\ IsFiniteSet(Elements(q))
      /\ Cardinality(Elements(q)) \in Nat /\ Cardinality(Elements(q)) <= Len(q)
  BY <1>1, FewElements
<1>3. IsFiniteSet(Mine(i)) /\ Cardinality(Mine(i)) <= AtOnce
  <2>1. CASE pc = "write" /\ role = i
    <3>1. Mine(i) = Elements(q) \cup {g} /\ Len(q) < AtOnce
      BY <2>1 DEF Mine, Retained
    <3> DEFINE E == Elements(q)
    <3> HIDE DEF E
    <3>2. IsFiniteSet(E) /\ Cardinality(E) \in Nat /\ Cardinality(E) <= Len(q)
      BY <1>2 DEF E
    <3>3. IsFiniteSet(E \cup {g}) /\ Cardinality(E \cup {g}) <= Cardinality(E) + 1
      <4>1. /\ IsFiniteSet(E \cup {g})
            /\ Cardinality(E \cup {g}) = IF g \in E THEN Cardinality(E) ELSE Cardinality(E) + 1
        BY <3>2, FS_AddElement
      <4>2. Cardinality(E) <= Cardinality(E) + 1
        BY <3>2
      <4> QED
        BY <3>2, <4>1, <4>2
    <3>4. Cardinality(E \cup {g}) \in Nat
      BY <3>3, FS_CardinalityType
    <3>5. Cardinality(E \cup {g}) <= AtOnce
      BY <1>1, <3>1, <3>2, <3>3, <3>4
    <3> QED
      BY <3>1, <3>3, <3>5 DEF E
  <2>2. CASE ~(pc = "write" /\ role = i)
    <3>1. Mine(i) = Elements(q) /\ Len(q) <= MaxToKeep
      BY <2>2 DEF Mine, Retained
    <3> QED
      BY <1>1, <1>2, <3>1
  <2> QED
    BY <2>1, <2>2
<1> DEFINE R == O \ Mine(i)
<1>4. IsFiniteSet(R) /\ Cardinality(R) <= AtOnce * crashes
  BY <1>1, FS_Subset DEF Retained
<1>5. O \in SUBSET (R \cup Mine(i))
  OBVIOUS
<1>6. Cardinality(R) \in Nat /\ Cardinality(Mine(i)) \in Nat
  BY <1>3, <1>4, FS_CardinalityType
<1> HIDE DEF R, O, q
<1>7. /\ IsFiniteSet(R \cup Mine(i))
      /\ Cardinality(R \cup Mine(i))
           = Cardinality(R) + Cardinality(Mine(i)) - Cardinality(R \cap Mine(i))
  BY <1>3, <1>4, FS_Union
<1>8. Cardinality(R \cap Mine(i)) \in Nat
  BY <1>4, FS_Intersection, FS_CardinalityType
<1>9. Cardinality(O) <= Cardinality(R \cup Mine(i)) /\ Cardinality(O) \in Nat
  BY <1>1, <1>5, <1>7, FS_Subset, FS_CardinalityType
<1>10. Cardinality(R \cup Mine(i)) <= AtOnce * crashes + AtOnce
  BY <1>1, <1>3, <1>4, <1>6, <1>7, <1>8
<1>11. Cardinality(O) <= AtOnce * crashes + AtOnce
  BY <1>1, <1>6, <1>7, <1>8, <1>9, <1>10
<1> QED
  BY <1>11 DEF O

(* An action of a life adds no checkpoint that its own list does not have. *)
LEMMA RetainedStays ==
  ASSUME TypeOK, TypeOK', NEW i \in DOMAIN Roles, Retained(i), crashes' = crashes,
         OnDisk(Roles[i])' \ Mine(i)' \subseteq OnDisk(Roles[i]) \ Mine(i),
         Len(saved'[Roles[i]]) <= MaxToKeep,
         pc' = "write" /\ role' = i => Len(saved'[Roles[i]]) < AtOnce
  PROVE  Retained(i)'
<1> DEFINE R == OnDisk(Roles[i]) \ Mine(i)
           T == OnDisk(Roles[i])' \ Mine(i)'
<1>1. IsFiniteSet(R) /\ AtOnce * crashes \in Nat
  BY RetainedConstants, FS_Subset
<1>2. T \in SUBSET R
  OBVIOUS
<1>3. /\ Cardinality(T) <= Cardinality(R) /\ Cardinality(T) \in Nat /\ Cardinality(R) \in Nat
  BY <1>1, <1>2, FS_Subset, FS_CardinalityType
<1>4. Cardinality(R) <= AtOnce * crashes
  BY DEF Retained
<1> HIDE DEF R, T
<1>5. Cardinality(T) <= AtOnce * crashes'
  BY <1>1, <1>3, <1>4
<1>6. AtOnce' = AtOnce
  BY DEF AtOnce
<1> QED
  BY <1>5, <1>6 DEF Retained, T

LEMMA RetentionInit == Init => RetentionInv
<1> SUFFICES ASSUME Init, MaxToKeep > 0, NEW i \in DOMAIN Roles
             PROVE  /\ Len(saved[Roles[i]]) <= MaxToKeep
                    /\ pc = "write" /\ role = i => Len(saved[Roles[i]]) < AtOnce
                    /\ Cardinality(OnDisk(Roles[i]) \ Mine(i)) <= AtOnce * crashes
  BY DEF RetentionInv
<1>1. saved[Roles[i]] = <<>> /\ pc = "start" /\ crashes = 0
  BY Constants DEF Init
<1>2. \A k \in Ranks : <<Roles[i], k>> \in Parts
  BY Constants DEF Parts
<1>3. OnDisk(Roles[i]) = {}
  BY <1>2 DEF Init, OnDisk, Empty
<1>4. Cardinality(OnDisk(Roles[i]) \ Mine(i)) = 0
  BY <1>3, FS_EmptySet
<1>5. AtOnce \in Nat /\ MaxToKeep \in Nat
  BY Constants DEF AtOnce
<1> HIDE DEF AtOnce
<1>6. AtOnce * 0 = 0
  BY <1>5
<1> QED
  BY <1>1, <1>4, <1>5, <1>6

LEMMA RetentionStep ==
  ASSUME DiskInv, DiskInv', RetentionInv, [Next]_vars
  PROVE  RetentionInv'
<1> SUFFICES ASSUME MaxToKeep > 0, NEW i \in DOMAIN Roles PROVE Retained(i)'
  BY DEF RetentionInv, Retained
<1>1. Retained(i) /\ TypeOK /\ TypeOK'
  BY DEF RetentionInv, Retained, DiskInv
<1>2. /\ MaxToKeep \in Nat /\ saved[Roles[i]] \in Seq(Steps) /\ Len(saved[Roles[i]]) \in Nat
      /\ AtOnce >= MaxToKeep /\ AtOnce \in Nat
  BY <1>1, RetainedConstants
<1>3. role \in DOMAIN Roles /\ (Roles[i] = Roles[role] => i = role) /\ Roles[i] \in RoleSet
      /\ \A k \in Ranks : <<Roles[i], k>> \in Parts
  BY <1>1, Constants DEF TypeOK, Parts

(* Nothing about the role changes.                                         *)
<1>4. ASSUME crashes' = crashes, saved'[Roles[i]] = saved[Roles[i]],
             OnDisk(Roles[i])' = OnDisk(Roles[i]),
             (pc' = "write" /\ role' = i) <=> (pc = "write" /\ role = i), g' = g
      PROVE  Retained(i)'
  <2>1. Mine(i)' = Mine(i)
    BY <1>4 DEF Mine
  <2> QED
    BY <1>1, <1>4, <2>1, RetainedStays DEF Retained

(* The role is not being written, before or after.                         *)
<1>5. ASSUME crashes' = crashes, saved'[Roles[i]] = saved[Roles[i]],
             shard' = shard, ~(pc' = "write" /\ role' = i), ~(pc = "write" /\ role = i)
      PROVE  Retained(i)'
  <2>1. Mine(i)' = Mine(i) /\ OnDisk(Roles[i])' = OnDisk(Roles[i])
    BY <1>5 DEF Mine, OnDisk
  <2> QED
    BY <1>1, <1>5, <2>1, RetainedStays DEF Retained
<1>6. CASE StartFromScratch \/ Load \/ LoadFails \/ Fit \/ TrainStep \/ NextStep
  <2>1. UNCHANGED <<shard, saved, crashes>> /\ pc # "write" /\ pc' # "write"
    BY <1>6 DEF StartFromScratch, Load, LoadFails, Fit, TrainStep, NextStep, diskVars, jobVars
  <2> QED
    BY <1>5, <2>1
<1>7. CASE OpenData \/ WriteData \/ OpenTracker \/ WriteTracker
  <2>1. UNCHANGED <<shard, saved, crashes>> /\ pc # "write" /\ pc' # "write"
    BY <1>7 DEF OpenData, WriteData, OpenTracker, WriteTracker, jobVars
  <2> QED
    BY <1>5, <2>1
<1>8. CASE EnsureCapacity
  <2> DEFINE q == saved[Roles[i]]
             k == Kept(q, MaxToKeep - 1)
             E == Excess(q, MaxToKeep - 1)
  <2>1. pc = "capacity" /\ pc' = "write" /\ UNCHANGED <<g, role, crashes>>
    BY <1>8 DEF EnsureCapacity
  <2>2. CASE i # role
    <3>1. saved'[Roles[i]] = q
      BY <1>1, <1>3, <1>8, <2>2 DEF EnsureCapacity, TypeOK
    <3>2. OnDisk(Roles[i])' = OnDisk(Roles[i])
      <4>1. CASE MaxToKeep > 1 /\ Len(saved[Roles[role]]) >= MaxToKeep
        <5>1. RemovePaths(Roles[role], Excess(saved[Roles[role]], MaxToKeep - 1))
          BY <1>8, <4>1 DEF EnsureCapacity
        <5>2. \A s \in Steps, j \in Ranks : shard'[s][<<Roles[i], j>>] = shard[s][<<Roles[i], j>>]
          BY <1>1, <1>3, <2>2, <5>1, RemovedPaths DEF TypeOK, ShardType
        <5> QED
          BY <5>2 DEF OnDisk
      <4>2. CASE ~(MaxToKeep > 1 /\ Len(saved[Roles[role]]) >= MaxToKeep)
        BY <1>8, <4>2 DEF EnsureCapacity, OnDisk
      <4> QED
        BY <4>1, <4>2
    <3> QED
      BY <1>4, <2>1, <2>2, <3>1, <3>2
  <2>3. CASE i = role /\ MaxToKeep > 1 /\ Len(q) >= MaxToKeep
    <3>1. RemovePaths(Roles[i], E) /\ saved'[Roles[i]] = k
      BY <1>1, <1>3, <1>8, <2>3 DEF EnsureCapacity, TypeOK
    <3>2. \A s \in OnDisk(Roles[i])' : s \in OnDisk(Roles[i]) /\ s \notin E
      <4>1. \A s \in Steps, p \in Parts :
              shard'[s][p] = IF s \in E /\ p[1] = Roles[i] THEN NoFile ELSE shard[s][p]
        BY <1>1, <3>1, RemovedPaths DEF TypeOK, ShardType
      <4>2. \A s \in Steps, j \in Ranks :
              shard'[s][<<Roles[i], j>>]
                = IF s \in E THEN NoFile ELSE shard[s][<<Roles[i], j>>]
        BY <1>3, <4>1
      <4> HIDE DEF E
      <4> QED
        BY <4>2 DEF OnDisk
    <3>3. MaxToKeep - 1 \in Nat
      BY <1>2, <2>3
    <3>4. Elements(q) \subseteq E \cup Elements(k)
      BY <1>2, <3>3, ExcessOrKept
    <3>5. Mine(i) = Elements(q) /\ Elements(k) \subseteq Mine(i)'
      BY <2>1, <2>3, <3>1 DEF Mine
    <3>6. OnDisk(Roles[i])' \ Mine(i)' \subseteq OnDisk(Roles[i]) \ Mine(i)
      BY <3>2, <3>4, <3>5
    <3>7. Len(k) = MaxToKeep - 1
      <4>1. LET d == IF Len(q) <= MaxToKeep - 1 THEN 0 ELSE Len(q) - (MaxToKeep - 1)
            IN  Len(k) = Len(q) - d
        BY <1>2, <3>3, KeptProperties
      <4> QED
        BY <1>2, <2>3, <4>1
    <3>8. Len(saved'[Roles[i]]) < AtOnce /\ Len(saved'[Roles[i]]) <= MaxToKeep
      BY <1>2, <3>1, <3>7
    <3> QED
      BY <1>1, <2>1, <3>6, <3>8, RetainedStays
  <2>4. CASE i = role /\ ~(MaxToKeep > 1 /\ Len(q) >= MaxToKeep)
    <3>1. UNCHANGED <<shard, saved>>
      BY <1>8, <2>4 DEF EnsureCapacity
    <3>2. OnDisk(Roles[i])' \ Mine(i)' \subseteq OnDisk(Roles[i]) \ Mine(i)
      BY <2>1, <3>1 DEF OnDisk, Mine
    <3>3. Len(q) <= MaxToKeep /\ Len(q) < AtOnce
      BY <1>1, <1>2, <2>4 DEF Retained, AtOnce
    <3> QED
      BY <1>1, <2>1, <3>1, <3>2, <3>3, RetainedStays
  <2> QED
    BY <2>2, <2>3, <2>4
<1>9. CASE Register
  <2> DEFINE q == saved[Roles[i]]
             paths == Append(q, g)
             k == Kept(paths, MaxToKeep)
             E == Excess(paths, MaxToKeep)
  <2>1. pc = "write" /\ pc' # "write" /\ UNCHANGED <<g, crashes>>
    BY <1>9 DEF Register
  <2>2. RemovePaths(Roles[role], Excess(Append(saved[Roles[role]], g), MaxToKeep))
    BY <1>9 DEF Register
  <2>3. CASE i # role
    <3>1. saved'[Roles[i]] = q
      BY <1>1, <1>3, <1>9, <2>3 DEF Register, TypeOK
    <3>2. \A s \in Steps, j \in Ranks : shard'[s][<<Roles[i], j>>] = shard[s][<<Roles[i], j>>]
      BY <1>1, <1>3, <2>2, <2>3, RemovedPaths DEF TypeOK, ShardType
    <3>3. OnDisk(Roles[i])' = OnDisk(Roles[i])
      BY <3>2 DEF OnDisk
    <3> QED
      BY <1>4, <2>1, <2>3, <3>1, <3>3
  <2>4. CASE i = role
    <3>1. RemovePaths(Roles[i], E) /\ saved'[Roles[i]] = k
      BY <1>1, <1>3, <1>9, <2>4 DEF Register, TypeOK
    <3>2. \A s \in OnDisk(Roles[i])' : s \in OnDisk(Roles[i]) /\ s \notin E
      <4>1. \A s \in Steps, p \in Parts :
              shard'[s][p] = IF s \in E /\ p[1] = Roles[i] THEN NoFile ELSE shard[s][p]
        BY <1>1, <3>1, RemovedPaths DEF TypeOK, ShardType
      <4>2. \A s \in Steps, j \in Ranks :
              shard'[s][<<Roles[i], j>>]
                = IF s \in E THEN NoFile ELSE shard[s][<<Roles[i], j>>]
        BY <1>3, <4>1
      <4> HIDE DEF E
      <4> QED
        BY <4>2 DEF OnDisk
    <3>3. g \in Steps
      BY <2>1, SavedStep DEF DiskInv, SavingPcs
    <3>4. /\ paths \in Seq(Steps) /\ Len(paths) \in Nat /\ Len(paths) = Len(q) + 1
          /\ \A m \in 1 .. Len(q) : paths[m] = q[m]
          /\ paths[Len(q) + 1] = g
      BY <1>2, <3>3, Appended
    <3> HIDE DEF paths
    <3>5. Elements(paths) \subseteq E \cup Elements(k)
      BY <1>2, <3>4, ExcessOrKept
    <3>6. Elements(q) \cup {g} \subseteq Elements(paths)
      <4>1. DOMAIN paths = 1 .. Len(q) + 1 /\ DOMAIN q = 1 .. Len(q)
        BY <1>2, <3>4, LenProperties
      <4>2. \A m \in DOMAIN q : m \in DOMAIN paths /\ paths[m] = q[m]
        BY <1>2, <3>4, <4>1
      <4>3. Len(q) + 1 \in DOMAIN paths
        BY <1>2, <4>1
      <4> QED
        BY <3>4, <4>2, <4>3 DEF Elements
    <3>7. Mine(i) = Elements(q) \cup {g} /\ Mine(i)' = Elements(k)
      BY <2>1, <2>4, <3>1 DEF Mine
    <3>8. OnDisk(Roles[i])' \ Mine(i)' \subseteq OnDisk(Roles[i]) \ Mine(i)
      BY <3>2, <3>5, <3>6, <3>7
    <3>9. Len(k) <= MaxToKeep
      <4>1. LET d == IF Len(paths) <= MaxToKeep THEN 0 ELSE Len(paths) - MaxToKeep
            IN  Len(k) = Len(paths) - d
        BY <1>2, <3>4, KeptProperties
      <4> QED
        BY <1>2, <3>4, <4>1
    <3> QED
      BY <1>1, <2>1, <3>1, <3>8, <3>9, RetainedStays
  <2> QED
    BY <2>3, <2>4
<1>10. ASSUME NEW j \in Ranks, OpenShard(j) \/ WriteShard(j) PROVE Retained(i)'
  <2>1. UNCHANGED <<pc, role, g, saved, crashes>> /\ pc = "write"
    BY <1>10 DEF OpenShard, WriteShard, jobVars
  <2>2. Mine(i)' = Mine(i)
    BY <2>1 DEF Mine
  <2>3. \A s \in Steps, k \in Ranks :
          shard'[s][<<Roles[i], k>>] = shard[s][<<Roles[i], k>>] \/ (i = role /\ s = g)
    BY <1>1, <1>3, <1>10 DEF OpenShard, WriteShard, TypeOK
  <2>4. i = role => g \in Mine(i)
    BY <2>1 DEF Mine
  <2>5. OnDisk(Roles[i])' \ Mine(i)' \subseteq OnDisk(Roles[i]) \ Mine(i)
    BY <2>2, <2>3, <2>4 DEF OnDisk
  <2> QED
    BY <1>1, <2>1, <2>5, RetainedStays DEF Retained
<1>11. CASE Crash
  <2>1. /\ crashes' = crashes + 1 /\ shard' = shard /\ pc' = "start"
        /\ saved'[Roles[i]] = <<>>
    BY <1>3, <1>11 DEF Crash, diskVars
  <2>2. OnDisk(Roles[i])' = OnDisk(Roles[i]) /\ Mine(i)' = {}
    BY <2>1 DEF OnDisk, Mine, Elements
  <2>3. OnDisk(Roles[i])' \ Mine(i)' = OnDisk(Roles[i])
    BY <2>2
  <2>4. Cardinality(OnDisk(Roles[i])) <= AtOnce * (crashes + 1)
    BY <1>1, RetainedTotal, RetainedConstants
  <2>5. AtOnce' = AtOnce
    BY DEF AtOnce
  <2>6. Cardinality(OnDisk(Roles[i])' \ Mine(i)') <= AtOnce * crashes'
    BY <2>1, <2>3, <2>4
  <2> QED
    BY <1>2, <2>1, <2>5, <2>6 DEF Retained
<1>12. CASE UNCHANGED vars
  <2>1. UNCHANGED <<shard, pc, g, role, saved, crashes>>
    BY <1>12 DEF vars, diskVars, jobVars
  <2>2. OnDisk(Roles[i])' = OnDisk(Roles[i])
    BY <2>1 DEF OnDisk
  <2> QED
    BY <1>4, <2>1, <2>2
<1> QED
  BY <1>6, <1>7, <1>8, <1>9, <1>10, <1>11, <1>12 DEF Next, JobNext, Save

(* The folders of a role on disk are never more than the retention allows, *)
(* for each life of the job.                                               *)
THEOREM RetentionHolds == Spec => []RetentionBounded
<1>1. Init => DiskInv /\ RetentionInv
  BY DiskInit, RetentionInit
<1>2. DiskInv /\ RetentionInv /\ [Next]_vars => (DiskInv /\ RetentionInv)'
  <2> SUFFICES ASSUME DiskInv, RetentionInv, [Next]_vars PROVE DiskInv' /\ RetentionInv'
    OBVIOUS
  <2>1. DiskInv'
    BY TypeStep, PhaseStep, WeightsStep, TrackedStep, SaveStep, SavedStepInv DEF DiskInv
  <2> QED
    BY <2>1, RetentionStep
<1>3. DiskInv /\ RetentionInv => RetentionBounded
  <2> SUFFICES ASSUME DiskInv, RetentionInv, MaxToKeep > 0, NEW r \in RoleSet
               PROVE  Cardinality(OnDisk(r)) <= AtOnce * (crashes + 1)
    BY DEF RetentionBounded, OnDisk
  <2>1. PICK i \in DOMAIN Roles : r = Roles[i]
    BY Constants
  <2>2. TypeOK /\ Retained(i)
    BY DEF DiskInv, RetentionInv, Retained
  <2> QED
    BY <2>1, <2>2, RetainedTotal, RetainedConstants
<1> QED
  BY <1>1, <1>2, <1>3, PTL DEF Spec
=============================================================================
