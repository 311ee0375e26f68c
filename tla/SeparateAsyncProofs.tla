------------------------ MODULE SeparateAsyncProofs ------------------------
(***************************************************************************)
(* Theorems about the load balancer, for any sequence of calls, and about  *)
(* the separate asynchronous trainer that uses it.                         *)
(***************************************************************************)
EXTENDS SeparateAsync, FiniteSetTheorems, TLAPS

(* What the counting argument needs of the types.                          *)
CountTypes ==
  /\ pool \subseteq Servers
  /\ inflight \in [Servers -> Nat]
  /\ held \in [Requests -> Servers \cup {NoServer}]

PermanentInPool == Servers \ Elastic \subseteq pool

OutIsZero == \A s \in Servers : s \notin pool => inflight[s] = 0

CountInv ==
  CountTypes /\ OutIsZero /\ NeverOvercounts /\ PermanentInPool /\ PermanentExact

-----------------------------------------------------------------------------
(* A request that acquires a server is one more holder of it and of no     *)
(* other.                                                                  *)
LEMMA HoldersAfterAcquire ==
  ASSUME CountTypes, NEW r \in Requests, NEW s \in Servers,
         held[r] = NoServer, held' = [held EXCEPT ![r] = s]
  PROVE  /\ Cardinality(Holders(s)') = Cardinality(Holders(s)) + 1
         /\ \A t \in Servers : t # s => Holders(t)' = Holders(t)
         /\ \A t \in Servers : Cardinality(Holders(t)) \in Nat
<1>1. IsFiniteSet(Requests) /\ NoServer \notin Servers
  BY BalancerAssumption
<1>2. \A t \in Servers : IsFiniteSet(Holders(t)) /\ Cardinality(Holders(t)) \in Nat
  BY <1>1, FS_Subset, FS_CardinalityType DEF Holders
<1>3. Holders(s)' = Holders(s) \cup {r}
  BY DEF Holders, CountTypes
<1>4. r \notin Holders(s)
  BY <1>1 DEF Holders
<1>5. \A t \in Servers : t # s => Holders(t)' = Holders(t)
  BY <1>1 DEF Holders, CountTypes
<1> QED
  BY <1>2, <1>3, <1>4, <1>5, FS_AddElement

(* A request that releases its server is one holder less of it.            *)
LEMMA HoldersAfterRelease ==
  ASSUME CountTypes, NEW r \in Requests, NEW s \in Servers,
         held[r] = s, held' = [held EXCEPT ![r] = NoServer]
  PROVE  /\ Cardinality(Holders(s)) \in Nat \ {0}
         /\ Cardinality(Holders(s)') = Cardinality(Holders(s)) - 1
         /\ \A t \in Servers : t # s => Holders(t)' = Holders(t)
<1>1. IsFiniteSet(Requests) /\ NoServer \notin Servers
  BY BalancerAssumption
<1>2. IsFiniteSet(Holders(s)) /\ Cardinality(Holders(s)) \in Nat
  BY <1>1, FS_Subset, FS_CardinalityType DEF Holders
<1>3. r \in Holders(s)
  BY DEF Holders
<1>4. Holders(s)' = Holders(s) \ {r}
  BY <1>1 DEF Holders, CountTypes
<1>5. \A t \in Servers : t # s => Holders(t)' = Holders(t)
  BY <1>1 DEF Holders, CountTypes
<1>6. Cardinality(Holders(s) \ {r}) = Cardinality(Holders(s)) - 1
  BY <1>2, <1>3, FS_RemoveElement
<1>7. Cardinality(Holders(s)) # 0
  BY <1>2, <1>3, FS_EmptySet
<1> QED
  BY <1>2, <1>4, <1>5, <1>6, <1>7

-----------------------------------------------------------------------------
LEMMA CountInit == BalancerInit => CountInv
<1> SUFFICES ASSUME BalancerInit PROVE CountInv
  OBVIOUS
<1>1. IsFiniteSet(Requests) /\ NoServer \notin Servers
  BY BalancerAssumption
<1>2. \A s \in Servers : Holders(s) = {}
  BY <1>1 DEF BalancerInit, Holders
<1>3. \A s \in Servers : Cardinality(Holders(s)) = 0
  BY <1>2, FS_EmptySet
<1> QED
  BY <1>3 DEF BalancerInit, CountInv, CountTypes, NeverOvercounts, PermanentInPool, PermanentExact,
     OutIsZero

LEMMA CountAcquire ==
  ASSUME CountInv, NEW r \in Requests, NEW s \in Servers, Acquire(r, s)
  PROVE  CountInv'
<1>1. CountTypes'
  BY DEF CountInv, CountTypes, Acquire
<1>2. /\ Cardinality(Holders(s)') = Cardinality(Holders(s)) + 1
      /\ \A t \in Servers : t # s => Holders(t)' = Holders(t)
      /\ \A t \in Servers : Cardinality(Holders(t)) \in Nat
  BY HoldersAfterAcquire DEF CountInv, Acquire
<1>3. \A t \in Servers : inflight'[t] = IF t = s THEN inflight[t] + 1 ELSE inflight[t]
  BY DEF Acquire, CountInv, CountTypes
<1>4. NeverOvercounts'
  <2> SUFFICES ASSUME NEW t \in Servers PROVE inflight'[t] <= Cardinality(Holders(t)')
    BY DEF NeverOvercounts
  <2>1. inflight[t] \in Nat /\ inflight[t] <= Cardinality(Holders(t))
    BY DEF CountInv, CountTypes, NeverOvercounts
  <2> QED
    BY <1>2, <1>3, <2>1
<1>5. PermanentExact'
  <2> SUFFICES ASSUME NEW t \in Servers \ Elastic PROVE inflight'[t] = Cardinality(Holders(t)')
    BY DEF PermanentExact
  <2>1. inflight[t] = Cardinality(Holders(t))
    BY DEF CountInv, PermanentExact
  <2> QED
    BY <1>2, <1>3, <2>1
<1>6. PermanentInPool'
  BY DEF Acquire, CountInv, PermanentInPool
<1>7. s \in pool
  BY DEF Acquire, StickyHit, NewSelection, Candidates
<1>8. OutIsZero'
  BY <1>3, <1>7 DEF OutIsZero, CountInv, Acquire
<1> QED
  BY <1>1, <1>4, <1>5, <1>6, <1>8 DEF CountInv

LEMMA CountRelease ==
  ASSUME CountInv, NEW r \in Requests, Release(r)
  PROVE  CountInv'
<1>1. PICK s \in Servers : held[r] = s
  BY DEF CountInv, CountTypes, Release
<1>2. CountTypes'
  BY DEF CountInv, CountTypes, Release
<1>3. /\ Cardinality(Holders(s)) \in Nat \ {0}
      /\ Cardinality(Holders(s)') = Cardinality(Holders(s)) - 1
      /\ \A t \in Servers : t # s => Holders(t)' = Holders(t)
  BY <1>1, HoldersAfterRelease DEF CountInv, Release
<1>4. \A t \in Servers : inflight'[t] =
        IF t = s /\ s \in pool /\ inflight[s] > 0 THEN inflight[t] - 1 ELSE inflight[t]
  BY <1>1 DEF Release, CountInv, CountTypes
<1>5. \A t \in Servers : inflight[t] \in Nat
  BY DEF CountInv, CountTypes
<1>6. s \notin pool => inflight[s] = 0
  BY DEF CountInv, OutIsZero
<1>7. NeverOvercounts'
  <2> SUFFICES ASSUME NEW t \in Servers PROVE inflight'[t] <= Cardinality(Holders(t)')
    BY DEF NeverOvercounts
  <2>1. inflight[t] <= Cardinality(Holders(t))
    BY DEF CountInv, NeverOvercounts
  <2> QED
    BY <1>3, <1>4, <1>5, <1>6, <2>1
<1>8. PermanentExact'
  <2> SUFFICES ASSUME NEW t \in Servers \ Elastic PROVE inflight'[t] = Cardinality(Holders(t)')
    BY DEF PermanentExact
  <2>1. inflight[t] = Cardinality(Holders(t)) /\ t \in pool
    BY DEF CountInv, PermanentExact, PermanentInPool
  <2> QED
    BY <1>3, <1>4, <1>5, <2>1
<1>9. PermanentInPool' /\ OutIsZero'
  BY <1>4 DEF Release, CountInv, PermanentInPool, OutIsZero
<1> QED
  BY <1>2, <1>7, <1>8, <1>9 DEF CountInv

LEMMA CountPoolChange ==
  ASSUME CountInv, NEW S \in SUBSET Elastic, AddServers(S) \/ RemoveServers(S)
  PROVE  CountInv'
<1>1. IsFiniteSet(Requests) /\ Elastic \subseteq Servers
  BY BalancerAssumption
<1>2. /\ held' = held
      /\ inflight' = [s \in Servers |-> IF s \in S THEN 0 ELSE inflight[s]]
      /\ pool' = pool \cup S \/ pool' = pool \ S
  BY DEF AddServers, RemoveServers
<1>3. CountTypes'
  BY <1>1, <1>2 DEF CountInv, CountTypes
<1>4. \A t \in Servers : Holders(t)' = Holders(t) /\ Cardinality(Holders(t)) \in Nat
  BY <1>1, <1>2, FS_Subset, FS_CardinalityType DEF Holders
<1>5. \A t \in Servers : inflight'[t] = 0 \/ inflight'[t] = inflight[t]
  BY <1>2
<1>6. NeverOvercounts'
  BY <1>4, <1>5 DEF NeverOvercounts, CountInv
<1>7. PermanentExact'
  BY <1>1, <1>2, <1>4 DEF PermanentExact, CountInv
<1>8. PermanentInPool' /\ OutIsZero'
  BY <1>1, <1>2 DEF PermanentInPool, OutIsZero, CountInv
<1> QED
  BY <1>3, <1>6, <1>7, <1>8 DEF CountInv

LEMMA CountStep == CountInv /\ [BalancerNext]_balancerVars => CountInv'
<1> SUFFICES ASSUME CountInv, [BalancerNext]_balancerVars PROVE CountInv'
  OBVIOUS
<1>1. CASE \E r \in Requests, s \in Servers : Acquire(r, s)
  BY <1>1, CountAcquire
<1>2. CASE \E r \in Requests : Release(r)
  BY <1>2, CountRelease
<1>3. CASE \E S \in SUBSET (Elastic \ pool) : S # {} /\ AddServers(S)
  BY <1>3, CountPoolChange
<1>4. CASE \E S \in SUBSET (Elastic \cap pool) : S # {} /\ RemoveServers(S)
  BY <1>4, CountPoolChange
<1>5. CASE UNCHANGED balancerVars
  BY <1>5 DEF balancerVars, CountInv, CountTypes, OutIsZero, NeverOvercounts,
     PermanentInPool, PermanentExact, Holders
<1> QED
  BY <1>1, <1>2, <1>3, <1>4, <1>5 DEF BalancerNext

(* For any interleaving of acquires, releases, additions and removals the  *)
(* balancer never counts a request that is gone.                           *)
THEOREM BalancerNeverOvercounts == BalancerSpec => []NeverOvercounts
<1>1. CountInv => NeverOvercounts
  BY DEF CountInv
<1> QED
  BY <1>1, CountInit, CountStep, PTL DEF BalancerSpec

(* The count of a server that is never removed is the number of its        *)
(* requests.                                                               *)
THEOREM BalancerPermanentExact == BalancerSpec => []PermanentExact
<1>1. CountInv => PermanentExact
  BY DEF CountInv
<1> QED
  BY <1>1, CountInit, CountStep, PTL DEF BalancerSpec
-----------------------------------------------------------------------------
(* The separate asynchronous trainer: what its position says about the     *)
(* pool and the engines.                                                   *)
EngineTypes ==
  /\ CountTypes
  /\ call \in [Requests -> CallStates]
  /\ awake \in [Servers -> BOOLEAN]
  /\ paused \in [Servers -> BOOLEAN]
  /\ version \in [Servers -> Nat]
  /\ pc \in TrainerStates
  /\ step \in Nat

HybridIn  == Hybrid \subseteq pool
HybridOut == Hybrid \cap pool = {}

CallKnowsServer ==
  \A r \in Requests : call[r] \in {"acquired", "engine"} => held[r] \in Servers

PoolPhase ==
  /\ pc \in {"warmup", "remove", "validate"} => HybridIn
  /\ pc \in {"abort", "sleep", "train", "pause", "update", "resume", "reload",
             "wake", "readd"} => HybridOut

HybridPhase ==
  \A s \in Hybrid :
    /\ pc \in {"warmup", "remove", "abort", "readd", "validate"} => awake[s] /\ ~paused[s]
    /\ pc \in {"sleep", "wake"} => awake[s] /\ paused[s]
    /\ pc \in {"train", "pause", "update", "resume", "reload"} => ~awake[s] /\ paused[s]
    /\ pc \in {"add", "sample", "end"} =>
         \/ HybridIn /\ awake[s] /\ ~paused[s]
         \/ HybridOut /\ ~awake[s] /\ paused[s]
    /\ pc \in {"wake", "readd", "validate"} => version[s] = step

StandalonePhase ==
  \A s \in Standalone :
    /\ awake[s]
    /\ paused[s] <=> pc \in {"update", "resume"}
    /\ pc \in {"resume", "reload", "wake", "readd", "validate"} => version[s] = step

RunsUnpaused == \A r \in Requests : call[r] = "engine" => ~paused[held[r]]

EngineInv ==
  /\ EngineTypes
  /\ CallKnowsServer
  /\ PoolPhase
  /\ HybridPhase
  /\ StandalonePhase
  /\ RunsUnpaused

LEMMA EngineInit == Init => EngineInv
<1> SUFFICES ASSUME Init PROVE EngineInv
  OBVIOUS
<1>1. Elastic \subseteq Servers /\ Hybrid = Elastic
  BY BalancerAssumption DEF Hybrid
<1>2. EngineTypes
  BY DEF Init, BalancerInit, EngineTypes, CountTypes, CallStates, TrainerStates
<1>3. CallKnowsServer /\ RunsUnpaused
  BY DEF Init, CallKnowsServer, RunsUnpaused
<1>4. PoolPhase /\ HybridPhase /\ StandalonePhase
  BY <1>1 DEF Init, BalancerInit, PoolPhase, HybridPhase, StandalonePhase, HybridIn, Standalone
<1> QED
  BY <1>2, <1>3, <1>4 DEF EngineInv

(* Clients move their own call and the balancer, not the engines.          *)
LEMMA EngineClient ==
  ASSUME EngineInv, NEW r \in Requests, ClientNext(r)
  PROVE  EngineInv'
<1> USE DEF EngineInv
<1>1. /\ UNCHANGED <<engineVars, trainerVars>>
      /\ pool' = pool
  BY DEF ClientNext, ClientAcquire, Acquire, Arrive, TurnEnd, ClientRelease, Release, balancerVars
<1>2. PoolPhase' /\ HybridPhase' /\ StandalonePhase'
  BY <1>1 DEF PoolPhase, HybridPhase, StandalonePhase, HybridIn, HybridOut,
     engineVars, trainerVars
<1>3. CASE \E s \in Servers : ClientAcquire(r, s)
  <2> PICK s \in Servers : ClientAcquire(r, s)
    BY <1>3
  <2>1. EngineTypes'
    BY <1>1 DEF ClientAcquire, Acquire, EngineTypes, CountTypes, CallStates, engineVars, trainerVars
  <2>2. CallKnowsServer' /\ RunsUnpaused'
    BY <1>1 DEF ClientAcquire, Acquire, EngineTypes, CountTypes, CallKnowsServer, RunsUnpaused,
       engineVars
  <2> QED
    BY <1>2, <2>1, <2>2
<1>4. CASE Arrive(r) \/ TurnEnd(r)
  <2>1. EngineTypes'
    BY <1>1, <1>4 DEF Arrive, TurnEnd, EngineTypes, CountTypes, CallStates, engineVars,
       trainerVars, balancerVars
  <2>2. CallKnowsServer' /\ RunsUnpaused'
    BY <1>1, <1>4 DEF Arrive, TurnEnd, EngineTypes, CallKnowsServer, RunsUnpaused,
       engineVars, balancerVars
  <2> QED
    BY <1>2, <2>1, <2>2
<1>5. CASE ClientRelease(r)
  <2>1. EngineTypes'
    BY <1>1, <1>5 DEF ClientRelease, Release, EngineTypes, CountTypes, CallStates, engineVars,
       trainerVars
  <2>2. CallKnowsServer' /\ RunsUnpaused'
    BY <1>1, <1>5 DEF ClientRelease, Release, EngineTypes, CountTypes, CallKnowsServer,
       RunsUnpaused, engineVars
  <2> QED
    BY <1>2, <2>1, <2>2
<1> QED
  BY <1>3, <1>4, <1>5 DEF ClientNext

(* Submitting and sampling touch calls that hold no server.                *)
LEMMA EngineSubmit ==
  ASSUME EngineInv, WarmUp \/ AddBatch \/ Sample \/ Train
  PROVE  EngineInv'
<1> USE DEF EngineInv
<1>1. UNCHANGED <<engineVars, balancerVars, step>>
  BY DEF WarmUp, AddBatch, Sample, Train, Goto
<1>2. /\ pc' \in TrainerStates
      /\ call' \in [Requests -> CallStates]
      /\ \A r \in Requests : call'[r] \in {"acquired", "engine"} => call'[r] = call[r]
  BY DEF WarmUp, AddBatch, Sample, Train, Goto, Submit, EngineTypes, TrainerStates, CallStates,
     clientVars
<1>3. EngineTypes' /\ CallKnowsServer' /\ RunsUnpaused'
  BY <1>1, <1>2 DEF EngineTypes, CountTypes, CallKnowsServer, RunsUnpaused, engineVars, balancerVars
<1>4. PoolPhase' /\ HybridPhase' /\ StandalonePhase'
  BY <1>1 DEF WarmUp, AddBatch, Sample, Train, Goto, PoolPhase, HybridPhase, StandalonePhase,
     HybridIn, HybridOut, engineVars, balancerVars
<1> QED
  BY <1>3, <1>4

LEMMA EngineSwitch ==
  ASSUME EngineInv, SwitchToTrainer
  PROVE  EngineInv'
<1> USE DEF EngineInv, Goto
<1>1. Elastic \subseteq Servers /\ Hybrid = Elastic /\ Standalone = Servers \ Elastic
  BY BalancerAssumption DEF Hybrid, Standalone
<1>2. CASE RemoveHybrid
  <2>1. EngineTypes' /\ CallKnowsServer' /\ RunsUnpaused'
    BY <1>1, <1>2 DEF RemoveHybrid, RemoveServers, EngineTypes, CountTypes, CallKnowsServer,
       RunsUnpaused, clientVars, engineVars, TrainerStates
  <2>2. PoolPhase' /\ HybridPhase' /\ StandalonePhase'
    BY <1>1, <1>2 DEF RemoveHybrid, RemoveServers, PoolPhase, HybridPhase, StandalonePhase,
       HybridIn, HybridOut, engineVars
  <2> QED
    BY <2>1, <2>2
<1>3. CASE AbortHybrid
  <2>1. EngineTypes' /\ CallKnowsServer' /\ RunsUnpaused'
    BY <1>1, <1>3 DEF AbortHybrid, AbortOn, EngineTypes, CountTypes, CallKnowsServer,
       RunsUnpaused, CallStates, balancerVars, TrainerStates
  <2>2. PoolPhase' /\ HybridPhase' /\ StandalonePhase'
    BY <1>1, <1>3 DEF AbortHybrid, AbortOn, EngineTypes, PoolPhase, HybridPhase, StandalonePhase,
       HybridIn, HybridOut, balancerVars
  <2> QED
    BY <2>1, <2>2
<1>4. CASE SleepHybrid
  <2>1. EngineTypes' /\ CallKnowsServer' /\ RunsUnpaused'
    BY <1>1, <1>4 DEF SleepHybrid, EngineTypes, CountTypes, CallKnowsServer,
       RunsUnpaused, balancerVars, clientVars, TrainerStates
  <2>2. PoolPhase' /\ HybridPhase' /\ StandalonePhase'
    BY <1>1, <1>4 DEF SleepHybrid, EngineTypes, PoolPhase, HybridPhase, StandalonePhase,
       HybridIn, HybridOut, balancerVars
  <2> QED
    BY <2>1, <2>2
<1> QED
  BY <1>2, <1>3, <1>4 DEF SwitchToTrainer

LEMMA EngineUpdate ==
  ASSUME EngineInv, WeightUpdate
  PROVE  EngineInv'
<1> USE DEF EngineInv
<1>1. Elastic \subseteq Servers /\ Hybrid = Elastic /\ Standalone = Servers \ Elastic
  BY BalancerAssumption DEF Hybrid, Standalone
<1>2. CASE PauseStandalone
  <2>1. EngineTypes' /\ CallKnowsServer' /\ RunsUnpaused'
    BY <1>1, <1>2 DEF PauseStandalone, AbortOn, EngineTypes, CountTypes, CallKnowsServer,
       RunsUnpaused, CallStates, balancerVars, TrainerStates, Goto
  <2>2. PoolPhase' /\ HybridPhase' /\ StandalonePhase'
    BY <1>1, <1>2 DEF PauseStandalone, AbortOn, EngineTypes, PoolPhase, HybridPhase,
       StandalonePhase, HybridIn, HybridOut, balancerVars, Goto
  <2> QED
    BY <2>1, <2>2
<1>3. CASE UpdateStandalone
  <2>1. EngineTypes' /\ CallKnowsServer' /\ RunsUnpaused'
    BY <1>1, <1>3 DEF UpdateStandalone, EngineTypes, CountTypes, CallKnowsServer,
       RunsUnpaused, balancerVars, clientVars, TrainerStates, Goto
  <2>2. PoolPhase' /\ HybridPhase' /\ StandalonePhase'
    BY <1>1, <1>3 DEF UpdateStandalone, EngineTypes, PoolPhase, HybridPhase,
       StandalonePhase, HybridIn, HybridOut, balancerVars, Goto
  <2> QED
    BY <2>1, <2>2
<1>4. CASE ResumeStandalone
  <2>1. pc' \in {"reload", "end", "add"} /\ step' \in Nat /\ pc = "resume"
    BY <1>4 DEF ResumeStandalone, NextStep, Goto, EngineTypes
  <2>2. pc' = "reload" => step' = step
    BY <1>4 DEF ResumeStandalone, NextStep, Goto
  <2>3. EngineTypes' /\ CallKnowsServer' /\ RunsUnpaused'
    BY <1>1, <1>4, <2>1 DEF ResumeStandalone, EngineTypes, CountTypes, CallKnowsServer,
       RunsUnpaused, balancerVars, clientVars, TrainerStates
  <2>4. PoolPhase' /\ HybridPhase' /\ StandalonePhase'
    BY <1>1, <1>4, <2>1, <2>2 DEF ResumeStandalone, EngineTypes, PoolPhase, HybridPhase,
       StandalonePhase, HybridIn, HybridOut, balancerVars
  <2> QED
    BY <2>3, <2>4
<1> QED
  BY <1>2, <1>3, <1>4 DEF WeightUpdate

LEMMA EngineValidation ==
  ASSUME EngineInv, Validation
  PROVE  EngineInv'
<1> USE DEF EngineInv
<1>1. Elastic \subseteq Servers /\ Hybrid = Elastic /\ Standalone = Servers \ Elastic
  BY BalancerAssumption DEF Hybrid, Standalone
<1>2. CASE ReloadHybrid
  <2>1. EngineTypes' /\ CallKnowsServer' /\ RunsUnpaused'
    BY <1>1, <1>2 DEF ReloadHybrid, EngineTypes, CountTypes, CallKnowsServer,
       RunsUnpaused, balancerVars, clientVars, TrainerStates, Goto
  <2>2. PoolPhase' /\ HybridPhase' /\ StandalonePhase'
    BY <1>1, <1>2 DEF ReloadHybrid, EngineTypes, PoolPhase, HybridPhase,
       StandalonePhase, HybridIn, HybridOut, balancerVars, Goto
  <2> QED
    BY <2>1, <2>2
<1>3. CASE ResumeHybrid
  <2>1. EngineTypes' /\ CallKnowsServer' /\ RunsUnpaused'
    BY <1>1, <1>3 DEF ResumeHybrid, EngineTypes, CountTypes, CallKnowsServer,
       RunsUnpaused, balancerVars, clientVars, TrainerStates, Goto
  <2>2. PoolPhase' /\ HybridPhase' /\ StandalonePhase'
    BY <1>1, <1>3 DEF ResumeHybrid, EngineTypes, PoolPhase, HybridPhase,
       StandalonePhase, HybridIn, HybridOut, balancerVars, Goto
  <2> QED
    BY <2>1, <2>2
<1>4. CASE AddHybrid
  <2>1. EngineTypes' /\ CallKnowsServer' /\ RunsUnpaused'
    BY <1>1, <1>4 DEF AddHybrid, AddServers, Submit, EngineTypes, CountTypes, CallKnowsServer,
       RunsUnpaused, engineVars, CallStates, TrainerStates, Goto
  <2>2. PoolPhase' /\ HybridPhase' /\ StandalonePhase'
    BY <1>1, <1>4 DEF AddHybrid, AddServers, PoolPhase, HybridPhase,
       StandalonePhase, HybridIn, HybridOut, engineVars, Goto
  <2> QED
    BY <2>1, <2>2
<1>5. CASE ValidateEnd
  <2>1. pc' \in {"end", "add"} /\ step' \in Nat /\ pc = "validate"
    BY <1>5 DEF ValidateEnd, NextStep, EngineTypes
  <2>2. EngineTypes' /\ CallKnowsServer' /\ RunsUnpaused'
    BY <1>1, <1>5, <2>1 DEF ValidateEnd, EngineTypes, CountTypes, CallKnowsServer,
       RunsUnpaused, engineVars, balancerVars, CallStates, TrainerStates
  <2>3. PoolPhase' /\ HybridPhase' /\ StandalonePhase'
    BY <1>1, <1>5, <2>1 DEF ValidateEnd, PoolPhase, HybridPhase,
       StandalonePhase, HybridIn, HybridOut, engineVars, balancerVars
  <2> QED
    BY <2>2, <2>3
<1> QED
  BY <1>2, <1>3, <1>4, <1>5 DEF Validation

LEMMA EngineStep == EngineInv /\ [Next]_vars => EngineInv'
<1> SUFFICES ASSUME EngineInv, [Next]_vars PROVE EngineInv'
  OBVIOUS
<1>1. CASE UNCHANGED vars
  BY <1>1 DEF vars, balancerVars, clientVars, engineVars, trainerVars, EngineInv, EngineTypes,
     CountTypes, CallKnowsServer, PoolPhase, HybridPhase, StandalonePhase, RunsUnpaused,
     HybridIn, HybridOut
<1>2. CASE TrainerNext
  BY <1>2, EngineSubmit, EngineSwitch, EngineUpdate, EngineValidation DEF TrainerNext
<1>3. CASE \E r \in Requests : ClientNext(r)
  BY <1>3, EngineClient
<1> QED
  BY <1>1, <1>2, <1>3 DEF Next

LEMMA EngineAlways == Spec => []EngineInv
BY EngineInit, EngineStep, PTL DEF Spec

(* No request runs on a server whose memory the trainer has taken.         *)
THEOREM SeparateAsleepIdle == Spec => []AsleepIdle
<1>1. EngineInv => AsleepIdle
  <2> SUFFICES ASSUME EngineInv, NEW r \in Requests, call[r] = "engine" PROVE awake[held[r]]
    BY DEF AsleepIdle
  <2>1. held[r] \in Servers /\ ~paused[held[r]]
    BY DEF EngineInv, CallKnowsServer, RunsUnpaused
  <2>2. \A s \in Servers : ~paused[s] => awake[s]
    BY DEF EngineInv, EngineTypes, HybridPhase, StandalonePhase, Hybrid, Standalone, TrainerStates
  <2> QED
    BY <2>1, <2>2
<1> QED
  BY <1>1, EngineAlways, PTL

(* Validation runs on the weights of the step, on every server of the pool.*)
THEOREM SeparateValidatesCurrent == Spec => []ValidatesCurrentWeights
<1>1. EngineInv => ValidatesCurrentWeights
  BY DEF EngineInv, EngineTypes, CountTypes, ValidatesCurrentWeights, HybridPhase,
     StandalonePhase, Hybrid, Standalone
<1> QED
  BY <1>1, EngineAlways, PTL

(* No turn has tokens of two weight versions.                              *)
THEOREM SeparateTurnsWhole == Spec => NoTurnSpansUpdate
<1> DEFINE Step == \A s \in Servers :
              version'[s] # version[s] => \A r \in Requests : held[r] = s => call[r] # "engine"
<1>1. EngineInv /\ [Next]_vars => [Step]_vars
  <2> SUFFICES ASSUME EngineInv, Next, NEW s \in Servers, version'[s] # version[s],
                      NEW r \in Requests, held[r] = s
               PROVE  call[r] # "engine"
    BY DEF vars
  <2>1. version' # version
    OBVIOUS
  <2>2. UpdateStandalone \/ ReloadHybrid
    BY <2>1 DEF Next, TrainerNext, ClientNext, ClientAcquire, Arrive, TurnEnd, ClientRelease,
       WarmUp, AddBatch, Sample, Train, SwitchToTrainer, RemoveHybrid, AbortHybrid, SleepHybrid,
       WeightUpdate, PauseStandalone, ResumeStandalone, Validation, ResumeHybrid, AddHybrid,
       ValidateEnd, engineVars
  <2>3. paused[s]
    <3>1. CASE UpdateStandalone
      BY <3>1 DEF UpdateStandalone, EngineInv, EngineTypes, StandalonePhase
    <3>2. CASE ReloadHybrid
      BY <3>2 DEF ReloadHybrid, EngineInv, EngineTypes, HybridPhase
    <3> QED
      BY <2>2, <3>1, <3>2
  <2> QED
    BY <2>3 DEF EngineInv, RunsUnpaused
<1>2. Spec => [][Step]_vars
  BY <1>1, EngineAlways, PTL DEF Spec
<1> QED
  BY <1>2 DEF NoTurnSpansUpdate
-----------------------------------------------------------------------------
(* What the trainer and its clients do to the balancer is what its own     *)
(* specification allows: SeparateAsync implements LoadBalancer.            *)
THEOREM SeparateImplementsBalancer == Spec => ImplementsBalancer
<1>1. Init => BalancerInit
  BY DEF Init
<1>2. EngineInv /\ [Next]_vars => [BalancerNext]_balancerVars
  <2> SUFFICES ASSUME EngineInv, Next PROVE BalancerNext \/ UNCHANGED balancerVars
    BY DEF vars
  <2>1. Elastic \subseteq Servers /\ Hybrid = Elastic
    BY BalancerAssumption DEF Hybrid
  <2>2. CASE \E r \in Requests : ClientNext(r)
    BY <2>2 DEF ClientNext, ClientAcquire, Arrive, TurnEnd, ClientRelease, BalancerNext
  <2>3. CASE RemoveHybrid
    <3>1. RemoveServers(Hybrid) /\ Hybrid = Elastic \cap pool
      BY <2>1, <2>3 DEF RemoveHybrid, EngineInv, PoolPhase, HybridIn
    <3>2. CASE Hybrid # {}
      BY <3>1, <3>2 DEF BalancerNext
    <3>3. CASE Hybrid = {}
      BY <3>1, <3>3 DEF RemoveServers, balancerVars, EngineInv, EngineTypes, CountTypes
    <3> QED
      BY <3>2, <3>3
  <2>4. CASE AddHybrid
    <3>1. AddServers(Hybrid) /\ Hybrid = Elastic \ pool
      BY <2>1, <2>4 DEF AddHybrid, EngineInv, PoolPhase, HybridOut
    <3>2. CASE Hybrid # {}
      BY <3>1, <3>2 DEF BalancerNext
    <3>3. CASE Hybrid = {}
      BY <3>1, <3>3 DEF AddServers, balancerVars, EngineInv, EngineTypes, CountTypes
    <3> QED
      BY <3>2, <3>3
  <2>5. CASE TrainerNext /\ ~RemoveHybrid /\ ~AddHybrid
    BY <2>5 DEF TrainerNext, WarmUp, AddBatch, Sample, Train, SwitchToTrainer, AbortHybrid,
       SleepHybrid, WeightUpdate, PauseStandalone, UpdateStandalone, ResumeStandalone,
       Validation, ReloadHybrid, ResumeHybrid, ValidateEnd
  <2> QED
    BY <2>2, <2>3, <2>4, <2>5 DEF Next
<1> QED
  BY <1>1, <1>2, EngineAlways, PTL DEF Spec, ImplementsBalancer, BalancerSpec

(* Hence the balancer's counts are exact for the standalone servers and    *)
(* never too high for the hybrid ones, in every run of the trainer.        *)
THEOREM SeparateCounts == Spec => [](NeverOvercounts /\ PermanentExact)
BY SeparateImplementsBalancer, BalancerNeverOvercounts, BalancerPermanentExact, PTL
   DEF ImplementsBalancer
=============================================================================
