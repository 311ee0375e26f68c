------------------------- MODULE GroupScoringProofs -------------------------
(***************************************************************************)
(* Theorems about the scoring of a batch, for batches of every size, with  *)
(* any number of groups, of search calls a trajectory and of outputs a     *)
(* session.                                                                *)
(***************************************************************************)
EXTENDS GroupScoring, FiniteSetTheorems, SequenceTheorems, WellFoundedInduction, TLAPS

(* The batch while it is rolled out, scored and filtered.                  *)
TypeInv ==
  /\ cfg \in Batches
  /\ stage \in {"rollout", "scored", "filtered", "done"}
  /\ trajs \in Seq(Trajectory) /\ Len(trajs) <= Len(cfg.uid)
  /\ outputs \in Seq(Nat) /\ Len(outputs) = Len(trajs)
  /\ valid \subseteq Sessions /\ response_mask \subseteq Sessions

(* What each stage has computed from the trajectories.                     *)
StageInv ==
  /\ stage # "rollout" => Len(trajs) = Len(cfg.uid)
                          /\ score = [i \in Sessions |-> Score(trajs[i])]
  /\ stage \in {"rollout", "scored"} => response_mask = Sessions
  /\ stage = "filtered" => ~cfg.v1
  /\ stage = "filtered" \/ (stage = "done" /\ ~cfg.v1) =>
       valid = {i \in Sessions : ~ShouldMask(trajs[i])} /\ response_mask = valid
  /\ stage = "done" /\ ~cfg.v1 =>
       advantage = [i \in Sessions |->
         IF i \in response_mask THEN Normalized(score, cfg.uid, valid, i) ELSE 0]

ScoringInv == TypeInv /\ StageInv

LEMMA SessionsOfBatch ==
  ASSUME NEW b \in Batches
  PROVE  /\ b.v1 \in BOOLEAN /\ b.uid \in Seq(Nat) /\ b.inputs \subseteq Trajectory
         /\ b.outputs \subseteq Nat
         /\ Len(b.uid) \in Nat /\ DOMAIN b.uid = 1 .. Len(b.uid)
<1>1. /\ b.v1 \in BOOLEAN /\ b.uid \in Seq(Nat) /\ b.inputs \subseteq Trajectory
      /\ b.outputs \subseteq Nat
  BY ScoringAssumption
<1> QED
  BY <1>1, LenProperties

LEMMA ScoringInit == Init => ScoringInv
<1> SUFFICES ASSUME Init PROVE ScoringInv
  OBVIOUS
<1>1. Len(cfg.uid) \in Nat
  BY SessionsOfBatch DEF Init
<1>2. /\ trajs = <<>> /\ trajs \in Seq(Trajectory) /\ Len(trajs) = 0
      /\ outputs \in Seq(Nat) /\ Len(outputs) = 0
  BY EmptySeq DEF Init
<1>3. TypeInv
  BY <1>1, <1>2 DEF Init, TypeInv
<1>4. StageInv
  BY DEF Init, StageInv
<1> QED
  BY <1>3, <1>4 DEF ScoringInv

LEMMA ScoringStep == ScoringInv /\ [Next]_vars => ScoringInv'
<1> SUFFICES ASSUME ScoringInv, [Next]_vars PROVE ScoringInv'
  OBVIOUS
<1> USE DEF ScoringInv
<1>1. /\ Len(cfg.uid) \in Nat /\ cfg.inputs \subseteq Trajectory /\ cfg.outputs \subseteq Nat
      /\ cfg.v1 \in BOOLEAN
  BY SessionsOfBatch DEF TypeInv
<1>2. Len(trajs) \in Nat
  BY LenProperties DEF TypeInv
<1>3. CASE Rollout
  <2>1. PICK t \in cfg.inputs : trajs' = Append(trajs, t)
    BY <1>3 DEF Rollout
  <2>2. PICK n \in cfg.outputs : outputs' = Append(outputs, n)
    BY <1>3 DEF Rollout
  <2>3. trajs' \in Seq(Trajectory) /\ Len(trajs') = Len(trajs) + 1
    BY <1>1, <2>1, AppendProperties DEF TypeInv
  <2>4. outputs' \in Seq(Nat) /\ Len(outputs') = Len(outputs) + 1
    BY <1>1, <2>2, AppendProperties DEF TypeInv
  <2>5. TypeInv'
    BY <1>1, <1>2, <1>3, <2>3, <2>4 DEF Rollout, TypeInv, Sessions
  <2>6. StageInv'
    BY <1>3 DEF Rollout, StageInv, Sessions
  <2> QED
    BY <2>5, <2>6
<1>4. CASE Reward
  BY <1>4 DEF Reward, TypeInv, StageInv, Sessions
<1>5. CASE Sample
  BY <1>5 DEF Sample, TypeInv, StageInv, Sessions
<1>6. CASE SessionAdvantages
  BY <1>6 DEF SessionAdvantages, TypeInv, StageInv, Sessions
<1>7. CASE Filter
  <2>1. TypeInv'
    BY <1>7 DEF Filter, TypeInv, Sessions
  <2>2. StageInv'
    BY <1>7 DEF Filter, StageInv, Sessions
  <2> QED
    BY <2>1, <2>2
<1>8. CASE Advantage
  <2>1. TypeInv'
    BY <1>8 DEF Advantage, TypeInv, Sessions
  <2>2. StageInv'
    BY <1>8 DEF Advantage, StageInv, Sessions
  <2> QED
    BY <2>1, <2>2
<1>9. CASE UNCHANGED vars
  BY <1>9 DEF vars, TypeInv, StageInv, Sessions
<1> QED
  BY <1>3, <1>4, <1>5, <1>6, <1>7, <1>8, <1>9 DEF Next

(* Every score is of a finished rollout, and every later stage is computed *)
(* from the trajectories as they were scored.                              *)
THEOREM ScoringTypes == Spec => []ScoringInv
<1> QED
  BY ScoringInit, ScoringStep, PTL DEF Spec

-----------------------------------------------------------------------------
(* The reward.                                                             *)

(* Counting calls: none of a kind in the trajectory, none in its text.     *)
LEMMA CountZero ==
  ASSUME NEW s \in Seq(Outcomes), NEW os
  PROVE  /\ Number(s, os) \in Nat
         /\ Number(s, os) = 0 <=> \A i \in DOMAIN s : s[i] \notin os
<1> DEFINE In == {i \in DOMAIN s : s[i] \in os}
<1>1. DOMAIN s = 1 .. Len(s) /\ Len(s) \in Nat
  BY LenProperties
<1>2. IsFiniteSet(DOMAIN s)
  BY <1>1, FS_Interval
<1>3. IsFiniteSet(In) /\ Cardinality(In) \in Nat
  BY <1>2, FS_Subset, FS_CardinalityType
<1>4. Cardinality(In) = 0 <=> In = {}
  BY <1>3, FS_EmptySet
<1> QED
  BY <1>3, <1>4 DEF Number

LEMMA ShownIsPart ==
  ASSUME NEW t \in Trajectory, NEW os, Number(t.calls, os) = 0
  PROVE  Number(ShownCalls(t), os) = 0
<1>1. t.calls \in Seq(Outcomes)
  BY DEF Trajectory
<1>2. CASE t.shown \/ t.calls = <<>>
  BY <1>2 DEF ShownCalls
<1>3. CASE ~(t.shown \/ t.calls = <<>>)
  <2> DEFINE n == Len(t.calls)
  <2>1. n \in Nat /\ n > 0 /\ DOMAIN t.calls = 1 .. n
    BY <1>1, <1>3, LenProperties, EmptySeq
  <2>2. ShownCalls(t) = SubSeq(t.calls, 1, n - 1)
    BY <1>3 DEF ShownCalls
  <2>3. \A i \in 1 .. n : t.calls[i] \in Outcomes
    BY <1>1, <2>1, ElementOfSeq
  <2>4. /\ ShownCalls(t) \in Seq(Outcomes)
        /\ DOMAIN ShownCalls(t) = 1 .. (n - 1)
        /\ \A i \in 1 .. (n - 1) : ShownCalls(t)[i] = t.calls[i]
    BY <1>1, <2>1, <2>2, <2>3, SubSeqProperties
  <2>5. \A i \in 1 .. n : t.calls[i] \notin os
    BY <1>1, <2>1, CountZero
  <2>6. \A i \in DOMAIN ShownCalls(t) : ShownCalls(t)[i] \notin os
    BY <2>1, <2>4, <2>5
  <2> QED
    BY <2>4, <2>6, CountZero
<1> QED
  BY <1>2, <1>3

(* What the reward sees of the calls.                                      *)
LEMMA SeenOfCalls ==
  ASSUME NEW t \in Trajectory
  PROVE  /\ MetricsAvailable(t) <=> Number(t.calls, Counted) # 0
         /\ MetricsAvailable(t) =>
              (HasSuccessfulSearch(t) <=> Number(t.calls, Succeeded) # 0)
         /\ Number(t.calls, Succeeded) # 0 \/ Number(t.calls, Failed) # 0 => MetricsAvailable(t)
         /\ \A os : Number(t.calls, os) \in Nat
<1>1. t.calls \in Seq(Outcomes)
  BY DEF Trajectory
<1>2. \A os : Number(t.calls, os) \in Nat
  BY <1>1, CountZero
<1>3. Extra(t).called = Number(t.calls, Counted) /\ Extra(t).success = Number(t.calls, Succeeded)
  BY <1>2 DEF Extra, Accumulate, NoMetrics
<1>4. Number(t.calls, Counted) = 0 => Number(t.calls, Succeeded) = 0 /\ Number(t.calls, Failed) = 0
  BY <1>1, CountZero DEF Counted
<1>5. MetricsAvailable(t) <=> Number(t.calls, Counted) # 0
  BY <1>2, <1>3 DEF MetricsAvailable
<1>6. MetricsAvailable(t) => (HasSuccessfulSearch(t) <=> Number(t.calls, Succeeded) # 0)
  BY <1>2, <1>3 DEF HasSuccessfulSearch
<1> QED
  BY <1>2, <1>4, <1>5, <1>6

(* A trajectory without a search gets nothing for one.                     *)
LEMMA WithoutSearch ==
  ASSUME NEW t \in Trajectory, NoSearch(t)
  PROVE  ~HasSuccessfulSearch(t) /\ ~RetrievalOk(t)
<1>1. Number(t.calls, Counted) = 0 /\ ~t.written
  BY DEF NoSearch
<1>2. ~MetricsAvailable(t)
  BY <1>1, SeenOfCalls
<1>3. Number(ShownCalls(t), Counted) = 0
  BY <1>1, ShownIsPart
<1> QED
  BY <1>1, <1>2, <1>3 DEF HasSuccessfulSearch, RetrievalOk, HasBlocks

LEMMA ScoreOrder ==
  ASSUME NEW s \in Trajectory, NEW t \in Trajectory
  PROVE  /\ Correct(s) /\ ~Correct(t) => Score(s) > Score(t)
         /\ Alike(s, t) /\ Number(s.calls, Succeeded) > 0 /\ NoSearch(t) => Score(s) > Score(t)
         /\ Alike(s, t) /\ OnlyFailures(s) /\ ~s.evidence /\ NoSearch(t) => Score(s) = Score(t)
<1> USE DEF Clamp, When
<1>1. /\ Correct(s) => HasAnswer(s)
      /\ s.multi \in BOOLEAN /\ t.multi \in BOOLEAN
  BY DEF Correct, HasAnswer, Trajectory
<1>2. Correct(s) /\ ~Correct(t) => Score(s) > Score(t)
  <2> SUFFICES ASSUME Correct(s), ~Correct(t) PROVE Score(s) > Score(t)
    OBVIOUS
  <2>1. Score(s) >= 70
    BY <1>1 DEF Score
  <2>2. Score(t) <= 20
    BY DEF Score
  <2>3. Score(s) \in Int /\ Score(t) \in Int
    BY DEF Score
  <2> QED
    BY <2>1, <2>2, <2>3
<1>3. Alike(s, t) => (Correct(s) <=> Correct(t)) /\ (HasAnswer(s) <=> HasAnswer(t))
                     /\ s.multi = t.multi
  BY DEF Alike, Correct, HasAnswer
<1>4. ASSUME Alike(s, t), Number(s.calls, Succeeded) > 0, NoSearch(t)
      PROVE  Score(s) > Score(t)
  <2>1. ~HasSuccessfulSearch(t) /\ ~RetrievalOk(t)
    BY <1>4, WithoutSearch
  <2>2. HasSuccessfulSearch(s)
    BY <1>4, SeenOfCalls
  <2> QED
    BY <1>1, <1>3, <1>4, <2>1, <2>2 DEF Score
<1>5. ASSUME Alike(s, t), OnlyFailures(s), ~s.evidence, NoSearch(t)
      PROVE  Score(s) = Score(t)
  <2>1. ~HasSuccessfulSearch(t) /\ ~RetrievalOk(t)
    BY <1>5, WithoutSearch
  <2>2. ~HasSuccessfulSearch(s) /\ ~RetrievalOk(s)
    BY <1>5, SeenOfCalls DEF OnlyFailures, RetrievalOk
  <2> QED
    BY <1>1, <1>3, <1>5, <2>1, <2>2 DEF Score
<1> QED
  BY <1>2, <1>4, <1>5

(* The order the reward puts the trajectories of a batch in: a right       *)
(* answer before a wrong one, a search that found something before none,   *)
(* and a search that failed level with none.                               *)
THEOREM RewardOrders == Spec => []RewardOrder
<1>1. ScoringInv => RewardOrder
  <2> SUFFICES ASSUME ScoringInv, Scored PROVE RewardOrder
    BY DEF RewardOrder, CorrectDominates, SearchPays, FailedSearchNeverPays
  <2>1. /\ DOMAIN trajs = Sessions
        /\ \A i \in Sessions : trajs[i] \in Trajectory /\ score[i] = Score(trajs[i])
    BY SessionsOfBatch, LenProperties, ElementOfSeq
    DEF ScoringInv, TypeInv, StageInv, Scored, Sessions
  <2>2. CorrectDominates
    BY <2>1, ScoreOrder DEF CorrectDominates
  <2>3. SearchPays
    BY <2>1, ScoreOrder DEF SearchPays
  <2>4. FailedSearchNeverPays
    BY <2>1, ScoreOrder DEF FailedSearchNeverPays
  <2> QED
    BY <2>2, <2>3, <2>4 DEF RewardOrder
<1> QED
  BY <1>1, ScoringTypes, PTL

-----------------------------------------------------------------------------
(* The filter.                                                             *)

(* A masked trajectory trains nothing, and neither does a group that the   *)
(* filter would skip as a whole.                                           *)
THEOREM MaskedTrainsNothing == Spec => []MaskedHasNoGradient
<1>1. ScoringInv => MaskedHasNoGradient
  <2> SUFFICES ASSUME ScoringInv, LegacyDone, NEW i \in Sessions
               PROVE  LET group == GroupOf(cfg.uid, i)
                      IN /\ ShouldMask(trajs[i]) => advantage[i] = 0 /\ i \notin response_mask
                         /\ advantage[i] # 0 => i \in FilterGroup([j \in group |-> trajs[j]])
    BY Zenon DEF MaskedHasNoGradient
  <2> DEFINE group == GroupOf(cfg.uid, i)
             sound == group \cap valid
             ts == [j \in group |-> trajs[j]]
             left == {j \in DOMAIN ts : ~ShouldMask(ts[j])}
  <2>1. /\ response_mask = valid /\ valid = {j \in Sessions : ~ShouldMask(trajs[j])}
        /\ advantage[i] = IF i \in response_mask
                          THEN Normalized(score, cfg.uid, valid, i) ELSE 0
    BY DEF ScoringInv, StageInv, LegacyDone, Done
  <2>2. group \subseteq Sessions
    BY DEF GroupOf, Sessions
  <2>3. left = sound
    BY <2>1, <2>2
  <2>4. FilterGroup(ts) = IF Cardinality(left) < 2 THEN {} ELSE left
    BY DEF FilterGroup, MinValidTrajectories
  <2>5. Normalized(score, cfg.uid, valid, i)
          = IF Cardinality(sound) < 2 \/ i \notin sound THEN 0
            ELSE Cardinality(sound) * score[i] - Total(score, sound)
    BY DEF Normalized
  <2> HIDE DEF left, sound
  <2>6. ShouldMask(trajs[i]) => advantage[i] = 0 /\ i \notin response_mask
    BY <2>1
  <2>7. advantage[i] # 0 => i \in FilterGroup(ts)
    BY <2>1, <2>3, <2>4, <2>5, Zenon
  <2> QED
    BY <2>6, <2>7
<1> QED
  BY <1>1, ScoringTypes, PTL
-----------------------------------------------------------------------------
(* Sums over sets.  The fold of the library is a recursive function on the *)
(* subsets of its argument; its facts are derived here, by taking a least  *)
(* set (or number) for which they would fail.                              *)

Pick(s) == CHOOSE x \in s : TRUE

(* What the recursive function of the fold is to satisfy on a family of    *)
(* sets that has with each set those one member smaller.                   *)
SumsOn(f, D, g) == g = [s \in D |-> IF s = {} THEN 0 ELSE f[Pick(s)] + g[s \ {Pick(s)}]]

(* Every non-empty set of numbers has a least one.                         *)
LEMMA LeastNumber ==
  ASSUME NEW T \in SUBSET Nat, T # {}
  PROVE  \E x \in T : \A y \in T : x <= y
<1>1. PICK x \in T : \A y \in T : ~ (<<y, x>> \in OpToRel(<, Nat))
  BY WFMin, NatLessThanWellFounded, Zenon
<1>2. \A y \in T : y < x => <<y, x>> \in OpToRel(<, Nat)
  BY Zenon DEF OpToRel
<1>3. \A y \in T : ~(y < x)
  BY <1>1, <1>2, Zenon
<1> QED
  BY <1>3

(* Every non-empty family of subsets of a finite set has a least one.      *)
LEMMA LeastSet ==
  ASSUME NEW S, IsFiniteSet(S), NEW B \in SUBSET (SUBSET S), B # {}
  PROVE  \E T \in B : \A U \in B : U \subseteq T => U = T
<1>1. IsWellFoundedOn(StrictSubsetOrdering(S), SUBSET S)
  BY FS_StrictSubsetOrderingWellFounded, FS_FiniteSubsetsOfFinite
<1>2. PICK T \in B : \A U \in B : ~ (<<U, T>> \in StrictSubsetOrdering(S))
  BY <1>1, WFMin
<1>3. \A U \in B : U \subseteq T /\ U # T => <<U, T>> \in StrictSubsetOrdering(S)
  BY DEF StrictSubsetOrdering
<1>4. ASSUME NEW U \in B, U \subseteq T
      PROVE  U = T
  BY <1>2, <1>3, <1>4, Zenon
<1> QED
  BY <1>4

(* A set without one of its members.                                       *)
LEMMA Smaller ==
  ASSUME NEW S, IsFiniteSet(S), S # {}
  PROVE  /\ Pick(S) \in S
         /\ \A x \in S : /\ IsFiniteSet(S \ {x})
                         /\ Cardinality(S) \in Nat /\ Cardinality(S \ {x}) \in Nat
                         /\ Cardinality(S \ {x}) + 1 = Cardinality(S)
<1>1. Pick(S) \in S
  BY DEF Pick
<1>2. ASSUME NEW x \in S
      PROVE  /\ IsFiniteSet(S \ {x})
             /\ Cardinality(S) \in Nat /\ Cardinality(S \ {x}) \in Nat
             /\ Cardinality(S \ {x}) + 1 = Cardinality(S)
  <2>1. IsFiniteSet(S \ {x}) /\ Cardinality(S \ {x}) = Cardinality(S) - 1
    BY FS_RemoveElement
  <2> QED
    BY <2>1, FS_CardinalityType
<1> QED
  BY <1>1, <1>2

(* The recursion of the sum defines a function.                            *)
LEMMA SumsExist ==
  ASSUME NEW f, NEW S, IsFiniteSet(S)
  PROVE  \E g : SumsOn(f, SUBSET S, g)
<1> DEFINE Up(n) == {s \in SUBSET S : Cardinality(s) <= n}
           Good(n) == \E g : SumsOn(f, Up(n), g)
           Bad == {n \in Nat : ~Good(n)}
<1>1. \A s \in SUBSET S : IsFiniteSet(s) /\ Cardinality(s) \in Nat
  BY FS_Subset, FS_CardinalityType
<1>2. Good(0)
  <2> DEFINE g == [s \in Up(0) |-> 0]
  <2>1. \A s \in Up(0) : s = {}
    BY <1>1, FS_EmptySet
  <2>2. SumsOn(f, Up(0), g)
    BY <2>1 DEF SumsOn
  <2> QED
    BY <2>2
<1>3. ASSUME NEW n \in Nat, Good(n)
      PROVE  Good(n + 1)
  <2>1. PICK g : SumsOn(f, Up(n), g)
    BY <1>3
  <2> DEFINE h == [s \in Up(n + 1) |-> IF s = {} THEN 0 ELSE f[Pick(s)] + g[s \ {Pick(s)}]]
  <2>2. ASSUME NEW s \in Up(n + 1), s # {}
        PROVE  g[s \ {Pick(s)}] = h[s \ {Pick(s)}]
    <3> DEFINE r == s \ {Pick(s)}
    <3>1. r \in SUBSET S /\ Cardinality(r) \in Nat /\ Cardinality(r) + 1 = Cardinality(s)
      BY <1>1, <2>2, Smaller
    <3>2. r \in Up(n) /\ r \in Up(n + 1)
      BY <1>1, <3>1
    <3> HIDE DEF r
    <3>3. g[r] = IF r = {} THEN 0 ELSE f[Pick(r)] + g[r \ {Pick(r)}]
      BY <2>1, <3>2 DEF SumsOn
    <3>4. h[r] = IF r = {} THEN 0 ELSE f[Pick(r)] + g[r \ {Pick(r)}]
      BY <3>2
    <3>5. g[r] = h[r]
      BY <3>3, <3>4
    <3> QED
      BY <3>5 DEF r
  <2>3. SumsOn(f, Up(n + 1), h)
    <3> HIDE DEF Up
    <3>1. h = [s \in Up(n + 1) |-> IF s = {} THEN 0 ELSE f[Pick(s)] + h[s \ {Pick(s)}]]
      BY <2>2
    <3> QED
      BY <3>1 DEF SumsOn
  <2> QED
    BY <2>3
<1>4. Bad = {}
  <2> SUFFICES ASSUME Bad # {} PROVE FALSE
    OBVIOUS
  <2> HIDE DEF Good
  <2>1. PICK n \in Bad : \A m \in Bad : n <= m
    BY LeastNumber
  <2>2. n \in Nat /\ n # 0
    BY <1>2
  <2>3. n - 1 \in Nat /\ n - 1 \notin Bad
    BY <2>1, <2>2
  <2>4. Good(n - 1)
    BY <2>3
  <2>5. Good((n - 1) + 1)
    BY <1>3, <2>3, <2>4
  <2>6. (n - 1) + 1 = n
    BY <2>2
  <2> QED
    BY <2>5, <2>6
<1>5. Good(Cardinality(S))
  BY <1>1, <1>4
<1>6. Up(Cardinality(S)) = SUBSET S
  BY FS_Subset
<1> QED
  BY <1>5, <1>6, Zenon

LEMMA TotalOfSums ==
  ASSUME NEW f, NEW S, IsFiniteSet(S)
  PROVE  \E g : SumsOn(f, SUBSET S, g) /\ Total(f, S) = g[S]
<1> DEFINE c == CHOOSE g : SumsOn(f, SUBSET S, g)
<1>1. SumsOn(f, SUBSET S, c)
  BY SumsExist
<1>2. Total(f, S) = c[S]
  BY DEF Total, MapThenSumSet, MapThenFoldSet, SumsOn, Pick
<1> QED
  BY <1>1, <1>2

(* It is the same function on the subsets of a subset.                     *)
LEMMA SumsAgree ==
  ASSUME NEW f, NEW S, IsFiniteSet(S), NEW T \in SUBSET S,
         NEW g, SumsOn(f, SUBSET S, g), NEW h, SumsOn(f, SUBSET T, h)
  PROVE  h[T] = g[T]
<1> DEFINE B == {s \in SUBSET T : h[s] # g[s]}
<1>1. B = {}
  <2> SUFFICES ASSUME B # {} PROVE FALSE
    OBVIOUS
  <2>1. IsFiniteSet(T)
    BY FS_Subset
  <2>2. PICK s \in B : \A u \in B : u \subseteq s => u = s
    <3>1. B \in SUBSET (SUBSET T)
      OBVIOUS
    <3> HIDE DEF B
    <3> QED
      BY <2>1, <3>1, LeastSet
  <2> DEFINE r == s \ {Pick(s)}
  <2>3. /\ h[s] = IF s = {} THEN 0 ELSE f[Pick(s)] + h[r]
        /\ g[s] = IF s = {} THEN 0 ELSE f[Pick(s)] + g[r]
    BY DEF SumsOn
  <2>4. s # {} => Pick(s) \in s
    BY DEF Pick
  <2>5. s # {} => r \notin B
    BY <2>2, <2>4
  <2>6. s # {} => h[r] = g[r]
    BY <2>5
  <2> QED
    BY <2>3, <2>6, Zenon
<1> QED
  BY <1>1

(* The sum over a set: one member, and the sum over the others.            *)
LEMMA TotalRule ==
  ASSUME NEW f, NEW S, IsFiniteSet(S)
  PROVE  Total(f, S) = IF S = {} THEN 0 ELSE f[Pick(S)] + Total(f, S \ {Pick(S)})
<1>1. PICK g : SumsOn(f, SUBSET S, g) /\ Total(f, S) = g[S]
  BY TotalOfSums
<1> DEFINE R == S \ {Pick(S)}
<1>2. R \in SUBSET S /\ IsFiniteSet(R)
  BY FS_Subset
<1> HIDE DEF R
<1>3. PICK h : SumsOn(f, SUBSET R, h) /\ Total(f, R) = h[R]
  BY <1>2, TotalOfSums
<1>4. h[R] = g[R]
  BY <1>1, <1>2, <1>3, SumsAgree, Zenon
<1>5. g[S] = IF S = {} THEN 0 ELSE f[Pick(S)] + g[R]
  BY <1>1 DEF SumsOn, R
<1> QED
  BY <1>1, <1>3, <1>4, <1>5, Zenon DEF R

LEMMA TotalType ==
  ASSUME NEW f, NEW S, IsFiniteSet(S), \A x \in S : f[x] \in Int
  PROVE  Total(f, S) \in Int
<1> DEFINE B == {s \in SUBSET S : Total(f, s) \notin Int}
<1>1. B = {}
  <2> SUFFICES ASSUME B # {} PROVE FALSE
    OBVIOUS
  <2>1. PICK s \in B : \A u \in B : u \subseteq s => u = s
    <3>1. B \in SUBSET (SUBSET S)
      OBVIOUS
    <3> HIDE DEF B
    <3> QED
      BY <3>1, LeastSet
  <2> DEFINE r == s \ {Pick(s)}
  <2>2. IsFiniteSet(s)
    BY FS_Subset
  <2>3. Total(f, s) = IF s = {} THEN 0 ELSE f[Pick(s)] + Total(f, r)
    BY <2>2, TotalRule, Zenon
  <2>4. s # {} => Pick(s) \in s
    BY DEF Pick
  <2>5. s # {} => r \notin B
    BY <2>1, <2>4
  <2>6. s # {} => Total(f, r) \in Int /\ f[Pick(s)] \in Int
    BY <2>4, <2>5
  <2> HIDE DEF r
  <2>7. Total(f, s) \notin Int
    OBVIOUS
  <2> QED
    BY <2>3, <2>6, <2>7
<1> QED
  BY <1>1

(* Any member can be taken first.                                          *)
LEMMA TotalRemove ==
  ASSUME NEW f, NEW S, IsFiniteSet(S), \A x \in S : f[x] \in Int, NEW x \in S
  PROVE  Total(f, S) = f[x] + Total(f, S \ {x})
<1> DEFINE Holds(s) == \A y \in s : Total(f, s) = f[y] + Total(f, s \ {y})
           B == {s \in SUBSET S : ~Holds(s)}
<1>1. B = {}
  <2> SUFFICES ASSUME B # {} PROVE FALSE
    OBVIOUS
  <2> HIDE DEF Holds
  <2>1. PICK s \in B : \A u \in B : u \subseteq s => u = s
    <3>1. B \in SUBSET (SUBSET S)
      OBVIOUS
    <3> HIDE DEF B
    <3> QED
      BY <3>1, LeastSet
  <2>2. \A u \in SUBSET S : IsFiniteSet(u)
    BY FS_Subset
  <2>3. PICK y \in s : Total(f, s) # f[y] + Total(f, s \ {y})
    BY DEF Holds
  <2> DEFINE p == Pick(s)
             r == s \ {p}
             q == s \ {y}
             b == r \ {y}
  <2>4. p \in s
    BY <2>3 DEF Pick
  <2>5. Total(f, s) = f[p] + Total(f, r)
    BY <2>2, <2>3, TotalRule, Zenon
  <2>6. p # y
    BY <2>3, <2>5, Zenon
  <2>7. r \notin B /\ q \notin B
    BY <2>1, <2>3, <2>4
  <2>8. Holds(r) /\ Holds(q)
    BY <2>7
  <2>9. y \in r /\ p \in q /\ q \ {p} = b
    BY <2>3, <2>4, <2>6
  <2>10. Total(f, r) = f[y] + Total(f, b)
    BY <2>8, <2>9, Zenon DEF Holds
  <2>11. Total(f, q) = f[p] + Total(f, b)
    BY <2>8, <2>9, Zenon DEF Holds
  <2>12. f[p] \in Int /\ f[y] \in Int
    BY <2>3, <2>4
  <2>13. Total(f, b) \in Int
    <3>1. b \in SUBSET S
      OBVIOUS
    <3>2. \A z \in b : f[z] \in Int
      BY <3>1
    <3> QED
      BY <2>2, <3>1, <3>2, TotalType, Zenon
  <2> HIDE DEF p, r, q, b
  <2>14. Total(f, s) # f[y] + Total(f, q)
    BY <2>3 DEF q
  <2> QED
    BY <2>5, <2>10, <2>11, <2>12, <2>13, <2>14
<1>2. S \notin B
  BY <1>1
<1>3. Holds(S)
  BY <1>2
<1> QED
  BY <1>3, Zenon

(* A sum is over the members, whatever their names.                        *)
LEMMA TotalRename ==
  ASSUME NEW S, IsFiniteSet(S), NEW f, NEW g, NEW b,
         \A x, y \in S : b[x] = b[y] => x = y,
         \A x \in S : f[x] \in Int /\ g[b[x]] = f[x]
  PROVE  Total(f, S) = Total(g, {b[x] : x \in S})
<1> DEFINE Image(s) == {b[x] : x \in s}
           B == {s \in SUBSET S : Total(f, s) # Total(g, Image(s))}
<1>1. B = {}
  <2> SUFFICES ASSUME B # {} PROVE FALSE
    OBVIOUS
  <2>1. PICK s \in B : \A u \in B : u \subseteq s => u = s
    <3>1. B \in SUBSET (SUBSET S)
      OBVIOUS
    <3> HIDE DEF B
    <3> QED
      BY <3>1, LeastSet
  <2>2. IsFiniteSet(s)
    BY FS_Subset
  <2>3. IsFiniteSet(Image(s))
    <3> DEFINE h == [x \in s |-> b[x]]
    <3>1. h \in Surjection(s, Image(s))
      BY DEF Surjection
    <3> HIDE DEF h, Image
    <3> QED
      BY <2>2, <3>1, FS_Surjection
  <2>4. Total(f, s) # Total(g, Image(s))
    OBVIOUS
  <2>5. CASE s = {}
    <3>1. Image(s) = {}
      BY <2>5
    <3>2. Total(f, s) = 0
      BY <2>2, <2>5, TotalRule, Zenon
    <3>3. Total(g, Image(s)) = 0
      BY <2>3, <3>1, TotalRule, Zenon
    <3> QED
      BY <2>4, <3>2, <3>3, Zenon
  <2>6. CASE s # {}
    <3> DEFINE p == Pick(s)
               r == s \ {p}
    <3>1. p \in s
      BY <2>6 DEF Pick
    <3>2. r \notin B /\ r \in SUBSET S
      BY <2>1, <3>1
    <3>3. Total(f, r) = Total(g, Image(r))
      BY <3>2, Zenon
    <3>4. Total(f, s) = f[p] + Total(f, r)
      BY <2>2, <2>6, TotalRule, Zenon
    <3>5. Image(s) \ {b[p]} = Image(r)
      BY <3>1
    <3>6. b[p] \in Image(s)
      BY <3>1
    <3>7. \A z \in Image(s) : g[z] \in Int
      OBVIOUS
    <3>8. Total(g, Image(s)) = g[b[p]] + Total(g, Image(s) \ {b[p]})
      <4> HIDE DEF Image
      <4> DEFINE I == Image(s)
      <4>1. IsFiniteSet(I) /\ b[p] \in I /\ \A z \in I : g[z] \in Int
        BY <2>3, <3>6, <3>7
      <4> HIDE DEF I
      <4>2. Total(g, I) = g[b[p]] + Total(g, I \ {b[p]})
        BY <4>1, TotalRemove
      <4> QED
        BY <4>2, Zenon DEF I
    <3>9. g[b[p]] = f[p]
      BY <3>1
    <3> QED
      BY <2>4, <3>3, <3>4, <3>5, <3>8, <3>9, Zenon
  <2> QED
    BY <2>5, <2>6
<1>2. S \notin B
  BY <1>1
<1> QED
  BY <1>2
-----------------------------------------------------------------------------
(* The sessions of the V1 trainer.                                         *)

(* The sampled rows are outputs of the sessions, each at most once; when   *)
(* the advantages are computed they are all there.                         *)
RowsInv ==
  /\ stage = "rollout" => rows = <<>>
  /\ cfg.v1 =>
       /\ rows \in Seq([session : Sessions, index : Nat, trained : BOOLEAN])
       /\ Sampled \subseteq Keys
       /\ \A q, r \in DOMAIN rows :
            rows[q].session = rows[r].session /\ rows[q].index = rows[r].index => q = r
  /\ stage = "done" /\ cfg.v1 =>
       /\ Sampled = Keys
       /\ advantage = Broadcast(rows, score, cfg.uid)

LEMMA RowsInit == Init => RowsInv
<1> SUFFICES ASSUME Init PROVE RowsInv
  OBVIOUS
<1>1. /\ rows = <<>> /\ DOMAIN rows = {}
      /\ rows \in Seq([session : Sessions, index : Nat, trained : BOOLEAN])
  BY EmptySeq DEF Init
<1>2. stage = "rollout" /\ Sampled = {}
  BY <1>1 DEF Init, Sampled
<1> QED
  BY <1>1, <1>2 DEF RowsInv

LEMMA RowsStep == ScoringInv /\ RowsInv /\ [Next]_vars => RowsInv'
<1> SUFFICES ASSUME ScoringInv, RowsInv, [Next]_vars PROVE RowsInv'
  OBVIOUS
<1>1. ASSUME rows' = rows, outputs' = outputs, cfg' = cfg
      PROVE  Keys' = Keys /\ Sampled' = Sampled /\ Sessions' = Sessions
  BY <1>1 DEF Keys, Sampled, Sessions
<1>2. CASE Rollout
  <2>1. rows' = <<>> /\ DOMAIN rows' = {} /\ stage' = "rollout"
    BY <1>2, EmptySeq DEF Rollout, RowsInv
  <2>2. rows' \in Seq([session : Sessions', index : Nat, trained : BOOLEAN])
    BY <2>1, EmptySeq
  <2>3. Sampled' = {}
    BY <2>1 DEF Sampled
  <2> QED
    BY <2>1, <2>2, <2>3 DEF RowsInv
<1>3. CASE Reward
  BY <1>1, <1>3 DEF Reward, RowsInv
<1>4. CASE Sample
  <2> DEFINE Row == [session : Sessions, index : Nat, trained : BOOLEAN]
             n == Len(rows)
  <2>1. PICK k \in Keys \ Sampled, t \in BOOLEAN :
          rows' = Append(rows, [session |-> k[1], index |-> k[2], trained |-> t])
    BY <1>4 DEF Sample
  <2> DEFINE x == [session |-> k[1], index |-> k[2], trained |-> t]
  <2>2. /\ cfg' = cfg /\ outputs' = outputs /\ stage' = stage /\ stage = "scored" /\ cfg.v1
        /\ Keys' = Keys /\ Sessions' = Sessions
    BY <1>4 DEF Sample, Keys, Sessions
  <2>3. rows \in Seq(Row)
    BY <2>2 DEF RowsInv
  <2>4. PICK i \in Sessions : k \in {i} \X (0 .. outputs[i] - 1)
    BY <2>1 DEF Keys
  <2>5. k = <<k[1], k[2]>> /\ k[1] \in Sessions /\ k[2] \in Nat
    BY <2>4
  <2>6. x \in Row
    BY <2>5
  <2>7. /\ rows' \in Seq(Row) /\ n \in Nat /\ DOMAIN rows = 1 .. n
        /\ DOMAIN rows' = 1 .. (n + 1) /\ rows'[n + 1] = x
        /\ \A q \in 1 .. n : rows'[q] = rows[q]
    <3>1. n \in Nat /\ DOMAIN rows = 1 .. n
      BY <2>3, LenProperties
    <3>2. /\ rows' \in Seq(Row) /\ Len(rows') = n + 1
          /\ rows'[n + 1] = x
          /\ \A q \in 1 .. n : rows'[q] = rows[q]
      BY <2>1, <2>3, <2>6, AppendProperties
    <3>3. DOMAIN rows' = 1 .. (n + 1)
      BY <3>2, LenProperties
    <3> QED
      BY <3>1, <3>2, <3>3
  <2> HIDE DEF n
  <2>8. \A q \in DOMAIN rows' : q = n + 1 \/ q \in DOMAIN rows
    BY <2>7
  <2>9. Sampled' = Sampled \cup {k}
    <3>1. <<rows'[n + 1].session, rows'[n + 1].index>> = k
      BY <2>5, <2>7
    <3>2. \A q \in DOMAIN rows : rows'[q] = rows[q] /\ q \in DOMAIN rows'
      BY <2>7
    <3>3. n + 1 \in DOMAIN rows'
      BY <2>7
    <3> QED
      BY <2>8, <3>1, <3>2, <3>3 DEF Sampled
  <2>10. \A q \in DOMAIN rows : <<rows[q].session, rows[q].index>> # k
    BY <2>1 DEF Sampled
  <2>11. \A q \in DOMAIN rows :
           ~(rows[q].session = k[1] /\ rows[q].index = k[2])
    BY <2>5, <2>10
  <2>12. ASSUME NEW q \in DOMAIN rows', NEW r \in DOMAIN rows',
                rows'[q].session = rows'[r].session, rows'[q].index = rows'[r].index
         PROVE  q = r
    <3>1. CASE q \in DOMAIN rows /\ r \in DOMAIN rows
      BY <2>2, <2>7, <2>12, <3>1 DEF RowsInv
    <3>2. CASE q = n + 1 /\ r \in DOMAIN rows
      BY <2>7, <2>11, <2>12, <3>2
    <3>3. CASE r = n + 1 /\ q \in DOMAIN rows
      BY <2>7, <2>11, <2>12, <3>3
    <3> QED
      BY <2>8, <3>1, <3>2, <3>3
  <2>13. Sampled \subseteq Keys
    BY <2>2 DEF RowsInv
  <2>14. Sampled' \subseteq Keys'
    BY <2>1, <2>2, <2>9, <2>13
  <2> QED
    BY <2>2, <2>7, <2>12, <2>14 DEF RowsInv
<1>5. CASE SessionAdvantages
  <2>1. /\ advantage' = Broadcast(rows, score, cfg.uid) /\ Sampled = Keys
        /\ rows' = rows /\ score' = score /\ cfg' = cfg /\ outputs' = outputs /\ cfg.v1
        /\ stage' = "done"
    BY <1>5 DEF SessionAdvantages
  <2>2. Broadcast(rows, score, cfg.uid)' = Broadcast(rows, score, cfg.uid)
    BY <2>1
  <2> QED
    BY <1>1, <2>1, <2>2 DEF RowsInv
<1>6. CASE Filter
  BY <1>6 DEF Filter, RowsInv
<1>7. CASE Advantage
  <2>1. ~cfg.v1 /\ cfg' = cfg /\ stage' = "done"
    BY <1>7 DEF Advantage, ScoringInv, StageInv
  <2> QED
    BY <2>1 DEF RowsInv
<1>8. CASE UNCHANGED vars
  <2>1. /\ rows' = rows /\ score' = score /\ cfg' = cfg /\ outputs' = outputs
        /\ stage' = stage /\ advantage' = advantage
    BY <1>8 DEF vars
  <2>2. Broadcast(rows, score, cfg.uid)' = Broadcast(rows, score, cfg.uid)
    BY <2>1
  <2> QED
    BY <1>1, <2>1, <2>2 DEF RowsInv
<1> QED
  BY <1>2, <1>3, <1>4, <1>5, <1>6, <1>7, <1>8 DEF Next

(* Scores are integers.                                                    *)
LEMMA ScoreType ==
  ASSUME NEW t
  PROVE  Score(t) \in Int
BY DEF Score, Clamp, When

(* When all outputs are sampled, the final row of a session is the one of  *)
(* its last output, and the sessions with a row are those with an output.  *)
LEMMA FinalRowIsLast ==
  ASSUME ScoringInv, RowsInv, Done, cfg.v1, NEW s \in Sessions, outputs[s] > 0
  PROVE  LET r == FinalRow(rows, s)
         IN  r \in DOMAIN rows /\ rows[r].session = s /\ rows[r].index = outputs[s] - 1
<1> DEFINE Final(r) == r \in RowsOf(rows, s) /\ \A q \in RowsOf(rows, s) : rows[q].index <= rows[r].index
           c == FinalRow(rows, s)
<1>1. /\ rows \in Seq([session : Sessions, index : Nat, trained : BOOLEAN])
      /\ Sampled = Keys
  BY DEF RowsInv, Done
<1>2. outputs[s] \in Nat
  BY SessionsOfBatch, LenProperties, ElementOfSeq
  DEF ScoringInv, TypeInv, StageInv, Done, Sessions
<1>3. <<s, outputs[s] - 1>> \in Keys
  BY <1>2 DEF Keys
<1>4. PICK r \in DOMAIN rows : <<rows[r].session, rows[r].index>> = <<s, outputs[s] - 1>>
  BY <1>1, <1>3 DEF Sampled
<1>5. r \in RowsOf(rows, s) /\ rows[r].index = outputs[s] - 1
  BY <1>4 DEF RowsOf
<1>6. ASSUME NEW q \in RowsOf(rows, s)
      PROVE  rows[q].index \in Nat /\ rows[q].index <= outputs[s] - 1
  <2>1. q \in DOMAIN rows /\ rows[q].session = s
    BY DEF RowsOf
  <2>2. <<s, rows[q].index>> \in Keys
    BY <1>1, <2>1 DEF Sampled
  <2>3. PICK i \in Sessions : <<s, rows[q].index>> \in {i} \X (0 .. outputs[i] - 1)
    BY <2>2 DEF Keys
  <2> QED
    BY <1>2, <2>3
<1>7. Final(r)
  BY <1>5, <1>6
<1>8. c = CHOOSE q \in RowsOf(rows, s) : \A p \in RowsOf(rows, s) : rows[p].index <= rows[q].index
  BY Zenon DEF FinalRow
<1>9. Final(c)
  BY <1>7, <1>8, Zenon
<1> HIDE DEF c
<1>10. rows[r].index <= rows[c].index
  BY <1>5, <1>9
<1>11. rows[c].index = outputs[s] - 1
  BY <1>2, <1>5, <1>6, <1>9, <1>10
<1> QED
  BY <1>9, <1>11 DEF RowsOf, c

(* However many outputs a session stored, it weighs once in the baseline   *)
(* of its group.                                                           *)
THEOREM SessionsWeighOnce == Spec => []SessionsCountOnce
<1>1. ScoringInv /\ RowsInv => SessionsCountOnce
  <2> SUFFICES ASSUME ScoringInv, RowsInv, Done, cfg.v1, NEW r \in DOMAIN rows, rows[r].trained
               PROVE  LET s == rows[r].session
                      IN \/ advantage[r] = (IF Cardinality(Siblings(s)) < 2 THEN 0
                              ELSE Cardinality(Siblings(s)) * score[s] - Total(score, Siblings(s)))
                         \/ advantage[r] = 0 /\ LastUntrained(s)
    BY Zenon DEF SessionsCountOnce
  <2> DEFINE s == rows[r].session
             LastOf(q) == FinalRow(rows, q)
             F == [q \in FinalRows(rows) |-> score[rows[q].session]]
             U == [q \in FinalRows(rows) |-> cfg.uid[rows[q].session]]
             sib == Siblings(s)
             sound == GroupOf(U, LastOf(s)) \cap FinalRows(rows)
  <2>1. /\ rows \in Seq([session : Sessions, index : Nat, trained : BOOLEAN])
        /\ Sampled = Keys /\ advantage = Broadcast(rows, score, cfg.uid)
    BY DEF RowsInv, Done
  <2>2. \A q \in DOMAIN rows :
          rows[q].session \in Sessions /\ rows[q].index \in Nat
    <3> DEFINE Row == [session : Sessions, index : Nat, trained : BOOLEAN]
    <3>1. rows \in Seq(Row)
      BY <2>1
    <3> HIDE DEF Row
    <3>2. \A q \in DOMAIN rows : rows[q] \in Row
      BY <3>1, ElementOfSeq, LenProperties
    <3> QED
      BY <3>2 DEF Row
  <2>3. \A q \in Sessions : outputs[q] \in Nat
    BY SessionsOfBatch, LenProperties, ElementOfSeq
    DEF ScoringInv, TypeInv, StageInv, Done, Sessions
  <2>4. \A q \in DOMAIN rows : outputs[rows[q].session] > 0
    <3> SUFFICES ASSUME NEW q \in DOMAIN rows PROVE outputs[rows[q].session] > 0
      OBVIOUS
    <3>1. <<rows[q].session, rows[q].index>> \in Keys
      BY <2>1 DEF Sampled
    <3>2. PICK i \in Sessions : <<rows[q].session, rows[q].index>> \in {i} \X (0 .. outputs[i] - 1)
      BY <3>1 DEF Keys
    <3> QED
      BY <2>3, <3>2
  <2>5. \A q \in Sessions : outputs[q] > 0 =>
           LastOf(q) \in DOMAIN rows /\ rows[LastOf(q)].session = q /\ rows[LastOf(q)].index = outputs[q] - 1
    BY FinalRowIsLast, Zenon
  <2>6. SessionsIn(rows) = {q \in Sessions : outputs[q] > 0}
    BY <2>2, <2>4, <2>5 DEF SessionsIn
  <2>7. s \in Sessions /\ outputs[s] > 0 /\ s \in SessionsIn(rows)
    BY <2>2, <2>4, <2>6
  <2>8. FinalRows(rows) = {LastOf(q) : q \in SessionsIn(rows)}
    BY DEF FinalRows
  <2>9. advantage[r] = SessionAdvantageOf(rows, score, cfg.uid, s)
    BY <2>1 DEF Broadcast
  <2>10. CASE ~rows[LastOf(s)].trained
    <3>1. advantage[r] = 0
      BY <2>9, <2>10 DEF SessionAdvantageOf
    <3>2. LastUntrained(s)
      BY <2>5, <2>7, <2>10 DEF LastUntrained, RowsOf
    <3> QED
      BY <3>1, <3>2
  <2>11. CASE rows[LastOf(s)].trained
    <3>1. advantage[r] = Normalized(F, U, FinalRows(rows), LastOf(s))
      BY <2>9, <2>11, Zenon DEF SessionAdvantageOf
    <3> HIDE DEF Last
    <3>2. LastOf(s) \in FinalRows(rows)
      BY <2>7, <2>8
    <3>3. \A q \in SessionsIn(rows) : F[LastOf(q)] = score[q] /\ U[LastOf(q)] = cfg.uid[q]
      BY <2>5, <2>6, <2>8
    <3>4. sib = {q \in SessionsIn(rows) : cfg.uid[q] = cfg.uid[s]}
      BY <2>6 DEF Siblings
    <3>5. sound = {LastOf(q) : q \in sib}
      <4>1. DOMAIN U = FinalRows(rows)
        OBVIOUS
      <4>2. sound = {q \in FinalRows(rows) : U[q] = U[LastOf(s)]}
        BY <4>1 DEF GroupOf
      <4> HIDE DEF U, F, sound, sib
      <4>3. s \in SessionsIn(rows) /\ U[LastOf(s)] = cfg.uid[s]
        BY <2>7, <3>3
      <4>4. \A q \in SessionsIn(rows) : LastOf(q) \in sound <=> q \in sib
        BY <2>8, <3>3, <3>4, <4>2, <4>3
      <4>5. sib \subseteq SessionsIn(rows) /\ sound \subseteq FinalRows(rows)
        BY <3>4, <4>2
      <4> QED
        BY <2>8, <4>4, <4>5
    <3>6. LastOf(s) \in sound
      BY <2>7, <3>4, <3>5
    <3> DEFINE b == [q \in sib |-> LastOf(q)]
    <3>7. IsFiniteSet(sib)
      <4>1. IsFiniteSet(Sessions)
        BY SessionsOfBatch, FS_Interval DEF ScoringInv, TypeInv, Sessions
      <4> QED
        BY <4>1, <2>6, <3>4, FS_Subset
    <3>8. \A p, q \in sib : b[p] = b[q] => p = q
      BY <2>5, <2>6, <3>4
    <3>9. \A q \in sib : score[q] \in Int /\ F[b[q]] = score[q]
      <4>1. \A q \in Sessions : score[q] \in Int
        BY ScoreType DEF ScoringInv, StageInv, Done
      <4>2. \A q \in sib : q \in SessionsIn(rows) /\ q \in Sessions
        BY <2>6, <3>4
      <4> HIDE DEF F, sib
      <4>3. \A q \in sib : b[q] = LastOf(q)
        OBVIOUS
      <4> QED
        BY <3>3, <4>1, <4>2, <4>3
    <3>10. sound = {b[q] : q \in sib}
      BY <3>5
    <3>11. b \in Bijection(sib, sound)
      <4>1. b \in [sib -> {b[q] : q \in sib}]
        <5> HIDE DEF sib
        <5> QED
          OBVIOUS
      <4> HIDE DEF sound, sib, b
      <4>2. b \in [sib -> sound]
        BY <3>10, <4>1
      <4>3. b \in Injection(sib, sound)
        BY <3>8, <4>2 DEF Injection, IsInjective
      <4>4. b \in Surjection(sib, sound)
        BY <3>10, <4>2 DEF Surjection
      <4> QED
        BY <4>3, <4>4 DEF Bijection
    <3> HIDE DEF b, F, U, sib, sound
    <3>12. Cardinality(sound) = Cardinality(sib)
      BY <3>7, <3>11, FS_Bijection DEF ExistsBijection
    <3>13. Total(score, sib) = Total(F, sound)
      BY <3>7, <3>8, <3>9, <3>10, TotalRename
    <3>14. Normalized(F, U, FinalRows(rows), LastOf(s))
            = IF Cardinality(sound) < 2 \/ LastOf(s) \notin sound THEN 0
              ELSE Cardinality(sound) * F[LastOf(s)] - Total(F, sound)
      BY DEF Normalized, sound
    <3>15. F[LastOf(s)] = score[s]
      BY <2>7, <3>3
    <3>16. advantage[r] = IF Cardinality(sib) < 2 THEN 0
                          ELSE Cardinality(sib) * score[s] - Total(score, sib)
      BY <3>1, <3>6, <3>12, <3>13, <3>14, <3>15, Zenon
    <3> QED
      BY <3>16 DEF sib
  <2> QED
    BY <2>10, <2>11
<1>2. Spec => []RowsInv
  BY RowsInit, RowsStep, ScoringTypes, PTL DEF Spec
<1> QED
  BY <1>1, <1>2, ScoringTypes, PTL
-----------------------------------------------------------------------------
(* The vectorized estimators.                                              *)

(* Two functions that agree on a set have the same sum over it.            *)
LEMMA TotalEqual ==
  ASSUME NEW S, IsFiniteSet(S), NEW f, NEW g, \A x \in S : f[x] \in Int /\ g[x] = f[x]
  PROVE  Total(f, S) = Total(g, S)
<1> DEFINE b == [x \in S |-> x]
<1>1. /\ \A x, y \in S : b[x] = b[y] => x = y
      /\ \A x \in S : f[x] \in Int /\ g[b[x]] = f[x]
      /\ {b[x] : x \in S} = S
  OBVIOUS
<1> HIDE DEF b
<1> QED
  BY <1>1, TotalRename

(* What the vectorized loop has made of the scores when it has been over   *)
(* the groups in W.                                                        *)
AfterGroups(score_, uid, mask, W) ==
  [i \in DOMAIN uid |-> IF uid[i] \in W THEN Normalized(score_, uid, mask, i) ELSE score_[i]]

GroupsOn(score_, uid, mask, D, g) ==
  g = [s \in D |-> IF s = {} THEN score_
                   ELSE VectorizedGroup(g[s \ {Pick(s)}], {i \in DOMAIN uid : uid[i] = Pick(s)}, mask)]

LEMMA OneGroup ==
  ASSUME NEW uid, IsFiniteSet(DOMAIN uid), NEW s \in [DOMAIN uid -> Int],
         NEW mask \in SUBSET DOMAIN uid, NEW W, NEW p \in W
  PROVE  VectorizedGroup(AfterGroups(s, uid, mask, W \ {p}), {i \in DOMAIN uid : uid[i] = p}, mask)
           = AfterGroups(s, uid, mask, W)
<1> DEFINE group == {i \in DOMAIN uid : uid[i] = p}
           sound == group \cap mask
           v == AfterGroups(s, uid, mask, W \ {p})
           w == AfterGroups(s, uid, mask, W)
<1>1. DOMAIN v = DOMAIN uid
  BY DEF AfterGroups
<1>2. \A i \in group : v[i] = s[i]
  BY DEF AfterGroups
<1>3. \A i \in DOMAIN uid : i \notin group => v[i] = w[i]
  BY DEF AfterGroups
<1>4. \A i \in group : w[i] = Normalized(s, uid, mask, i)
  BY DEF AfterGroups
<1>5. \A i \in group : GroupOf(uid, i) = group
  BY DEF GroupOf
<1>6. IsFiniteSet(sound)
  BY FS_Subset
<1>7. \A i \in sound : s[i] \in Int /\ v[i] = s[i]
  BY <1>2
<1> HIDE DEF v, w
<1>8. Total(s, sound) = Total(v, sound)
  BY <1>6, <1>7, TotalEqual
<1> DEFINE r == VectorizedGroup(v, group, mask)
<1>9. r = [i \in DOMAIN uid |->
             IF i \notin group THEN v[i]
             ELSE IF Cardinality(sound) < 2 \/ i \notin mask THEN 0
             ELSE Cardinality(sound) * v[i] - Total(v, sound)]
  BY <1>1 DEF VectorizedGroup
<1>10. \A i \in group :
         Normalized(s, uid, mask, i)
           = IF Cardinality(sound) < 2 \/ i \notin sound THEN 0
             ELSE Cardinality(sound) * s[i] - Total(s, sound)
  BY <1>5 DEF Normalized
<1>11. \A i \in group : i \in sound <=> i \in mask
  OBVIOUS
<1> HIDE DEF group, sound, r
<1>12. ASSUME NEW i \in DOMAIN uid
       PROVE  r[i] = w[i]
  <2>1. CASE i \notin group
    BY <1>3, <1>9, <2>1
  <2>2. CASE i \in group
    <3>1. r[i] = IF Cardinality(sound) < 2 \/ i \notin mask THEN 0
                 ELSE Cardinality(sound) * v[i] - Total(v, sound)
      BY <1>9, <2>2
    <3> QED
      BY <1>2, <1>4, <1>8, <1>10, <1>11, <2>2, <3>1, Zenon
  <2> QED
    BY <2>1, <2>2
<1>13. w = [i \in DOMAIN uid |-> w[i]]
  BY DEF w, AfterGroups
<1>14. r = [i \in DOMAIN uid |-> r[i]]
  BY <1>9
<1>15. r = w
  BY <1>12, <1>13, <1>14
<1> QED
  BY <1>15 DEF r, v, w, group

LEMMA VectorizedIsNormalized ==
  ASSUME NEW uid, IsFiniteSet(DOMAIN uid), NEW s \in [DOMAIN uid -> Int],
         NEW mask \in SUBSET DOMAIN uid
  PROVE  Vectorized(s, uid, mask) = [i \in DOMAIN uid |-> Normalized(s, uid, mask, i)]
<1> DEFINE U == {uid[i] : i \in DOMAIN uid}
           On(g) == GroupsOn(s, uid, mask, SUBSET U, g)
           Closed(W) == AfterGroups(s, uid, mask, W)
           c == CHOOSE g : On(g)
<1>1. IsFiniteSet(U)
  <2> DEFINE h == [i \in DOMAIN uid |-> uid[i]]
  <2>1. h \in Surjection(DOMAIN uid, U)
    BY DEF Surjection
  <2> HIDE DEF h, U
  <2> QED
    BY <2>1, FS_Surjection
<1>2. Closed({}) = s
  BY DEF AfterGroups
<1>3. \A W \in SUBSET U : W # {} =>
        VectorizedGroup(Closed(W \ {Pick(W)}), {i \in DOMAIN uid : uid[i] = Pick(W)}, mask)
          = Closed(W)
  <2> SUFFICES ASSUME NEW W \in SUBSET U, W # {}
               PROVE  VectorizedGroup(Closed(W \ {Pick(W)}),
                                      {i \in DOMAIN uid : uid[i] = Pick(W)}, mask) = Closed(W)
    OBVIOUS
  <2>1. Pick(W) \in W
    BY DEF Pick
  <2> QED
    BY <2>1, OneGroup
<1>4. \E g : On(g)
  <2> DEFINE g == [W \in SUBSET U |-> Closed(W)]
  <2> HIDE DEF Closed, U
  <2>1. \A W \in SUBSET U : g[W \ {Pick(W)}] = Closed(W \ {Pick(W)})
    OBVIOUS
  <2>2. g = [W \in SUBSET U |->
               IF W = {} THEN s
               ELSE VectorizedGroup(g[W \ {Pick(W)}], {i \in DOMAIN uid : uid[i] = Pick(W)}, mask)]
    BY <1>2, <1>3, <2>1
  <2> QED
    BY <2>2 DEF GroupsOn
<1>5. On(c)
  BY <1>4
<1>6. Vectorized(s, uid, mask) = c[U]
  BY DEF Vectorized, FoldSet, MapThenFoldSet, GroupsOn, Pick
<1> DEFINE B == {W \in SUBSET U : c[W] # Closed(W)}
<1> HIDE DEF c
<1>7. B = {}
  <2> SUFFICES ASSUME B # {} PROVE FALSE
    OBVIOUS
  <2>1. PICK W \in B : \A V \in B : V \subseteq W => V = W
    <3>1. B \in SUBSET (SUBSET U)
      OBVIOUS
    <3> HIDE DEF B, U
    <3> QED
      BY <1>1, <3>1, LeastSet
  <2> DEFINE R == W \ {Pick(W)}
  <2>2. c[W] = IF W = {} THEN s
               ELSE VectorizedGroup(c[R], {i \in DOMAIN uid : uid[i] = Pick(W)}, mask)
    BY <1>5 DEF GroupsOn
  <2>3. W # {} => R \in SUBSET U /\ R \notin B
    <3>1. W # {} => Pick(W) \in W
      BY DEF Pick
    <3> QED
      BY <2>1, <3>1
  <2>4. W # {} => c[R] = Closed(R)
    BY <2>3
  <2>5. c[W] # Closed(W) /\ W \in SUBSET U
    OBVIOUS
  <2> HIDE DEF U, Closed, B
  <2> QED
    BY <1>2, <1>3, <2>2, <2>4, <2>5, Zenon
<1>8. c[U] = Closed(U)
  BY <1>7
<1> QED
  BY <1>6, <1>8 DEF AfterGroups

(* The bincount of RLOO is the sum over the group.                         *)
BinsOn(score_, uid, i, D, g) ==
  g = [s \in D |-> IF s = {} THEN 0
                   ELSE IF uid[Pick(s)] = uid[i] THEN g[s \ {Pick(s)}] + score_[Pick(s)]
                   ELSE g[s \ {Pick(s)}]]

LEMMA BinIsTotal ==
  ASSUME NEW uid, IsFiniteSet(DOMAIN uid), NEW s \in [DOMAIN uid -> Int], NEW i \in DOMAIN uid
  PROVE  FoldSet(LAMBDA j, t : IF uid[j] = uid[i] THEN t + s[j] ELSE t, 0, DOMAIN s)
           = Total(s, GroupOf(uid, i))
<1> DEFINE U == DOMAIN uid
           group == GroupOf(uid, i)
           On(g) == BinsOn(s, uid, i, SUBSET U, g)
           Closed(W) == Total(s, W \cap group)
           c == CHOOSE g : On(g)
<1>1. group \in SUBSET U /\ \A j \in U : j \in group <=> uid[j] = uid[i]
  BY DEF GroupOf
<1>2. \A W \in SUBSET U :
        /\ IsFiniteSet(W \cap group) /\ \A x \in W \cap group : s[x] \in Int
        /\ Closed(W) \in Int
  <2> SUFFICES ASSUME NEW W \in SUBSET U
               PROVE  /\ IsFiniteSet(W \cap group) /\ \A x \in W \cap group : s[x] \in Int
                      /\ Closed(W) \in Int
    OBVIOUS
  <2>1. IsFiniteSet(W \cap group) /\ \A x \in W \cap group : s[x] \in Int
    BY <1>1, FS_Subset
  <2> QED
    BY <2>1, TotalType
<1>3. Closed({}) = 0
  <2>1. {} \cap group = {}
    OBVIOUS
  <2>2. Total(s, {}) = 0
    BY FS_EmptySet, TotalRule
  <2> QED
    BY <2>1, <2>2
<1>4. \A W \in SUBSET U : W # {} =>
        Closed(W) = IF uid[Pick(W)] = uid[i] THEN Closed(W \ {Pick(W)}) + s[Pick(W)]
                    ELSE Closed(W \ {Pick(W)})
  <2> SUFFICES ASSUME NEW W \in SUBSET U, W # {}
               PROVE  Closed(W) = IF uid[Pick(W)] = uid[i]
                                  THEN Closed(W \ {Pick(W)}) + s[Pick(W)]
                                  ELSE Closed(W \ {Pick(W)})
    OBVIOUS
  <2> DEFINE p == Pick(W)
             A == W \cap group
             R == W \ {p}
  <2>1. p \in W
    BY DEF Pick
  <2>2. p \in group <=> uid[p] = uid[i]
    BY <1>1, <2>1
  <2> HIDE DEF p, group
  <2>3. CASE p \in group
    <3>1. A \ {p} = R \cap group /\ p \in A
      BY <2>1, <2>3
    <3>2. IsFiniteSet(A) /\ \A x \in A : s[x] \in Int
      BY <1>2
    <3> HIDE DEF A
    <3>3. Total(s, A) = s[p] + Total(s, A \ {p})
      BY <3>1, <3>2, TotalRemove
    <3>4. Total(s, R \cap group) \in Int /\ s[p] \in Int
      BY <1>2, <3>1, <3>2
    <3>5. Closed(W) = Closed(R) + s[p]
      <4> DEFINE t == Total(s, R \cap group)
      <4>1. Closed(W) = s[p] + t
        BY <3>1, <3>3, Zenon DEF A
      <4>2. Closed(R) = t /\ t \in Int
        BY <3>4
      <4> HIDE DEF t, Closed
      <4> QED
        BY <3>4, <4>1, <4>2
    <3> QED
      BY <2>2, <2>3, <3>5 DEF p
  <2>4. CASE p \notin group
    <3>1. A = R \cap group
      BY <2>4
    <3>2. Closed(W) = Closed(R)
      BY <3>1
    <3> QED
      BY <2>2, <2>4, <3>2 DEF p
  <2> QED
    BY <2>3, <2>4
<1>5. \E g : On(g)
  <2> DEFINE g == [W \in SUBSET U |-> Closed(W)]
  <2> HIDE DEF Closed
  <2>1. \A W \in SUBSET U : g[W \ {Pick(W)}] = Closed(W \ {Pick(W)})
    OBVIOUS
  <2>2. g = [W \in SUBSET U |->
               IF W = {} THEN 0
               ELSE IF uid[Pick(W)] = uid[i] THEN g[W \ {Pick(W)}] + s[Pick(W)]
               ELSE g[W \ {Pick(W)}]]
    BY <1>3, <1>4, <2>1
  <2> QED
    BY <2>2 DEF BinsOn
<1>6. On(c)
  BY <1>5
<1>7. FoldSet(LAMBDA j, t : IF uid[j] = uid[i] THEN t + s[j] ELSE t, 0, DOMAIN s) = c[U]
  <2>1. DOMAIN s = U
    OBVIOUS
  <2> QED
    BY <2>1 DEF FoldSet, MapThenFoldSet, BinsOn, Pick
<1> DEFINE B == {W \in SUBSET U : c[W] # Closed(W)}
<1> HIDE DEF c
<1>8. B = {}
  <2> SUFFICES ASSUME B # {} PROVE FALSE
    OBVIOUS
  <2>1. PICK W \in B : \A V \in B : V \subseteq W => V = W
    <3>1. B \in SUBSET (SUBSET U)
      OBVIOUS
    <3> HIDE DEF B
    <3> QED
      BY <3>1, LeastSet
  <2> DEFINE R == W \ {Pick(W)}
  <2>2. c[W] = IF W = {} THEN 0
               ELSE IF uid[Pick(W)] = uid[i] THEN c[R] + s[Pick(W)] ELSE c[R]
    BY <1>6 DEF BinsOn
  <2>3. W # {} => R \in SUBSET U /\ R \notin B
    <3>1. W # {} => Pick(W) \in W
      BY DEF Pick
    <3> QED
      BY <2>1, <3>1
  <2>4. W # {} => c[R] = Closed(R)
    BY <2>3
  <2>5. c[W] # Closed(W) /\ W \in SUBSET U
    OBVIOUS
  <2> HIDE DEF U, Closed, B
  <2> QED
    BY <1>3, <1>4, <2>2, <2>4, <2>5, Zenon
<1>9. c[U] = Closed(U) /\ U \cap group = group
  BY <1>1, <1>8
<1> QED
  BY <1>7, <1>9

(* The vectorized estimators return what the loops return: GRPO with a     *)
(* mask, and GRPO without and RLOO for groups of at least two.             *)
THEOREM VectorizedReturnsTheSame == Spec => []VectorizedAgrees
<1>1. ScoringInv => VectorizedAgrees
  <2> SUFFICES ASSUME ScoringInv, Done, NEW i \in Sessions
               PROVE  /\ Normalized(score, cfg.uid, valid, i)
                           = Vectorized(score, cfg.uid, valid)[i]
                      /\ Cardinality(GroupOf(cfg.uid, i)) > 1 =>
                           /\ Normalized(score, cfg.uid, Sessions, i)
                                = VectorizedUnmasked(score, cfg.uid, i)
                           /\ Rloo(score, cfg.uid, i) = RlooVectorized(score, cfg.uid, i)
    BY Zenon DEF VectorizedAgrees
  <2> DEFINE uid == cfg.uid
             group == GroupOf(uid, i)
             n == Cardinality(group)
  <2>1. DOMAIN uid = Sessions /\ IsFiniteSet(DOMAIN uid)
    BY SessionsOfBatch, FS_Interval DEF ScoringInv, TypeInv, Sessions
  <2>2. score \in [DOMAIN uid -> Int]
    BY <2>1, ScoreType DEF ScoringInv, StageInv, Done
  <2>3. valid \in SUBSET DOMAIN uid /\ i \in DOMAIN uid
    BY <2>1 DEF ScoringInv, TypeInv
  <2>4. group \in SUBSET DOMAIN uid /\ i \in group
    BY <2>3 DEF GroupOf
  <2>5. n \in Nat
    BY <2>1, <2>4, FS_Subset, FS_CardinalityType
  <2> HIDE DEF uid
  <2>6. Normalized(score, uid, valid, i) = Vectorized(score, uid, valid)[i]
    BY <2>1, <2>2, <2>3, VectorizedIsNormalized
  <2>7. ASSUME n > 1
        PROVE  Normalized(score, uid, Sessions, i) = VectorizedUnmasked(score, uid, i)
    <3>1. group \cap Sessions = group
      BY <2>1, <2>4
    <3>2. Normalized(score, uid, Sessions, i) = n * score[i] - Total(score, group)
      <4>1. Normalized(score, uid, Sessions, i)
              = IF n < 2 \/ i \notin group THEN 0 ELSE n * score[i] - Total(score, group)
        BY <3>1 DEF Normalized
      <4>2. ~(n < 2 \/ i \notin group)
        BY <2>4, <2>5, <2>7
      <4> QED
        BY <4>1, <4>2, Zenon
    <3>3. VectorizedUnmasked(score, uid, i) = n * score[i] - Total(score, group)
      <4>1. n # 1
        BY <2>5, <2>7
      <4> QED
        BY <4>1, Zenon DEF VectorizedUnmasked
    <3> QED
      BY <3>2, <3>3
  <2>8. ASSUME n > 1
        PROVE  Rloo(score, uid, i) = RlooVectorized(score, uid, i)
    <3>1. n # 1
      BY <2>5, <2>8
    <3>2. Rloo(score, uid, i) = n * score[i] - Total(score, group)
      BY <3>1, Zenon DEF Rloo
    <3>3. {j \in DOMAIN score : uid[j] = uid[i]} = group
      BY <2>2 DEF GroupOf
    <3> DEFINE sum == FoldSet(LAMBDA j, t : IF uid[j] = uid[i] THEN t + score[j] ELSE t,
                              0, DOMAIN score)
    <3>4. sum = Total(score, group)
      BY <2>1, <2>2, <2>3, BinIsTotal
    <3>5. RlooVectorized(score, uid, i) = IF n > 1 THEN n * score[i] - sum ELSE 0
      BY <3>3 DEF RlooVectorized
    <3> HIDE DEF n, sum, group
    <3> QED
      BY <2>8, <3>2, <3>4, <3>5, Zenon
  <2> QED
    BY <2>6, <2>7, <2>8 DEF uid
<1> QED
  BY <1>1, ScoringTypes, PTL
-----------------------------------------------------------------------------
(* The credit of the tokens.                                               *)

(* Induction over numbers.                                                 *)
LEMMA Induction ==
  ASSUME NEW G \in SUBSET Nat, 0 \in G, \A n \in G : n + 1 \in G
  PROVE  G = Nat
<1> SUFFICES ASSUME Nat \ G # {} PROVE FALSE
  OBVIOUS
<1>1. PICK x \in Nat \ G : \A y \in Nat \ G : x <= y
  BY LeastNumber
<1>2. x - 1 \in Nat /\ (x - 1) + 1 = x
  BY <1>1
<1>3. x - 1 \notin G
  BY <1>2
<1>4. ~(x <= x - 1)
  BY <1>1
<1> QED
  BY <1>1, <1>2, <1>3, <1>4

(* A function that follows a recursion up to n, and one that follows it    *)
(* from the last token of a response down to the first.                    *)
Upwards(f, x, n, step) ==
  f = [i \in 0 .. n |-> IF i = 0 THEN x ELSE step[<<i, f[i - 1]>>]]
Downwards(f, x, n, step) ==
  f = [t \in 1 .. n + 1 |-> IF t > n THEN x ELSE step[<<t, f[t + 1]>>]]

(* A recursion that ends after n steps has a function that follows it.     *)
LEMMA UpwardsExists ==
  ASSUME NEW X, NEW x \in X, NEW n \in Nat, NEW step \in [(1 .. n) \X X -> X]
  PROVE  \E f \in [0 .. n -> X] : Upwards(f, x, n, step)
<1> DEFINE Good(k, f) == /\ f \in [0 .. n -> X] /\ f[0] = x
                         /\ \A i \in 1 .. n : i <= k => f[i] = step[<<i, f[i - 1]>>]
           G == {k \in Nat : \E f : Good(k, f)}
<1>1. 0 \in G
  <2>1. Good(0, [i \in 0 .. n |-> x])
    OBVIOUS
  <2> QED
    BY <2>1
<1>2. ASSUME NEW k \in G
      PROVE  k + 1 \in G
  <2>1. PICK f : Good(k, f)
    OBVIOUS
  <2>2. CASE k + 1 \in 1 .. n
    <3> DEFINE h == [f EXCEPT ![k + 1] = step[<<k + 1, f[k]>>]]
    <3>1. k \in 0 .. n /\ k + 1 \in 0 .. n /\ k + 1 # 0
      BY <2>2
    <3>2. f[k] \in X
      BY <2>1, <3>1
    <3>3. step[<<k + 1, f[k]>>] \in X
      BY <2>2, <3>2
    <3>4. h \in [0 .. n -> X] /\ h[0] = x
      BY <2>1, <3>1, <3>3
    <3>5. ASSUME NEW i \in 1 .. n, i <= k + 1
          PROVE  h[i] = step[<<i, h[i - 1]>>]
      <4>1. i - 1 \in 0 .. n /\ i - 1 # k + 1 /\ h[i - 1] = f[i - 1]
        BY <2>1, <3>5
      <4>2. CASE i = k + 1
        <5>1. i - 1 = k
          BY <4>2
        <5>2. h[k + 1] = step[<<k + 1, f[k]>>]
          BY <2>1, <3>1
        <5> HIDE DEF h
        <5> QED
          BY <4>1, <4>2, <5>1, <5>2
      <4>3. CASE i # k + 1
        <5>1. i <= k /\ i \in 0 .. n
          BY <3>5, <4>3
        <5>2. h[i] = f[i]
          BY <2>1, <4>3, <5>1
        <5>3. f[i] = step[<<i, f[i - 1]>>]
          BY <2>1, <5>1
        <5> HIDE DEF h
        <5> QED
          BY <4>1, <5>2, <5>3
      <4> QED
        BY <4>2, <4>3
    <3>6. Good(k + 1, h) /\ k + 1 \in Nat
      BY <3>4, <3>5
    <3> HIDE DEF h, Good
    <3> QED
      BY <3>6
  <2>3. CASE k + 1 \notin 1 .. n
    <3>1. Good(k + 1, f)
      BY <2>1, <2>3
    <3> QED
      BY <3>1
  <2> QED
    BY <2>2, <2>3
<1>3. G = Nat
  <2>1. G \in SUBSET Nat
    OBVIOUS
  <2> HIDE DEF G
  <2> QED
    BY <1>1, <1>2, <2>1, Induction
<1>4. PICK f : Good(n, f)
  BY <1>3
<1>5. \A i \in 0 .. n : f[i] = IF i = 0 THEN x ELSE step[<<i, f[i - 1]>>]
  BY <1>4
<1>6. f \in [0 .. n -> X]
  BY <1>4
<1> HIDE DEF Good, G
<1>7. f = [i \in 0 .. n |-> IF i = 0 THEN x ELSE step[<<i, f[i - 1]>>]]
  BY <1>5, <1>6
<1> QED
  BY <1>6, <1>7 DEF Upwards

(* The same for a recursion down.                                          *)
LEMMA DownwardsExists ==
  ASSUME NEW X, NEW x \in X, NEW n \in Nat, NEW step \in [(1 .. n) \X X -> X]
  PROVE  \E f \in [1 .. n + 1 -> X] : Downwards(f, x, n, step)
<1> DEFINE back == [p \in (1 .. n) \X X |-> step[<<n + 1 - p[1], p[2]>>]]
<1>1. back \in [(1 .. n) \X X -> X]
  BY SMT
<1>2. \A i \in 1 .. n, y \in X : back[<<i, y>>] = step[<<n + 1 - i, y>>]
  BY SMT
<1> HIDE DEF back
<1>3. PICK g \in [0 .. n -> X] : Upwards(g, x, n, back)
  BY <1>1, UpwardsExists
<1> DEFINE f == [t \in 1 .. n + 1 |-> g[n + 1 - t]]
<1>4. f \in [1 .. n + 1 -> X]
  OBVIOUS
<1>5. ASSUME NEW t \in 1 .. n + 1
      PROVE  f[t] = IF t > n THEN x ELSE step[<<t, f[t + 1]>>]
  <2>1. n + 1 - t \in 0 .. n /\ f[t] = g[n + 1 - t]
    OBVIOUS
  <2>2. CASE t > n
    <3>1. n + 1 - t = 0
      BY <2>2
    <3> QED
      BY <1>3, <2>1, <2>2, <3>1 DEF Upwards
  <2>3. CASE ~(t > n)
    <3>1. PICK i \in 1 .. n : i = n + 1 - t
      BY <2>3
    <3>2. i # 0 /\ i \in 0 .. n /\ i - 1 \in 0 .. n /\ n + 1 - i = t
          /\ t + 1 \in 1 .. n + 1 /\ n + 1 - (t + 1) = i - 1
      BY <3>1
    <3>3. g[i] = back[<<i, g[i - 1]>>]
      BY <1>3, <3>2 DEF Upwards
    <3>4. f[t + 1] = g[i - 1] /\ g[i - 1] \in X
      BY <3>2
    <3>5. back[<<i, g[i - 1]>>] = step[<<t, g[i - 1]>>]
      BY <1>2, <3>2, <3>4
    <3> HIDE DEF f
    <3> QED
      BY <2>1, <2>3, <3>1, <3>3, <3>4, <3>5
  <2> QED
    BY <2>2, <2>3
<1> HIDE DEF f
<1>6. f = [t \in 1 .. n + 1 |-> IF t > n THEN x ELSE step[<<t, f[t + 1]>>]]
  BY <1>4, <1>5
<1> QED
  BY <1>4, <1>6 DEF Downwards

(* What such a recursion keeps from each value to the next.                *)
LEMMA DownwardsType ==
  ASSUME NEW X, NEW n \in Nat, NEW f, f = [t \in 1 .. n + 1 |-> f[t]],
         f[n + 1] \in X, \A t \in 1 .. n : f[t + 1] \in X => f[t] \in X
  PROVE  f \in [1 .. n + 1 -> X]
<1> DEFINE G == {i \in Nat : i \in 0 .. n => f[n + 1 - i] \in X}
<1>1. 0 \in G
  BY n + 1 - 0 = n + 1
<1>2. ASSUME NEW i \in G PROVE i + 1 \in G
  <2> SUFFICES ASSUME i + 1 \in 0 .. n PROVE f[n + 1 - (i + 1)] \in X
    OBVIOUS
  <2>1. PICK t \in 1 .. n : t = n + 1 - (i + 1) /\ t + 1 = n + 1 - i /\ i \in 0 .. n
    OBVIOUS
  <2>2. f[t + 1] \in X
    BY <2>1
  <2> QED
    BY <2>1, <2>2
<1>3. G = Nat
  <2>1. G \in SUBSET Nat
    OBVIOUS
  <2> HIDE DEF G
  <2> QED
    BY <1>1, <1>2, <2>1, Induction
<1>4. ASSUME NEW t \in 1 .. n + 1
      PROVE  f[t] \in X
  <2>1. n + 1 - t \in G
    BY <1>3
  <2>2. n + 1 - t \in 0 .. n /\ n + 1 - (n + 1 - t) = t
    OBVIOUS
  <2> QED
    BY <2>1, <2>2
<1> QED
  BY <1>4

(* The tokens of the model, as they are found: c counts them.              *)
CountsTokens(c, mask) ==
  LET toks == ModelTokens(mask) IN
  /\ toks \in Seq(Nat)
  /\ c \in [0 .. Len(mask) -> 0 .. Len(toks)]
  /\ c[0] = 0 /\ c[Len(mask)] = Len(toks)
  /\ \A t \in 1 .. Len(mask) :
       IF mask[t] THEN c[t] = c[t - 1] + 1 /\ toks[c[t]] = t ELSE c[t] = c[t - 1]
  /\ \A k \in 1 .. Len(toks) :
       toks[k] \in 1 .. Len(mask) /\ mask[toks[k]] /\ c[toks[k]] = k

LEMMA TokensFound ==
  ASSUME NEW mask \in Seq(BOOLEAN)
  PROVE  \E upto \in [0 .. Len(mask) -> Seq(Nat)] :
           /\ upto[0] = <<>> /\ ModelTokens(mask) = upto[Len(mask)]
           /\ \A n \in 1 .. Len(mask) :
                upto[n] = IF mask[n] THEN Append(upto[n - 1], n) ELSE upto[n - 1]
<1> DEFINE M == Len(mask)
           step == [p \in (1 .. M) \X Seq(Nat) |-> IF mask[p[1]] THEN Append(p[2], p[1]) ELSE p[2]]
           Is(f) == f = [n \in 0 .. M |->
                           IF n = 0 THEN <<>>
                           ELSE IF mask[n] THEN Append(f[n - 1], n)
                           ELSE f[n - 1]]
           upto == CHOOSE f : Is(f)
<1>1. M \in Nat
  BY LenProperties
<1>2. \A i \in 1 .. M, s \in Seq(Nat) : Append(s, i) \in Seq(Nat)
  BY <1>1, AppendProperties
<1>3. step \in [(1 .. M) \X Seq(Nat) -> Seq(Nat)]
  BY <1>2
<1>4. \A i \in 1 .. M, s \in Seq(Nat) : step[<<i, s>>] = IF mask[i] THEN Append(s, i) ELSE s
  OBVIOUS
<1>5. <<>> \in Seq(Nat)
  BY EmptySeq
<1> HIDE DEF step, M
<1>6. PICK f \in [0 .. M -> Seq(Nat)] : Upwards(f, <<>>, M, step)
  BY <1>1, <1>3, <1>5, UpwardsExists
<1>7. ASSUME NEW n \in 0 .. M
      PROVE  f[n] = IF n = 0 THEN <<>>
                    ELSE IF mask[n] THEN Append(f[n - 1], n)
                    ELSE f[n - 1]
  <2>1. f[n] = IF n = 0 THEN <<>> ELSE step[<<n, f[n - 1]>>]
    BY <1>6 DEF Upwards
  <2>2. n # 0 => n \in 1 .. M /\ n - 1 \in 0 .. M /\ f[n - 1] \in Seq(Nat)
    BY <1>1
  <2> QED
    BY <1>4, <2>1, <2>2
<1>8. Is(f)
  BY <1>7
<1>9. Is(upto)
  BY <1>8
<1>10. ModelTokens(mask) = upto[M]
  BY DEF ModelTokens, M
<1> HIDE DEF upto
<1>11. \A n \in 1 .. M : n # 0 /\ n \in 0 .. M
  BY <1>1
<1>12. /\ upto[0] = <<>> /\ DOMAIN upto = 0 .. M /\ upto = [n \in 0 .. M |-> upto[n]]
       /\ \A n \in 1 .. M : upto[n] = IF mask[n] THEN Append(upto[n - 1], n) ELSE upto[n - 1]
  <2>1. 0 \in 0 .. M
    BY <1>1
  <2> QED
    BY <1>9, <1>11, <2>1
<1>13. \A n \in 0 .. M : upto[n] \in Seq(Nat)
  <2> DEFINE G == {n \in Nat : n \in 0 .. M => upto[n] \in Seq(Nat)}
  <2>1. 0 \in G
    BY <1>5, <1>12
  <2>2. ASSUME NEW n \in G PROVE n + 1 \in G
    <3>1. n + 1 \in Nat /\ (n + 1 \in 0 .. M => n + 1 \in 1 .. M /\ n \in 0 .. M /\ (n + 1) - 1 = n)
      BY <1>1
    <3>2. n \in 0 .. M => upto[n] \in Seq(Nat)
      OBVIOUS
    <3>3. n + 1 \in 0 .. M => upto[n + 1] \in Seq(Nat)
      <4> SUFFICES ASSUME n + 1 \in 0 .. M PROVE upto[n + 1] \in Seq(Nat)
        OBVIOUS
      <4>1. PICK m \in 1 .. M : m = n + 1 /\ m - 1 = n
        BY <3>1
      <4>2. upto[m - 1] \in Seq(Nat)
        BY <3>1, <3>2, <4>1
      <4>3. Append(upto[m - 1], m) \in Seq(Nat)
        BY <1>2, <4>2
      <4>4. upto[m] \in Seq(Nat)
        BY <1>12, <4>2, <4>3
      <4> QED
        BY <4>1, <4>4
    <3> QED
      BY <3>1, <3>3
  <2>3. G \in SUBSET Nat
    OBVIOUS
  <2>4. \A n \in 0 .. M : n \in Nat
    BY <1>1
  <2> HIDE DEF G
  <2>5. G = Nat
    BY <2>1, <2>2, <2>3, Induction
  <2> QED
    BY <2>4, <2>5 DEF G
<1> QED
  BY <1>10, <1>12, <1>13 DEF M

LEMMA TokensCounted ==
  ASSUME NEW mask \in Seq(BOOLEAN)
  PROVE  \E c : CountsTokens(c, mask)
<1> DEFINE M == Len(mask)
           toks == ModelTokens(mask)
<1>1. PICK upto \in [0 .. M -> Seq(Nat)] :
        /\ upto[0] = <<>> /\ toks = upto[M]
        /\ \A n \in 1 .. M : upto[n] = IF mask[n] THEN Append(upto[n - 1], n) ELSE upto[n - 1]
  BY TokensFound
<1>2. M \in Nat
  BY LenProperties
<1> DEFINE c == [n \in 0 .. M |-> Len(upto[n])]
           Found(n) ==
             /\ \A t \in 0 .. n : c[t] \in 0 .. Len(upto[n])
             /\ \A t \in 1 .. n : mask[t] => upto[n][c[t]] = t
             /\ \A k \in 1 .. Len(upto[n]) :
                  upto[n][k] \in 1 .. n /\ mask[upto[n][k]] /\ c[upto[n][k]] = k
           G == {n \in Nat : n \in 0 .. M => Found(n)}
<1> HIDE DEF M, toks
<1>3. \A n \in 0 .. M : c[n] = Len(upto[n]) /\ c[n] \in Nat /\ upto[n] \in Seq(Nat)
  BY LenProperties
<1>4. ASSUME NEW n \in 1 .. M
      PROVE  /\ n - 1 \in 0 .. M /\ n \in 0 .. M
             /\ mask[n] => /\ upto[n] = Append(upto[n - 1], n)
                           /\ c[n] = c[n - 1] + 1 /\ upto[n][c[n]] = n
                           /\ \A k \in 1 .. c[n - 1] : upto[n][k] = upto[n - 1][k]
             /\ ~mask[n] => upto[n] = upto[n - 1] /\ c[n] = c[n - 1]
  <2>1. n - 1 \in 0 .. M /\ n \in 0 .. M /\ n \in Nat
    BY <1>2
  <2>2. c[n] = Len(upto[n]) /\ c[n - 1] = Len(upto[n - 1]) /\ upto[n - 1] \in Seq(Nat)
    BY <1>3, <2>1
  <2>3. upto[n] = IF mask[n] THEN Append(upto[n - 1], n) ELSE upto[n - 1]
    BY <1>1
  <2> HIDE DEF c
  <2>4. ASSUME mask[n]
        PROVE  /\ c[n] = c[n - 1] + 1 /\ upto[n][c[n]] = n
               /\ \A k \in 1 .. c[n - 1] : upto[n][k] = upto[n - 1][k]
    <3>1. upto[n] = Append(upto[n - 1], n)
      BY <2>3, <2>4
    <3>2. /\ Len(Append(upto[n - 1], n)) = Len(upto[n - 1]) + 1
          /\ \A k \in 1 .. Len(upto[n - 1]) : Append(upto[n - 1], n)[k] = upto[n - 1][k]
          /\ Append(upto[n - 1], n)[Len(upto[n - 1]) + 1] = n
      BY <2>1, <2>2, AppendProperties
    <3> QED
      BY <2>2, <3>1, <3>2
  <2> QED
    BY <2>1, <2>2, <2>3, <2>4
<1> HIDE DEF c
<1>5. 0 \in G
  <2>1. 0 \in 0 .. M /\ c[0] = 0 /\ Len(upto[0]) = 0
    BY <1>1, <1>2, <1>3
  <2>2. Found(0)
    <3>1. \A t \in 0 .. 0 : t = 0
      OBVIOUS
    <3>2. \A t \in 0 .. 0 : c[t] \in 0 .. Len(upto[0])
      BY <2>1, <3>1
    <3> QED
      BY <2>1, <3>2
  <2> QED
    BY <2>2
<1>6. ASSUME NEW n \in G PROVE n + 1 \in G
  <2> SUFFICES ASSUME n + 1 \in 0 .. M PROVE Found(n + 1)
    OBVIOUS
  <2>1. PICK m \in 1 .. M : m = n + 1 /\ m - 1 = n
    BY <1>2
  <2>2. n \in 0 .. M /\ m \in 0 .. M /\ n \in Nat
    BY <1>2, <2>1
  <2>3. Found(n)
    BY <2>2
  <2>4. PICK a \in Nat : a = c[n] /\ a = Len(upto[n])
    BY <1>3, <2>2
  <2>5. PICK b \in Nat : b = c[m] /\ b = Len(upto[m])
    BY <1>3, <2>2
  <2>6. CASE mask[m]
    <3>1. b = a + 1 /\ upto[m][b] = m /\ \A k \in 1 .. a : upto[m][k] = upto[n][k]
      <4>1. /\ c[m] = c[m - 1] + 1 /\ upto[m][c[m]] = m
            /\ \A k \in 1 .. c[m - 1] : upto[m][k] = upto[m - 1][k]
        BY <1>4, <2>6
      <4>2. c[m - 1] = a /\ upto[m - 1] = upto[n]
        BY <2>1, <2>4
      <4> QED
        BY <2>5, <4>1, <4>2
    <3>2. \A t \in 0 .. m : c[t] \in 0 .. b
      <4> SUFFICES ASSUME NEW t \in 0 .. m PROVE c[t] \in 0 .. b
        OBVIOUS
      <4>1. CASE t = m
        <5>1. c[t] = b
          BY <2>5, <4>1, Zenon
        <5>2. b \in 0 .. b
          BY <2>5
        <5> QED
          BY <5>1, <5>2, Zenon
      <4>2. CASE t # m
        <5>1. t \in 0 .. n
          BY <2>1, <4>2
        <5>2. c[t] \in 0 .. a
          BY <2>3, <2>4, <5>1
        <5> QED
          BY <3>1, <5>2
      <4> QED
        BY <4>1, <4>2
    <3>3. \A t \in 1 .. m : mask[t] => upto[m][c[t]] = t
      <4> SUFFICES ASSUME NEW t \in 1 .. m, mask[t] PROVE upto[m][c[t]] = t
        OBVIOUS
      <4>1. CASE t = m
        BY <2>5, <3>1, <4>1
      <4>2. CASE t # m
        <5>1. t \in 1 .. n /\ t \in 1 .. M /\ t - 1 \in 0 .. n /\ t \in 0 .. n /\ t - 1 \in 0 .. M
          BY <1>2, <2>1, <4>2
        <5>2. PICK k \in 0 .. a : k = c[t]
          BY <2>3, <2>4, <5>1
        <5>3. c[t] = c[t - 1] + 1 /\ c[t - 1] \in Nat
          BY <1>3, <1>4, <5>1
        <5>4. k \in 1 .. a
          BY <5>2, <5>3
        <5>5. upto[n][k] = t
          BY <2>3, <5>1, <5>2
        <5> QED
          BY <3>1, <5>2, <5>4, <5>5
      <4> QED
        BY <4>1, <4>2
    <3>4. \A k \in 1 .. b : upto[m][k] \in 1 .. m /\ mask[upto[m][k]] /\ c[upto[m][k]] = k
      <4> SUFFICES ASSUME NEW k \in 1 .. b
                   PROVE  upto[m][k] \in 1 .. m /\ mask[upto[m][k]] /\ c[upto[m][k]] = k
        OBVIOUS
      <4>1. CASE k = b
        <5>1. upto[m][k] = m /\ m \in 1 .. m /\ c[m] = k
          BY <2>1, <2>2, <2>5, <3>1, <4>1
        <5> QED
          BY <2>6, <5>1
      <4>2. CASE k # b
        <5>1. k \in 1 .. a
          BY <3>1, <4>2
        <5>2. upto[n][k] \in 1 .. n /\ mask[upto[n][k]] /\ c[upto[n][k]] = k
          BY <2>3, <2>4, <5>1
        <5>3. 1 .. n \subseteq 1 .. m
          BY <2>1, <2>2
        <5> QED
          BY <3>1, <5>1, <5>2, <5>3
      <4> QED
        BY <4>1, <4>2
    <3> QED
      BY <2>1, <2>5, <3>2, <3>3, <3>4
  <2>7. CASE ~mask[m]
    <3>1. b = a /\ upto[m] = upto[n]
      BY <1>4, <2>1, <2>4, <2>5, <2>7
    <3>2. \A t \in 0 .. m : c[t] \in 0 .. b
      <4> SUFFICES ASSUME NEW t \in 0 .. m PROVE c[t] \in 0 .. b
        OBVIOUS
      <4>1. CASE t = m
        <5>1. c[t] = b
          BY <2>5, <4>1, Zenon
        <5>2. b \in 0 .. b
          BY <2>5
        <5> QED
          BY <5>1, <5>2, Zenon
      <4>2. CASE t # m
        <5>1. t \in 0 .. n
          BY <2>1, <4>2
        <5> QED
          BY <2>3, <2>4, <3>1, <5>1
      <4> QED
        BY <4>1, <4>2
    <3>3. \A t \in 1 .. m : mask[t] => upto[m][c[t]] = t
      <4> SUFFICES ASSUME NEW t \in 1 .. m, mask[t] PROVE upto[m][c[t]] = t
        OBVIOUS
      <4>1. t \in 1 .. n
        <5>1. t # m
          BY <2>7
        <5> QED
          BY <2>1, <5>1
      <4> QED
        BY <2>3, <3>1, <4>1
    <3>4. \A k \in 1 .. b : upto[m][k] \in 1 .. m /\ mask[upto[m][k]] /\ c[upto[m][k]] = k
      <4>1. 1 .. n \subseteq 1 .. m
        BY <2>1, <2>2
      <4> QED
        BY <2>3, <2>4, <3>1, <4>1
    <3> QED
      BY <2>1, <2>5, <3>2, <3>3, <3>4
  <2> QED
    BY <2>6, <2>7
<1>7. Found(M)
  <2>1. G \in SUBSET Nat
    OBVIOUS
  <2>2. M \in 0 .. M
    BY <1>2
  <2> HIDE DEF G
  <2>3. G = Nat
    BY <1>5, <1>6, <2>1, Induction
  <2> QED
    BY <1>2, <2>2, <2>3 DEF G
<1>8. c \in [0 .. M -> 0 .. Len(toks)] /\ c[0] = 0 /\ c[M] = Len(toks) /\ toks \in Seq(Nat)
  <2>1. 0 \in 0 .. M /\ M \in 0 .. M /\ Len(upto[0]) = 0
    BY <1>1, <1>2
  <2> QED
    BY <1>1, <1>3, <1>7, <2>1 DEF c
<1>9. \A t \in 1 .. M :
        IF mask[t] THEN c[t] = c[t - 1] + 1 /\ toks[c[t]] = t ELSE c[t] = c[t - 1]
  BY <1>1, <1>4, <1>7
<1>10. \A k \in 1 .. Len(toks) : toks[k] \in 1 .. M /\ mask[toks[k]] /\ c[toks[k]] = k
  BY <1>1, <1>7
<1>11. CountsTokens(c, mask)
  BY <1>8, <1>9, <1>10 DEF CountsTokens, M, toks
<1> QED
  BY <1>11

(* f goes down the response, g down the response without observations.     *)
SameSteps(f, g, mask, step) ==
  LET toks == ModelTokens(mask) IN
  /\ f[Len(mask) + 1] = g[Len(toks) + 1]
  /\ \A t \in 1 .. Len(mask) : f[t] = IF mask[t] THEN step[<<t, f[t + 1]>>] ELSE f[t + 1]
  /\ \A k \in 1 .. Len(toks) : g[k] = step[<<toks[k], g[k + 1]>>]

(* A recursion down the response that passes over the observations takes   *)
(* at the tokens of the model the values of the recursion without them.    *)
LEMMA PassesOver ==
  ASSUME NEW mask \in Seq(BOOLEAN), NEW c, CountsTokens(c, mask), NEW step, NEW f, NEW g,
         SameSteps(f, g, mask, step)
  PROVE  \A k \in 1 .. Len(ModelTokens(mask)) : f[ModelTokens(mask)[k]] = g[k]
<1> DEFINE M == Len(mask)
           toks == ModelTokens(mask)
           K == Len(toks)
           G == {n \in Nat : n \in 0 .. M => f[M + 1 - n] = g[c[M - n] + 1]}
<1>1. M \in Nat /\ K \in Nat
  BY LenProperties DEF CountsTokens
<1>2. /\ c \in [0 .. M -> 0 .. K] /\ c[M] = K
      /\ \A t \in 1 .. M :
           IF mask[t] THEN c[t] = c[t - 1] + 1 /\ toks[c[t]] = t ELSE c[t] = c[t - 1]
      /\ \A k \in 1 .. K : toks[k] \in 1 .. M /\ mask[toks[k]] /\ c[toks[k]] = k
  BY DEF CountsTokens
<1> HIDE DEF M, toks, K
<1>3. 0 \in G
  <2>1. M + 1 - 0 = M + 1 /\ M - 0 = M
    BY <1>1
  <2> QED
    BY <1>2, <2>1 DEF M, K, toks, SameSteps
<1>4. ASSUME NEW n \in G PROVE n + 1 \in G
  <2> SUFFICES ASSUME n + 1 \in 0 .. M
               PROVE  f[M + 1 - (n + 1)] = g[c[M - (n + 1)] + 1]
    OBVIOUS
  <2>1. PICK t \in 1 .. M : t = M + 1 - (n + 1) /\ t + 1 = M + 1 - n /\ t = M - n
                            /\ t - 1 = M - (n + 1) /\ t - 1 \in 0 .. M
    BY <1>1
  <2>2. n \in 0 .. M
    BY <1>1
  <2>3. f[t + 1] = g[c[t] + 1]
    BY <2>1, <2>2
  <2>4. PICK a \in Nat : a = c[t - 1]
    BY <1>2, <2>1
  <2>5. f[t] = IF mask[t] THEN step[<<t, f[t + 1]>>] ELSE f[t + 1]
    BY DEF M, SameSteps
  <2>6. CASE mask[t]
    <3>1. c[t] = a + 1 /\ toks[a + 1] = t
      BY <1>2, <2>4, <2>6
    <3>2. a + 1 \in 1 .. K
      <4>1. c[t] \in 0 .. K
        BY <1>1, <1>2
      <4> QED
        BY <1>1, <2>4, <3>1, <4>1
    <3>3. g[a + 1] = step[<<t, g[(a + 1) + 1]>>]
      BY <3>1, <3>2 DEF K, toks, SameSteps
    <3>4. f[t] = g[a + 1]
      BY <2>3, <2>5, <2>6, <3>1, <3>3
    <3> QED
      BY <2>1, <2>4, <3>4
  <2>7. CASE ~mask[t]
    <3>1. c[t] = a
      BY <1>2, <2>4, <2>7
    <3>2. f[t] = g[a + 1]
      BY <2>3, <2>5, <2>7, <3>1
    <3> QED
      BY <2>1, <2>4, <3>2
  <2> QED
    BY <2>6, <2>7
<1>5. G = Nat
  <2>1. G \in SUBSET Nat
    OBVIOUS
  <2> HIDE DEF G
  <2> QED
    BY <1>3, <1>4, <2>1, Induction
<1>6. ASSUME NEW k \in 1 .. K
      PROVE  f[toks[k]] = g[k]
  <2>1. PICK t \in 1 .. M : t = toks[k] /\ mask[t] /\ c[t] = k
    BY <1>2
  <2>2. PICK n \in Nat : n \in 0 .. M /\ M + 1 - n = t /\ M - n = t - 1 /\ t - 1 \in 0 .. M
    <3>1. M + 1 - t \in Nat /\ M + 1 - t \in 0 .. M /\ M + 1 - (M + 1 - t) = t
          /\ M - (M + 1 - t) = t - 1 /\ t - 1 \in 0 .. M
      BY <1>1
    <3> QED
      BY <3>1
  <2>3. f[t] = g[c[t - 1] + 1]
    BY <1>5, <2>2
  <2>4. c[t] = c[t - 1] + 1
    BY <1>2, <2>1
  <2> QED
    BY <2>1, <2>3, <2>4
<1> QED
  BY <1>6 DEF M, K, toks

(* The length of what is indexed from 1.                                   *)
LEMMA LengthOf ==
  ASSUME NEW s, NEW n \in Nat, DOMAIN s = 1 .. n
  PROVE  Len(s) = n
OBVIOUS

(* A response without its observations, and the mask that is left.         *)
LEMMA WithoutObservations ==
  ASSUME NEW mask \in Seq(BOOLEAN), NEW c, CountsTokens(c, mask)
  PROVE  LET toks == ModelTokens(mask)
             all == [k \in DOMAIN toks |-> TRUE]
         IN /\ DOMAIN toks = 1 .. Len(toks) /\ Len(toks) \in Nat
            /\ all \in Seq(BOOLEAN) /\ Len(all) = Len(toks)
            /\ DOMAIN all = 1 .. Len(toks) /\ \A k \in 1 .. Len(toks) : all[k] = TRUE
            /\ \A s : /\ DOMAIN Without(s, mask) = 1 .. Len(toks)
                      /\ Len(Without(s, mask)) = Len(toks)
                      /\ \A k \in 1 .. Len(toks) : Without(s, mask)[k] = s[toks[k]]
<1> DEFINE toks == ModelTokens(mask)
           all == [k \in DOMAIN toks |-> TRUE]
<1>1. DOMAIN toks = 1 .. Len(toks) /\ Len(toks) \in Nat
  BY LenProperties DEF CountsTokens
<1> HIDE DEF toks
<1>2. all \in Seq(BOOLEAN) /\ Len(all) = Len(toks) /\ DOMAIN all = 1 .. Len(toks)
  <2>1. all \in [1 .. Len(toks) -> BOOLEAN]
    BY <1>1
  <2> HIDE DEF all
  <2> QED
    BY <1>1, <2>1, SeqDef, LengthOf
<1>3. ASSUME NEW s
      PROVE  /\ DOMAIN Without(s, mask) = 1 .. Len(toks)
             /\ Len(Without(s, mask)) = Len(toks)
             /\ \A k \in 1 .. Len(toks) : Without(s, mask)[k] = s[toks[k]]
  <2> DEFINE w == Without(s, mask)
  <2>1. w = [k \in 1 .. Len(toks) |-> s[toks[k]]]
    BY <1>1 DEF Without, toks
  <2>2. DOMAIN w = 1 .. Len(toks) /\ \A k \in 1 .. Len(toks) : w[k] = s[toks[k]]
    BY <2>1
  <2> HIDE DEF w
  <2>3. Len(w) = Len(toks)
    BY <1>1, <2>2, LengthOf
  <2> QED
    BY <2>2, <2>3 DEF w
<1>4. \A k \in 1 .. Len(toks) : all[k] = TRUE
  BY <1>1
<1> QED
  BY <1>1, <1>2, <1>3, <1>4 DEF toks

(* The generalized advantage estimate of one token, from that of the next. *)
Estimates == [next : Int, advantage : Int]
NoEstimate == [next |-> 0, advantage |-> 0]
GaeToken(reward, value, gamma, lam, t, x) ==
  [next |-> value[t],
   advantage |-> reward[t] + gamma * x.next - value[t] + gamma * lam * x.advantage]

GaeFrom(f, reward, value, mask, gamma, lam) ==
  /\ f \in [1 .. Len(mask) + 1 -> Estimates]
  /\ f[Len(mask) + 1] = NoEstimate
  /\ \A t \in 1 .. Len(mask) :
       f[t] = IF mask[t] THEN GaeToken(reward, value, gamma, lam, t, f[t + 1]) ELSE f[t + 1]
  /\ Gae(reward, value, mask, gamma, lam) = [t \in 1 .. Len(mask) |-> f[t].advantage]

LEMMA GaeTokenType ==
  ASSUME NEW D, NEW reward \in [D -> Int], NEW value \in [D -> Int], NEW gamma \in Int,
         NEW lam \in Int, NEW t \in D, NEW x \in Estimates
  PROVE  GaeToken(reward, value, gamma, lam, t, x) \in Estimates
<1>1. x.next \in Int /\ x.advantage \in Int
  BY DEF Estimates
<1>2. PICK r \in Int, v \in Int, n \in Int, a \in Int :
        r = reward[t] /\ v = value[t] /\ n = x.next /\ a = x.advantage
  BY <1>1
<1>3. gamma * n \in Int /\ gamma * lam * a \in Int
  OBVIOUS
<1>4. PICK y \in Int, z \in Int : y = gamma * n /\ z = gamma * lam * a
  BY <1>3
<1>5. r + y - v + z \in Int
  BY <1>2, <1>4
<1> QED
  BY <1>2, <1>4, <1>5 DEF GaeToken, Estimates

LEMMA GaeExists ==
  ASSUME NEW mask \in Seq(BOOLEAN), NEW reward \in [1 .. Len(mask) -> Int],
         NEW value \in [1 .. Len(mask) -> Int], NEW gamma \in Int, NEW lam \in Int
  PROVE  \E f : GaeFrom(f, reward, value, mask, gamma, lam)
<1> DEFINE M == Len(mask)
           token(t, x) == GaeToken(reward, value, gamma, lam, t, x)
           step == [p \in (1 .. M) \X Estimates |-> IF mask[p[1]] THEN token(p[1], p[2]) ELSE p[2]]
           Is(f) == f = [t \in 1 .. M + 1 |->
                           IF t > M THEN [next |-> 0, advantage |-> 0]
                           ELSE IF ~mask[t] THEN f[t + 1]
                           ELSE [next |-> value[t],
                                 advantage |-> reward[t] + gamma * f[t + 1].next - value[t]
                                               + gamma * lam * f[t + 1].advantage]]
           from == CHOOSE f : Is(f)
<1>1. M \in Nat /\ DOMAIN mask = 1 .. M
  BY LenProperties
<1>2. step \in [(1 .. M) \X Estimates -> Estimates]
  <2>1. \A t \in 1 .. M, x \in Estimates : token(t, x) \in Estimates
    BY GaeTokenType
  <2> HIDE DEF token
  <2> QED
    BY <2>1
<1>3. \A t \in 1 .. M, x \in Estimates :
        step[<<t, x>>] = IF mask[t] THEN token(t, x) ELSE x
  <2> HIDE DEF token
  <2> QED
    OBVIOUS
<1>4. NoEstimate \in Estimates
  BY DEF NoEstimate, Estimates
<1> HIDE DEF step
<1>5. PICK f \in [1 .. M + 1 -> Estimates] : Downwards(f, NoEstimate, M, step)
  <2> HIDE DEF M
  <2> QED
    BY <1>1, <1>2, <1>4, DownwardsExists
<1>6. ASSUME NEW t \in 1 .. M
      PROVE  f[t] = IF mask[t] THEN token(t, f[t + 1]) ELSE f[t + 1]
  <2>1. t \in 1 .. M + 1 /\ t + 1 \in 1 .. M + 1 /\ ~(t > M)
    BY <1>1
  <2>2. f[t + 1] \in Estimates
    BY <2>1
  <2>3. f[t] = step[<<t, f[t + 1]>>]
    BY <1>5, <2>1 DEF Downwards
  <2> HIDE DEF token, M
  <2> QED
    BY <1>3, <2>2, <2>3
<1>7. M + 1 \in 1 .. M + 1 /\ M + 1 > M /\ f[M + 1] = NoEstimate
  BY <1>1, <1>5 DEF Downwards
<1>8. \A t \in 1 .. M + 1 : t > M \/ t \in 1 .. M
  BY <1>1
<1>9. \A t \in 1 .. M + 1 : t > M => t = M + 1
  BY <1>1
<1>10. Is(f)
  <2>1. \A t \in 1 .. M + 1 :
          f[t] = IF t > M THEN NoEstimate ELSE IF ~mask[t] THEN f[t + 1] ELSE token(t, f[t + 1])
    <3> HIDE DEF token, M
    <3> QED
      BY <1>6, <1>7, <1>8, <1>9
  <2>2. f = [t \in 1 .. M + 1 |->
               IF t > M THEN NoEstimate ELSE IF ~mask[t] THEN f[t + 1] ELSE token(t, f[t + 1])]
    <3> HIDE DEF token, M
    <3> QED
      BY <1>5, <2>1
  <2> QED
    BY <2>2, Zenon DEF NoEstimate, GaeToken
<1>11. Is(from)
  BY <1>10
<1>12. Gae(reward, value, mask, gamma, lam) = [t \in 1 .. M |-> from[t].advantage]
  BY <1>1, Zenon DEF Gae
<1> HIDE DEF from
<1>13. from[M + 1] = NoEstimate
  BY <1>7, <1>11 DEF NoEstimate
<1>14. ASSUME NEW t \in 1 .. M
       PROVE  from[t] = IF mask[t] THEN token(t, from[t + 1]) ELSE from[t + 1]
  <2>1. t \in 1 .. M + 1 /\ ~(t > M)
    BY <1>1
  <2> QED
    BY <1>11, <2>1, Zenon DEF GaeToken
<1>15. from \in [1 .. M + 1 -> Estimates]
  <2>1. from = [t \in 1 .. M + 1 |-> from[t]]
    BY <1>11
  <2>2. ASSUME NEW t \in 1 .. M, from[t + 1] \in Estimates
        PROVE  from[t] \in Estimates
    <3>1. token(t, from[t + 1]) \in Estimates
      BY <2>2, GaeTokenType
    <3> HIDE DEF token, M
    <3> QED
      BY <1>14, <2>2, <3>1
  <2> HIDE DEF M, token
  <2> QED
    BY <1>1, <1>4, <1>13, <2>1, <2>2, DownwardsType
<1>16. GaeFrom(from, reward, value, mask, gamma, lam)
  BY <1>12, <1>13, <1>14, <1>15, Zenon DEF GaeFrom
<1> QED
  BY <1>16

(* The estimate of every token of the model is that of the response        *)
(* without the observations, for all values and coefficients.              *)
LEMMA GaePassesOver ==
  ASSUME NEW mask \in Seq(BOOLEAN), NEW reward \in [DOMAIN mask -> Int],
         NEW value \in [DOMAIN mask -> Int], NEW gamma \in Int, NEW lam \in Int
  PROVE  LET all == [k \in DOMAIN ModelTokens(mask) |-> TRUE] IN
         Without(Gae(reward, value, mask, gamma, lam), mask)
           = Gae(Without(reward, mask), Without(value, mask), all, gamma, lam)
<1> DEFINE toks == ModelTokens(mask)
           K == Len(toks)
           M == Len(mask)
           all == [k \in DOMAIN toks |-> TRUE]
           r2 == Without(reward, mask)
           v2 == Without(value, mask)
           one == Gae(reward, value, mask, gamma, lam)
           two == Gae(r2, v2, all, gamma, lam)
<1>1. PICK c : CountsTokens(c, mask)
  BY TokensCounted
<1>2. M \in Nat /\ DOMAIN mask = 1 .. M
  BY LenProperties
<1>3. \A k \in 1 .. K : toks[k] \in 1 .. M
  BY <1>1 DEF CountsTokens
<1>4. /\ DOMAIN toks = 1 .. K /\ K \in Nat
      /\ all \in Seq(BOOLEAN) /\ Len(all) = K
      /\ \A k \in 1 .. K : all[k] = TRUE
      /\ \A s : /\ DOMAIN Without(s, mask) = 1 .. K
                /\ Len(Without(s, mask)) = K
                /\ \A k \in 1 .. K : Without(s, mask)[k] = s[toks[k]]
  BY <1>1, WithoutObservations
<1>5. ASSUME NEW s \in [1 .. M -> Int]
      PROVE  Without(s, mask) \in [1 .. K -> Int]
  <2>1. Without(s, mask) = [k \in 1 .. K |-> s[toks[k]]]
    BY <1>4 DEF Without
  <2> HIDE DEF toks, K, M
  <2> QED
    BY <1>3, <2>1
<1>6. r2 \in [1 .. K -> Int] /\ v2 \in [1 .. K -> Int]
  BY <1>2, <1>5
<1>7. /\ \A k \in 1 .. K : r2[k] = reward[toks[k]] /\ v2[k] = value[toks[k]]
      /\ DOMAIN Without(one, mask) = 1 .. K
      /\ Without(one, mask) = [k \in 1 .. K |-> one[toks[k]]]
  BY <1>4 DEF Without
<1> HIDE DEF all, r2, v2, toks, K
<1>8. PICK f : GaeFrom(f, reward, value, mask, gamma, lam)
  BY <1>2, GaeExists
<1>9. PICK g : GaeFrom(g, r2, v2, all, gamma, lam)
  BY <1>4, <1>6, GaeExists
<1> DEFINE token(t, x) == GaeToken(reward, value, gamma, lam, t, x)
           step == [p \in (1 .. M) \X Estimates |-> token(p[1], p[2])]
<1>10. \A t \in 1 .. M, x \in Estimates : step[<<t, x>>] = token(t, x)
  <2> HIDE DEF token
  <2> QED
    OBVIOUS
<1>11. /\ f \in [1 .. M + 1 -> Estimates] /\ f[M + 1] = NoEstimate
       /\ \A t \in 1 .. M : f[t] = IF mask[t] THEN token(t, f[t + 1]) ELSE f[t + 1]
       /\ one = [t \in 1 .. M |-> f[t].advantage]
  BY <1>8, Zenon DEF GaeFrom
<1>12. /\ g \in [1 .. K + 1 -> Estimates] /\ g[K + 1] = NoEstimate
       /\ \A k \in 1 .. K :
            g[k] = IF all[k] THEN GaeToken(r2, v2, gamma, lam, k, g[k + 1]) ELSE g[k + 1]
       /\ two = [k \in 1 .. K |-> g[k].advantage]
  BY <1>4, <1>9, Zenon DEF GaeFrom
<1>13. ASSUME NEW k \in 1 .. K
       PROVE  g[k] = step[<<toks[k], g[k + 1]>>]
  <2>1. g[k] = GaeToken(r2, v2, gamma, lam, k, g[k + 1])
    BY <1>4, <1>12
  <2>2. k + 1 \in 1 .. K + 1
    BY <1>4
  <2>3. g[k + 1] \in Estimates
    BY <1>12, <2>2
  <2>4. GaeToken(r2, v2, gamma, lam, k, g[k + 1]) = token(toks[k], g[k + 1])
    BY <1>7, Zenon DEF GaeToken
  <2> HIDE DEF step, token
  <2> QED
    BY <1>3, <1>10, <2>1, <2>3, <2>4
<1>14. ASSUME NEW t \in 1 .. M
       PROVE  f[t] = IF mask[t] THEN step[<<t, f[t + 1]>>] ELSE f[t + 1]
  <2>1. t + 1 \in 1 .. M + 1
    BY <1>2
  <2>2. f[t + 1] \in Estimates
    BY <1>11, <2>1
  <2> HIDE DEF step, token, M
  <2> QED
    BY <1>10, <1>11, <2>2
<1> HIDE DEF step, token, M, one, two
<1>15. \A k \in 1 .. K : f[toks[k]] = g[k]
  <2>1. SameSteps(f, g, mask, step)
    BY <1>11, <1>12, <1>13, <1>14, Zenon DEF SameSteps, M, K, toks
  <2> QED
    BY <1>1, <2>1, PassesOver DEF K, toks
<1>16. \A k \in 1 .. K : one[toks[k]] = f[toks[k]].advantage
  BY <1>3, <1>11
<1>17. Without(one, mask) = two
  BY <1>7, <1>12, <1>15, <1>16
<1> QED
  BY <1>17 DEF one, two, r2, v2, all, toks

(* The same for ReMax: what is credited to each token and those after it.  *)
Credit(t, reward, mask) == IF mask[t] THEN reward[t] ELSE 0

CreditFrom(f, reward, baseline, mask) ==
  /\ f \in [1 .. Len(mask) + 1 -> Int]
  /\ f[Len(mask) + 1] = 0
  /\ \A t \in 1 .. Len(mask) : f[t] = Credit(t, reward, mask) + f[t + 1]
  /\ ReMax(reward, baseline, mask)
       = [t \in 1 .. Len(mask) |-> f[t] - (IF mask[t] THEN baseline ELSE 0)]

LEMMA CreditExists ==
  ASSUME NEW mask \in Seq(BOOLEAN), NEW reward \in [1 .. Len(mask) -> Int], NEW baseline
  PROVE  \E f : CreditFrom(f, reward, baseline, mask)
<1> DEFINE M == Len(mask)
           credit(t) == Credit(t, reward, mask)
           step == [p \in (1 .. M) \X Int |-> credit(p[1]) + p[2]]
           Is(f) == f = [t \in 1 .. M + 1 |->
                           IF t > M THEN 0 ELSE (IF mask[t] THEN reward[t] ELSE 0) + f[t + 1]]
           from == CHOOSE f : Is(f)
<1>1. M \in Nat /\ DOMAIN mask = 1 .. M
  BY LenProperties
<1>2. \A t \in 1 .. M : credit(t) \in Int
  BY DEF Credit
<1>3. /\ step \in [(1 .. M) \X Int -> Int]
      /\ \A t \in 1 .. M, x \in Int : step[<<t, x>>] = credit(t) + x
  <2> HIDE DEF credit, M
  <2>1. \A t \in 1 .. M, x \in Int : credit(t) + x \in Int
    BY <1>2
  <2> QED
    BY <2>1
<1> HIDE DEF step
<1>4. PICK f \in [1 .. M + 1 -> Int] : Downwards(f, 0, M, step)
  <2>1. 0 \in Int
    OBVIOUS
  <2> HIDE DEF M
  <2> QED
    BY <1>1, <1>3, <2>1, DownwardsExists
<1>5. \A t \in 1 .. M + 1 : f[t] = IF t > M THEN 0 ELSE credit(t) + f[t + 1]
  <2> SUFFICES ASSUME NEW t \in 1 .. M + 1
               PROVE  f[t] = IF t > M THEN 0 ELSE credit(t) + f[t + 1]
    OBVIOUS
  <2>1. f[t] = IF t > M THEN 0 ELSE step[<<t, f[t + 1]>>]
    BY <1>4 DEF Downwards
  <2>2. ~(t > M) => t \in 1 .. M /\ t + 1 \in 1 .. M + 1
    BY <1>1
  <2>3. ~(t > M) => f[t + 1] \in Int
    BY <1>4, <2>2
  <2> HIDE DEF credit, M
  <2> QED
    BY <1>3, <2>1, <2>2, <2>3
<1>6. Is(f)
  <2>1. f = [t \in 1 .. M + 1 |-> IF t > M THEN 0 ELSE credit(t) + f[t + 1]]
    <3> HIDE DEF credit, M
    <3> QED
      BY <1>4, <1>5
  <2> QED
    BY <2>1, Zenon DEF Credit
<1>7. Is(from)
  BY <1>6
<1>8. ReMax(reward, baseline, mask)
        = [t \in 1 .. M |-> from[t] - (IF mask[t] THEN baseline ELSE 0)]
  BY <1>1, Zenon DEF ReMax
<1> HIDE DEF from
<1>9. from[M + 1] = 0
  <2>1. M + 1 \in 1 .. M + 1 /\ M + 1 > M
    BY <1>1
  <2> QED
    BY <1>7, <2>1
<1>10. ASSUME NEW t \in 1 .. M
       PROVE  from[t] = credit(t) + from[t + 1]
  <2>1. t \in 1 .. M + 1 /\ ~(t > M)
    BY <1>1
  <2> QED
    BY <1>7, <2>1, Zenon DEF Credit
<1>11. from \in [1 .. M + 1 -> Int]
  <2>1. from = [t \in 1 .. M + 1 |-> from[t]]
    BY <1>7
  <2>2. ASSUME NEW t \in 1 .. M, from[t + 1] \in Int
        PROVE  from[t] \in Int
    <3> HIDE DEF credit, M
    <3> QED
      BY <1>2, <1>10, <2>2
  <2>3. from[M + 1] \in Int
    BY <1>9
  <2> HIDE DEF M
  <2> QED
    BY <1>1, <2>1, <2>2, <2>3, DownwardsType
<1>12. CreditFrom(from, reward, baseline, mask)
  BY <1>8, <1>9, <1>10, <1>11, Zenon DEF CreditFrom
<1> QED
  BY <1>12

LEMMA ReMaxPassesOver ==
  ASSUME NEW mask \in Seq(BOOLEAN), NEW reward \in [DOMAIN mask -> Int], NEW baseline
  PROVE  LET all == [k \in DOMAIN ModelTokens(mask) |-> TRUE] IN
         Without(ReMax(reward, baseline, mask), mask)
           = ReMax(Without(reward, mask), baseline, all)
<1> DEFINE toks == ModelTokens(mask)
           K == Len(toks)
           M == Len(mask)
           all == [k \in DOMAIN toks |-> TRUE]
           r2 == Without(reward, mask)
           one == ReMax(reward, baseline, mask)
           two == ReMax(r2, baseline, all)
<1>1. PICK c : CountsTokens(c, mask)
  BY TokensCounted
<1>2. M \in Nat /\ DOMAIN mask = 1 .. M
  BY LenProperties
<1>3. \A k \in 1 .. K : toks[k] \in 1 .. M /\ mask[toks[k]]
  BY <1>1 DEF CountsTokens
<1>4. /\ DOMAIN toks = 1 .. K /\ K \in Nat
      /\ all \in Seq(BOOLEAN) /\ Len(all) = K
      /\ \A k \in 1 .. K : all[k] = TRUE
      /\ \A s : /\ DOMAIN Without(s, mask) = 1 .. K
                /\ Len(Without(s, mask)) = K
                /\ \A k \in 1 .. K : Without(s, mask)[k] = s[toks[k]]
  BY <1>1, WithoutObservations
<1>5. r2 \in [1 .. K -> Int] /\ \A k \in 1 .. K : r2[k] = reward[toks[k]]
  <2>1. r2 = [k \in 1 .. K |-> reward[toks[k]]]
    BY <1>4 DEF Without
  <2> HIDE DEF toks, K, M, r2
  <2> QED
    BY <1>2, <1>3, <2>1
<1>6. Without(one, mask) = [k \in 1 .. K |-> one[toks[k]]]
  BY <1>4 DEF Without
<1> HIDE DEF all, r2, toks, K
<1>7. PICK f : CreditFrom(f, reward, baseline, mask)
  BY <1>2, CreditExists
<1>8. PICK g : CreditFrom(g, r2, baseline, all)
  BY <1>4, <1>5, CreditExists
<1> DEFINE step == [p \in (1 .. M) \X Int |-> reward[p[1]] + p[2]]
<1>9. \A t \in 1 .. M, x \in Int : step[<<t, x>>] = reward[t] + x
  OBVIOUS
<1>10. /\ f \in [1 .. M + 1 -> Int] /\ f[M + 1] = 0
       /\ \A t \in 1 .. M : f[t] = Credit(t, reward, mask) + f[t + 1]
       /\ one = [t \in 1 .. M |-> f[t] - (IF mask[t] THEN baseline ELSE 0)]
  BY <1>7, Zenon DEF CreditFrom
<1>11. /\ g \in [1 .. K + 1 -> Int] /\ g[K + 1] = 0
       /\ \A k \in 1 .. K : g[k] = Credit(k, r2, all) + g[k + 1]
       /\ two = [k \in 1 .. K |-> g[k] - (IF all[k] THEN baseline ELSE 0)]
  BY <1>4, <1>8, Zenon DEF CreditFrom
<1> HIDE DEF step, M, one, two
<1>12. ASSUME NEW k \in 1 .. K
       PROVE  g[k] = step[<<toks[k], g[k + 1]>>]
  <2>1. k + 1 \in 1 .. K + 1
    BY <1>4
  <2>2. g[k + 1] \in Int
    BY <1>11, <2>1
  <2>3. g[k] = reward[toks[k]] + g[k + 1]
    BY <1>4, <1>5, <1>11 DEF Credit
  <2> QED
    BY <1>3, <1>9, <2>2, <2>3
<1>13. ASSUME NEW t \in 1 .. M
       PROVE  f[t] = IF mask[t] THEN step[<<t, f[t + 1]>>] ELSE f[t + 1]
  <2>1. t + 1 \in 1 .. M + 1
    BY <1>2
  <2>2. f[t + 1] \in Int
    BY <1>10, <2>1
  <2>3. CASE mask[t]
    BY <1>9, <1>10, <2>2, <2>3 DEF Credit
  <2>4. CASE ~mask[t]
    <3>1. f[t] = 0 + f[t + 1]
      BY <1>10, <2>4 DEF Credit
    <3> QED
      BY <2>2, <2>4, <3>1
  <2> QED
    BY <2>3, <2>4
<1>14. \A k \in 1 .. K : f[toks[k]] = g[k]
  <2>1. SameSteps(f, g, mask, step)
    BY <1>10, <1>11, <1>12, <1>13, Zenon DEF SameSteps, M, K, toks
  <2> QED
    BY <1>1, <2>1, PassesOver DEF K, toks
<1>15. \A k \in 1 .. K : one[toks[k]] = f[toks[k]] - baseline
  BY <1>3, <1>10
<1>16. \A k \in 1 .. K : two[k] = g[k] - baseline
  BY <1>4, <1>11
<1>17. two = [k \in 1 .. K |-> two[k]]
  BY <1>11
<1>18. Without(one, mask) = two
  BY <1>6, <1>14, <1>15, <1>16, <1>17
<1> QED
  BY <1>18 DEF one, two, r2, all, toks

(* REINFORCE++ on the last token, which it gives its reward alone.         *)
LEMMA ReturnExists ==
  ASSUME NEW mask \in Seq(BOOLEAN), Len(mask) # 0, NEW reward \in [1 .. Len(mask) -> Int],
         NEW gamma \in Int
  PROVE  ReinforcePlusPlus(reward, mask, gamma)[Len(mask)] = reward[Len(mask)] + gamma * 0
<1> DEFINE M == Len(mask)
           step == [p \in (1 .. M) \X Int |->
                      reward[p[1]] + gamma * (IF p[1] < M /\ mask[p[1] + 1] THEN p[2] ELSE 0)]
           Is(f) == f = [t \in 1 .. M + 1 |->
                           IF t > M THEN 0
                           ELSE reward[t] + gamma * (IF t < M /\ mask[t + 1] THEN f[t + 1] ELSE 0)]
           from == CHOOSE f : Is(f)
<1>1. M \in Nat /\ DOMAIN mask = 1 .. M
  BY LenProperties
<1>2. /\ step \in [(1 .. M) \X Int -> Int]
      /\ \A t \in 1 .. M, x \in Int :
           step[<<t, x>>] = reward[t] + gamma * (IF t < M /\ mask[t + 1] THEN x ELSE 0)
  <2>1. \A t \in 1 .. M, x \in Int :
          reward[t] + gamma * (IF t < M /\ mask[t + 1] THEN x ELSE 0) \in Int
    <3> SUFFICES ASSUME NEW t \in 1 .. M, NEW x \in Int
                 PROVE  reward[t] + gamma * (IF t < M /\ mask[t + 1] THEN x ELSE 0) \in Int
      OBVIOUS
    <3>1. PICK y \in Int : y = IF t < M /\ mask[t + 1] THEN x ELSE 0
      OBVIOUS
    <3>2. PICK z \in Int : z = gamma * y
      OBVIOUS
    <3> QED
      BY <3>1, <3>2
  <2> HIDE DEF M
  <2> QED
    BY <2>1
<1> HIDE DEF step
<1>3. PICK f \in [1 .. M + 1 -> Int] : Downwards(f, 0, M, step)
  <2>1. 0 \in Int
    OBVIOUS
  <2> HIDE DEF M
  <2> QED
    BY <1>1, <1>2, <2>1, DownwardsExists
<1>4. \A t \in 1 .. M + 1 :
        f[t] = IF t > M THEN 0
               ELSE reward[t] + gamma * (IF t < M /\ mask[t + 1] THEN f[t + 1] ELSE 0)
  <2> SUFFICES ASSUME NEW t \in 1 .. M + 1, ~(t > M)
               PROVE  f[t] = reward[t] + gamma * (IF t < M /\ mask[t + 1] THEN f[t + 1] ELSE 0)
    BY <1>3 DEF Downwards
  <2>1. f[t] = step[<<t, f[t + 1]>>]
    BY <1>3 DEF Downwards
  <2>2. t \in 1 .. M /\ t + 1 \in 1 .. M + 1
    BY <1>1
  <2>3. f[t + 1] \in Int
    BY <1>3, <2>2
  <2> HIDE DEF M
  <2> QED
    BY <1>2, <2>1, <2>2, <2>3, Zenon
<1>5. Is(f)
  <2> HIDE DEF M
  <2> QED
    BY <1>3, <1>4
<1>6. Is(from)
  BY <1>5
<1>7. ReinforcePlusPlus(reward, mask, gamma) = [t \in 1 .. M |-> from[t]]
  BY <1>1, Zenon DEF ReinforcePlusPlus
<1> HIDE DEF from
<1>8. M \in 1 .. M /\ M \in 1 .. M + 1 /\ ~(M > M) /\ ~(M < M)
  BY <1>1
<1>9. from[M] = reward[M] + gamma * 0
  <2> HIDE DEF M
  <2> QED
    BY <1>6, <1>8, Zenon
<1> QED
  BY <1>7, <1>8, <1>9

LEMMA LastTokenReturn ==
  ASSUME NEW mask \in Seq(BOOLEAN), Len(mask) # 0, mask[Len(mask)],
         NEW reward \in [DOMAIN mask -> Int], NEW gamma \in Int
  PROVE  LET all == [k \in DOMAIN ModelTokens(mask) |-> TRUE] IN
         ReinforcePlusPlus(reward, mask, gamma)[Len(mask)]
           = Last(ReinforcePlusPlus(Without(reward, mask), all, gamma))
<1> DEFINE toks == ModelTokens(mask)
           K == Len(toks)
           M == Len(mask)
           all == [k \in DOMAIN toks |-> TRUE]
           r2 == Without(reward, mask)
           two == ReinforcePlusPlus(r2, all, gamma)
<1>1. PICK c : CountsTokens(c, mask)
  BY TokensCounted
<1>2. M \in Nat /\ DOMAIN mask = 1 .. M /\ M \in 1 .. M
  BY LenProperties
<1>3. \A k \in 1 .. K : toks[k] \in 1 .. M
  BY <1>1 DEF CountsTokens
<1>4. /\ DOMAIN toks = 1 .. K /\ K \in Nat
      /\ all \in Seq(BOOLEAN) /\ Len(all) = K /\ DOMAIN all = 1 .. K
      /\ \A s : \A k \in 1 .. K : Without(s, mask)[k] = s[toks[k]]
  BY <1>1, WithoutObservations
<1>5. K # 0 /\ toks[K] = M
  <2>1. c[M] = K /\ c[M] = c[M - 1] + 1 /\ toks[c[M]] = M /\ c[M - 1] \in 0 .. K
    <3>1. M - 1 \in 0 .. M
      BY <1>2
    <3> QED
      BY <1>1, <1>2, <3>1 DEF CountsTokens
  <2> QED
    BY <1>4, <2>1
<1>6. r2 \in [1 .. K -> Int] /\ \A k \in 1 .. K : r2[k] = reward[toks[k]]
  <2>1. r2 = [k \in 1 .. K |-> reward[toks[k]]]
    BY <1>4 DEF Without
  <2> HIDE DEF toks, K, M, r2
  <2> QED
    BY <1>2, <1>3, <2>1
<1>7. K \in 1 .. K
  BY <1>4, <1>5
<1> HIDE DEF all, r2, toks, K
<1>8. two[K] = r2[K] + gamma * 0
  BY <1>4, <1>5, <1>6, ReturnExists
<1>9. DOMAIN two = 1 .. K
  BY <1>4 DEF ReinforcePlusPlus
<1>10. Last(two) = two[K]
  <2> HIDE DEF two
  <2>1. Len(two) = K
    BY <1>4, <1>9, LengthOf
  <2> QED
    BY <2>1 DEF Last
<1>11. ReinforcePlusPlus(reward, mask, gamma)[M] = reward[M] + gamma * 0
  BY <1>2, ReturnExists
<1>12. r2[K] = reward[M]
  BY <1>5, <1>6, <1>7
<1> QED
  BY <1>8, <1>10, <1>11, <1>12, Zenon DEF two, r2, all, toks

(* What the tools returned earns no credit: for trajectories of any number *)
(* of calls, in every reachable state.                                     *)
THEOREM ObservationsGetNoCredit == Spec => []ObservationsInvisible
<1>1. ScoringInv => ObservationsInvisible
  <2> SUFFICES ASSUME ScoringInv, Len(trajs) = 1 PROVE ObservationsInvisible
    BY DEF ObservationsInvisible
  <2> DEFINE t1 == trajs[1]
             mask == Written(t1)
             all == [k \in DOMAIN ModelTokens(mask) |-> TRUE]
             reward == [t \in DOMAIN mask |-> IF t = Len(mask) THEN Score(t1) ELSE 0]
             n == Len(t1.calls)
  <2>1. t1 \in Trajectory /\ n \in Nat
    <3>1. 1 \in DOMAIN trajs
      BY LenProperties DEF ScoringInv, TypeInv
    <3>2. t1 \in Trajectory
      BY <3>1, ElementOfSeq, LenProperties DEF ScoringInv, TypeInv
    <3>3. t1.calls \in Seq(Outcomes)
      BY <3>2 DEF Trajectory
    <3> QED
      BY <3>2, <3>3, LenProperties
  <2>2. PICK m \in Nat : m = 2 * n + 1 /\ m # 0 /\ m % 2 = 1
    BY <2>1
  <2>3. mask = [k \in 1 .. m |-> k % 2 = 1]
    BY <2>2 DEF Written
  <2> HIDE DEF mask
  <2>4. DOMAIN mask = 1 .. m /\ Len(mask) = m /\ mask \in Seq(BOOLEAN)
    <3>1. mask \in [1 .. m -> BOOLEAN] /\ DOMAIN mask = 1 .. m
      BY <2>3
    <3>2. Len(mask) = m
      BY <2>2, <3>1, LengthOf
    <3>3. mask \in Seq(BOOLEAN)
      BY <2>2, <3>1, SeqDef
    <3> QED
      BY <3>1, <3>2, <3>3
  <2>5. mask[m]
    <3>1. m \in 1 .. m
      BY <2>2
    <3>2. mask[m] = (m % 2 = 1)
      BY <2>3, <3>1, Zenon
    <3>3. m % 2 = 1
      BY <2>2
    <3> HIDE DEF mask
    <3> QED
      BY <3>2, <3>3
  <2>6. Score(t1) \in Int
    BY DEF Score, Clamp, When
  <2>7. reward \in [DOMAIN mask -> Int]
    <3> HIDE DEF t1
    <3> QED
      BY <2>6
  <2> HIDE DEF reward, all
  <2>8. ASSUME NEW value \in [DOMAIN mask -> {0, 7}], NEW gamma \in {1, 2}
        PROVE  /\ Without(Gae(reward, value, mask, gamma, 3), mask)
                    = Gae(Without(reward, mask), Without(value, mask), all, gamma, 3)
               /\ Without(ReMax(reward, value[1], mask), mask)
                    = ReMax(Without(reward, mask), value[1], all)
               /\ ReinforcePlusPlus(reward, mask, gamma)[Len(mask)]
                    = Last(ReinforcePlusPlus(Without(reward, mask), all, gamma))
    <3>1. value \in [DOMAIN mask -> Int] /\ gamma \in Int /\ 3 \in Int
      OBVIOUS
    <3>2. /\ Without(Gae(reward, value, mask, gamma, 3), mask)
               = Gae(Without(reward, mask), Without(value, mask), all, gamma, 3)
      BY <2>4, <2>7, <3>1, GaePassesOver DEF all
    <3>3. Without(ReMax(reward, value[1], mask), mask) = ReMax(Without(reward, mask), value[1], all)
      BY <2>4, <2>7, ReMaxPassesOver DEF all
    <3>4. ReinforcePlusPlus(reward, mask, gamma)[Len(mask)]
            = Last(ReinforcePlusPlus(Without(reward, mask), all, gamma))
      BY <2>2, <2>4, <2>5, <2>7, <3>1, LastTokenReturn DEF all
    <3> QED
      BY <3>2, <3>3, <3>4
  <2> QED
    BY <2>8, Zenon DEF ObservationsInvisible, mask, all, reward, t1
<1> QED
  BY <1>1, ScoringTypes, PTL
=============================================================================
