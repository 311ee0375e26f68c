------------------------ MODULE ToolAgentLoopProofs ------------------------
(***************************************************************************)
(* Theorems about one trajectory of the tool agent, for every length of    *)
(* the prompt and of the response, every limit of turns and any number of  *)
(* tool calls; and, at the end, about the retrieval service its search     *)
(* tool asks, for every index, capacity of the cache and mix of clients.   *)
(***************************************************************************)
EXTENDS ToolAgentLoop, Retrieval, FiniteSetTheorems, SequenceTheorems, WellFoundedInduction, TLAPS

(* The origin of a token, its mask and its logprob go together.            *)
InStep(p, m, l) ==
  LET d == Len(p) - Len(m) IN
  /\ Len(m) <= Len(p) /\ Len(l) = Len(m)
  /\ \A i \in 1 .. d : p[i] = "prompt"
  /\ \A i \in 1 .. Len(m) : /\ p[d + i] # "prompt"
                            /\ p[d + i] = "model" <=> m[i] = 1
                            /\ l[i] = "lp" <=> m[i] = 1

(* The sequences of AgentData at every point of the loop; the prompt keeps *)
(* within its bound, and a tool is called after some token of the model.   *)
SplitInv ==
  /\ InStep(prompt_ids, response_mask, response_logprobs)
  /\ Len(prompt_ids) - Len(response_mask) <= PromptLength
  /\ state = "PENDING" => prompt_ids = <<>> /\ response_mask = <<>> /\ response_logprobs = <<>>
  /\ state = "PROCESSING_TOOLS" => Len(response_mask) > 0
  /\ state = "TERMINATED" /\ PartialRollout => Len(response_mask) > 0

(* An output is made once, at the end of the loop.                         *)
OutputInv ==
  /\ output.done => state = "TERMINATED"
  /\ PartialRollout \/ response_mask # <<>> => MaskMarksTheModel

-----------------------------------------------------------------------------
LEMMA TokensProperties ==
  ASSUME NEW S, NEW kind \in S, NEW n \in Nat
  PROVE  /\ Tokens(kind, n) \in Seq(S)
         /\ Len(Tokens(kind, n)) = n
         /\ DOMAIN Tokens(kind, n) = 1 .. n
         /\ \A i \in 1 .. n : Tokens(kind, n)[i] = kind
  BY DEF Tokens

(* t is s with n elements e after it.                                      *)
Extended(t, s, n, e) ==
  /\ Len(t) = Len(s) + n
  /\ \A i \in 1 .. Len(s) : t[i] = s[i]
  /\ \A i \in Len(s) + 1 .. Len(s) + n : t[i] = e

LEMMA TokensExtend ==
  ASSUME NEW S, NEW s \in Seq(S), NEW e \in S, NEW n \in Nat
  PROVE  s \o Tokens(e, n) \in Seq(S) /\ Extended(s \o Tokens(e, n), s, n, e)
<1> DEFINE t == s \o Tokens(e, n)
<1>1. /\ Tokens(e, n) \in Seq(S) /\ Len(Tokens(e, n)) = n /\ Len(s) \in Nat
      /\ \A i \in 1 .. n : Tokens(e, n)[i] = e
  BY TokensProperties, LenProperties
<1>2. /\ t \in Seq(S)
      /\ Len(t) = Len(s) + n
      /\ \A i \in 1 .. Len(s) + n : t[i] = IF i <= Len(s) THEN s[i] ELSE Tokens(e, n)[i - Len(s)]
  BY <1>1, ConcatProperties
<1> HIDE DEF t
<1>3. \A i \in 1 .. Len(s) : t[i] = s[i]
  <2>1. \A i \in 1 .. Len(s) : i <= Len(s) /\ i \in 1 .. Len(s) + n
    BY <1>1
  <2> QED
    BY <1>2, <2>1
<1>4. \A i \in Len(s) + 1 .. Len(s) + n : t[i] = e
  <2>1. \A i \in Len(s) + 1 .. Len(s) + n : i - Len(s) \in 1 .. n /\ ~(i <= Len(s))
                                            /\ i \in 1 .. Len(s) + n
    BY <1>1
  <2> QED
    BY <1>1, <1>2, <2>1
<1> QED
  BY <1>2, <1>3, <1>4 DEF Extended, t

Kinds == {"prompt", "model", "tool"}

(* Extending the three sequences alike keeps them in step.                 *)
LEMMA InStepExtended ==
  ASSUME NEW p \in Seq(Kinds), NEW m \in Seq({0, 1}), NEW l \in Seq({"lp", "0.0"}),
         InStep(p, m, l), NEW n \in Nat, NEW kind, NEW b, NEW lp,
         kind # "prompt", kind = "model" <=> b = 1, lp = "lp" <=> b = 1,
         NEW q, Extended(q, p, n, kind),
         NEW r, Extended(r, m, n, b),
         NEW k, Extended(k, l, n, lp)
  PROVE  InStep(q, r, k) /\ Len(q) - Len(r) = Len(p) - Len(m)
<1> DEFINE d == Len(p) - Len(m)
<1>1. /\ Len(q) = Len(p) + n
      /\ \A i \in 1 .. Len(p) : q[i] = p[i]
      /\ \A i \in Len(p) + 1 .. Len(p) + n : q[i] = kind
  BY DEF Extended
<1>2. /\ Len(r) = Len(m) + n
      /\ \A i \in 1 .. Len(m) : r[i] = m[i]
      /\ \A i \in Len(m) + 1 .. Len(m) + n : r[i] = b
  BY DEF Extended
<1>3. /\ Len(k) = Len(l) + n
      /\ \A i \in 1 .. Len(l) : k[i] = l[i]
      /\ \A i \in Len(l) + 1 .. Len(l) + n : k[i] = lp
  BY DEF Extended
<1>4. Len(p) \in Nat /\ Len(m) \in Nat /\ Len(l) = Len(m) /\ Len(m) <= Len(p)
  BY LenProperties DEF InStep
<1>5. Len(q) - Len(r) = d /\ Len(r) <= Len(q) /\ Len(k) = Len(r)
  BY <1>1, <1>2, <1>3, <1>4
<1>6. \A i \in 1 .. d : q[i] = "prompt"
  <2>1. \A i \in 1 .. d : i \in 1 .. Len(p)
    BY <1>4
  <2>2. \A i \in 1 .. d : p[i] = "prompt"
    BY DEF InStep
  <2> QED
    BY <1>1, <2>1, <2>2
<1>7. ASSUME NEW i \in 1 .. Len(r)
      PROVE  /\ q[d + i] # "prompt"
             /\ q[d + i] = "model" <=> r[i] = 1
             /\ k[i] = "lp" <=> r[i] = 1
  <2>1. CASE i \in 1 .. Len(m)
    <3>1. d + i \in 1 .. Len(p)
      BY <1>4, <2>1
    <3>2. q[d + i] = p[d + i] /\ r[i] = m[i] /\ k[i] = l[i]
      BY <1>1, <1>2, <1>3, <1>4, <2>1, <3>1
    <3> QED
      BY <2>1, <3>2 DEF InStep
  <2>2. CASE i \in Len(m) + 1 .. Len(m) + n
    <3>1. d + i \in Len(p) + 1 .. Len(p) + n
      BY <1>4, <2>2
    <3>2. q[d + i] = kind /\ r[i] = b /\ k[i] = lp
      BY <1>1, <1>2, <1>3, <1>4, <2>2, <3>1
    <3> QED
      BY <3>2
  <2> QED
    BY <1>2, <1>4, <2>1, <2>2
<1> HIDE DEF d
<1>8. InStep(q, r, k)
  BY <1>5, <1>6, <1>7 DEF InStep
<1> QED
  BY <1>5, <1>8 DEF d

-----------------------------------------------------------------------------
LEMMA LoopConstants ==
  /\ PromptLength \in Nat /\ PromptLength > 0 /\ ResponseLength \in Nat /\ ResponseLength > 0
  /\ MaxToolTokens \in Nat /\ MaxCalls \in Nat /\ MaxParallelCalls \in Nat
  /\ PartialRollout \in BOOLEAN
  BY LoopAssumption DEF LoopAssumption

(* The tokens of a generation: some number of them, none only without      *)
(* partial rollout.                                                        *)
LEMMA GeneratedTokens ==
  ASSUME LoopTypeOK, NEW n \in Lengths
  PROVE  /\ n \in Nat /\ (PartialRollout => n > 0)
         /\ Len(prompt_ids) < PromptLength + ResponseLength
              => Len(prompt_ids) + n <= PromptLength + ResponseLength
         /\ \A k \in ParsedCalls(n) : k \in Nat /\ k <= MaxCalls /\ (k # 0 => n > 0)
<1>1. Len(prompt_ids) \in Nat
  BY LenProperties DEF LoopTypeOK
<1>2. MaxTokens \in Nat
  BY <1>1, LoopConstants DEF MaxTokens, Most, Least
<1>3. Len(prompt_ids) < PromptLength + ResponseLength
        => Len(prompt_ids) + MaxTokens <= PromptLength + ResponseLength
  BY <1>1, LoopConstants DEF MaxTokens, Most, Least
<1>4. n \in Nat /\ n <= MaxTokens /\ (PartialRollout => n > 0)
  BY <1>2, LoopConstants DEF Lengths
<1>5. \A k \in ParsedCalls(n) : k \in Nat /\ k <= MaxCalls /\ (k # 0 => n > 0)
  BY <1>4, LoopConstants DEF ParsedCalls, Least
<1> HIDE DEF MaxTokens
<1> QED
  BY <1>1, <1>2, <1>3, <1>4, <1>5, LoopConstants

LEMMA LoopTypeInit == Init => LoopTypeOK
<1> SUFFICES ASSUME Init PROVE LoopTypeOK
  OBVIOUS
<1>1. /\ prompt_ids \in Seq(Kinds) /\ response_mask \in Seq({0, 1})
      /\ response_logprobs \in Seq({"lp", "0.0"})
      /\ calls \in Seq({"new", "open", "closing", "done"})
      /\ results \in Seq({"none"} \cup Outcomes) /\ Len(results) = Len(calls)
  BY EmptySeq DEF Init
<1> QED
  BY <1>1 DEF Init, LoopTypeOK, Kinds, NoMetrics, MetricsType, ExceptionTypes, NoOutput

(* The number of results of some kind.                                     *)
LEMMA NumberType ==
  ASSUME NEW S, NEW s \in Seq(S), NEW os
  PROVE  /\ IsFiniteSet({i \in DOMAIN s : s[i] \in os})
         /\ Number(s, os) \in Nat
<1>1. DOMAIN s = 1 .. Len(s) /\ Len(s) \in Nat
  BY LenProperties
<1>2. IsFiniteSet(DOMAIN s)
  BY <1>1, FS_Interval
<1>3. {i \in DOMAIN s : s[i] \in os} \in SUBSET (DOMAIN s)
  OBVIOUS
<1> QED
  BY <1>2, <1>3, FS_Subset, FS_CardinalityType DEF Number

(* Every non-empty set of numbers has a least one.                         *)
LEMMA Minimum ==
  ASSUME NEW T \in SUBSET Nat, T # {}
  PROVE  \E x \in T : \A y \in T : x <= y
<1>1. PICK x \in T : \A y \in T : ~ (<<y, x>> \in OpToRel(<, Nat))
  BY WFMin, NatLessThanWellFounded, Zenon
<1>2. \A y \in T : y < x => <<y, x>> \in OpToRel(<, Nat)
  BY Zenon DEF OpToRel
<1>3. \A y \in T : ~(y < x)
  BY <1>1, <1>2, Zenon
<1> QED
  BY <1>3

(* The exception type of a trajectory: the one it has, or else the first   *)
(* failure of the turn, if there is any.                                   *)
LEMMA FirstExceptionProperties ==
  ASSUME NEW S, NEW s \in Seq(S), NEW old \in ExceptionTypes
  PROVE  /\ FirstException(old, s) \in ExceptionTypes
         /\ FirstException(old, s) = "none" <=> old = "none" /\ Number(s, Failed) = 0
<1> DEFINE F == {i \in DOMAIN s : s[i] \in Failed}
           Earliest(i) == s[i] \in Failed /\ \A j \in DOMAIN s : s[j] \in Failed => i <= j
<1>1. CASE old # "none" \/ Number(s, Failed) = 0
  BY <1>1 DEF FirstException
<1>2. CASE ~(old # "none" \/ Number(s, Failed) = 0)
  <2>1. F # {}
    <3>1. Cardinality(F) # 0
      BY <1>2 DEF Number
    <3> QED
      BY <3>1, FS_EmptySet
  <2>2. F \in SUBSET Nat
    BY LenProperties
  <2>3. \E i \in DOMAIN s : Earliest(i)
    <3> HIDE DEF F
    <3>1. PICK x \in F : \A y \in F : x <= y
      BY <2>1, <2>2, Minimum
    <3> QED
      BY <3>1 DEF F
  <2> DEFINE c == CHOOSE i \in DOMAIN s : Earliest(i)
  <2>4. Earliest(c)
    BY <2>3
  <2>5. FirstException(old, s) = s[c]
    BY <1>2, <2>4 DEF FirstException, ExceptionOf
  <2>6. s[c] \in Failed
    BY <2>4
  <2>7. "none" \notin Failed
    BY DEF Failed
  <2> QED
    BY <1>2, <2>5, <2>6, <2>7 DEF ExceptionTypes
<1> QED
  BY <1>1, <1>2

(* The numbers of a turn fit together.                                     *)
LEMMA NumbersAgree ==
  ASSUME NEW S, NEW s \in Seq(S)
  PROVE  /\ Number(s, Counted) = Number(s, Succeeded) + Number(s, Failed)
         /\ Number(s, {"timeout"}) <= Number(s, Failed)
<1> DEFINE In(os) == {i \in DOMAIN s : s[i] \in os}
<1>1. \A os : IsFiniteSet(In(os)) /\ Cardinality(In(os)) \in Nat
  BY NumberType DEF Number
<1>2. In(Counted) = In(Succeeded) \cup In(Failed)
  BY DEF Counted
<1>3. In(Succeeded) \cap In(Failed) = {}
  BY DEF Succeeded, Failed
<1>4. In({"timeout"}) \in SUBSET In(Failed)
  BY DEF Failed
<1> HIDE DEF In
<1>5. Cardinality(In(Counted))
        = Cardinality(In(Succeeded)) + Cardinality(In(Failed))
            - Cardinality(In(Succeeded) \cap In(Failed))
  BY <1>1, <1>2, FS_Union
<1>6. Cardinality(In(Succeeded) \cap In(Failed)) = 0
  BY <1>3, FS_EmptySet
<1>7. Cardinality(In({"timeout"})) <= Cardinality(In(Failed))
  BY <1>1, <1>4, FS_Subset
<1>8. Cardinality(In(Counted)) = Cardinality(In(Succeeded)) + Cardinality(In(Failed))
  BY <1>1, <1>5, <1>6
<1> QED
  BY <1>7, <1>8 DEF Number, In
-----------------------------------------------------------------------------
LEMMA CallTypes ==
  ASSUME LoopTypeOK, NEW i \in 1 .. MaxCalls,
         RejectCall(i) \/ CreateInstance(i) \/ ExecuteTool(i) \/ ReleaseInstance(i)
  PROVE  /\ calls' \in Seq({"new", "open", "closing", "done"})
         /\ results' \in Seq({"none"} \cup Outcomes) /\ Len(results') = Len(calls')
         /\ instances' \subseteq 1 .. MaxCalls
<1> DEFINE C == {"new", "open", "closing", "done"}
           R == {"none"} \cup Outcomes
<1>1. /\ calls \in Seq(C) /\ results \in Seq(R) /\ Len(results) = Len(calls)
      /\ instances \subseteq 1 .. MaxCalls
  BY DEF LoopTypeOK
<1>2. i \in 1 .. Len(calls) /\ i \in 1 .. Len(results)
  BY <1>1, LenProperties DEF RejectCall, CreateInstance, ExecuteTool, ReleaseInstance, Running
<1>3. PICK c \in C : calls' = [calls EXCEPT ![i] = c]
  BY DEF RejectCall, CreateInstance, ExecuteTool, ReleaseInstance
<1>4. results' = results \/ \E o \in R : results' = [results EXCEPT ![i] = o]
  <2>1. Rejected \subseteq R /\ Counted \cup {"raised"} \subseteq R
    BY DEF Outcomes, Uncounted
  <2> QED
    BY <2>1 DEF RejectCall, CreateInstance, ExecuteTool, ReleaseInstance
<1>5. instances' \subseteq 1 .. MaxCalls
  BY <1>1 DEF RejectCall, CreateInstance, ExecuteTool, ReleaseInstance
<1> HIDE DEF C, R
<1>6. calls' \in Seq(C) /\ Len(calls') = Len(calls)
  BY <1>1, <1>2, <1>3, ExceptSeq
<1>7. results' \in Seq(R) /\ Len(results') = Len(results)
  BY <1>1, <1>2, <1>4, ExceptSeq
<1> QED
  BY <1>1, <1>5, <1>6, <1>7 DEF C, R

LEMMA AccumulatedType ==
  ASSUME NEW S, NEW s \in Seq(S), NEW e \in MetricsType
  PROVE  Accumulate(e, s) \in MetricsType
<1>1. \A os : Number(s, os) \in Nat
  BY NumberType
<1>2. FirstException(e.exception, s) \in ExceptionTypes
  BY FirstExceptionProperties DEF MetricsType
<1> DEFINE N(os) == Number(s, os)
<1>3. /\ e.called + N(Counted) \in Nat /\ e.success + N(Succeeded) \in Nat
      /\ e.failed + N(Failed) \in Nat /\ e.timeout + N({"timeout"}) \in Nat
      /\ e.truncated + N({"truncated"}) \in Nat
  <2>1. \A os : N(os) \in Nat
    BY <1>1
  <2>2. /\ e.called \in Nat /\ e.success \in Nat /\ e.failed \in Nat
        /\ e.timeout \in Nat /\ e.truncated \in Nat
    BY DEF MetricsType
  <2>3. \A a, b \in Nat : a + b \in Nat
    OBVIOUS
  <2> HIDE DEF N
  <2> QED
    BY <2>1, <2>2, <2>3, Zenon
<1> QED
  BY <1>2, <1>3 DEF Accumulate, MetricsType

LEMMA LoopTypeStep == LoopTypeOK /\ [Next]_vars => LoopTypeOK'
<1> SUFFICES ASSUME LoopTypeOK, [Next]_vars PROVE LoopTypeOK'
  OBVIOUS
<1>1. /\ prompt_ids \in Seq(Kinds) /\ response_mask \in Seq({0, 1})
      /\ response_logprobs \in Seq({"lp", "0.0"})
      /\ assistant_turns \in Nat /\ user_turns \in Nat
  BY DEF LoopTypeOK, Kinds
<1>2. CASE HandlePending
  <2>1. PICK n \in 1 .. PromptLength : prompt_ids' = Tokens("prompt", n)
    BY <1>2 DEF HandlePending
  <2>2. "prompt" \in Kinds /\ n \in Nat
    BY LoopConstants DEF Kinds
  <2>3. prompt_ids' \in Seq(Kinds)
    BY <2>1, <2>2, TokensProperties
  <2> QED
    BY <1>2, <2>3 DEF HandlePending, LoopTypeOK, Kinds
<1>3. CASE HandleGenerating
  <2> DEFINE Generates(n, k) ==
          /\ prompt_ids' = prompt_ids \o Tokens("model", n)
          /\ response_mask' = response_mask \o Tokens(1, n)
          /\ response_logprobs' = response_logprobs \o Tokens("lp", n)
          /\ assistant_turns' = assistant_turns + 1
          /\ \/ state' = "TERMINATED" /\ UNCHANGED <<calls, results>>
             \/ state' = "PROCESSING_TOOLS" /\ calls' = Tokens("new", k)
                                            /\ results' = Tokens("none", k)
  <2>0. PICK n \in Lengths : \E k \in ParsedCalls(n) : Generates(n, k)
    BY <1>3 DEF HandleGenerating
  <2>1. PICK k \in ParsedCalls(n) : Generates(n, k)
    BY <2>0
  <2>2. n \in Nat /\ k \in Nat
    BY GeneratedTokens
  <2>3. prompt_ids' \in Seq(Kinds)
    <3>1. "model" \in Kinds
      BY DEF Kinds
    <3> QED
      BY <1>1, <2>1, <2>2, <3>1, TokensExtend
  <2>4. response_mask' \in Seq({0, 1})
    BY <1>1, <2>1, <2>2, TokensExtend
  <2>5. response_logprobs' \in Seq({"lp", "0.0"})
    BY <1>1, <2>1, <2>2, TokensExtend
  <2>6. /\ calls' \in Seq({"new", "open", "closing", "done"})
        /\ results' \in Seq({"none"} \cup Outcomes) /\ Len(results') = Len(calls')
    <3>1. CASE UNCHANGED <<calls, results>>
      BY <3>1 DEF LoopTypeOK
    <3>2. CASE calls' = Tokens("new", k) /\ results' = Tokens("none", k)
      <4>1. /\ Tokens("new", k) \in Seq({"new", "open", "closing", "done"})
            /\ Len(Tokens("new", k)) = k
        BY <2>2, TokensProperties
      <4>2. "none" \in {"none"} \cup Outcomes
        OBVIOUS
      <4>3. /\ Tokens("none", k) \in Seq({"none"} \cup Outcomes)
            /\ Len(Tokens("none", k)) = k
        BY <2>2, <4>2, TokensProperties
      <4> QED
        BY <3>2, <4>1, <4>3
    <3> QED
      BY <2>1, <3>1, <3>2
  <2> QED
    BY <1>1, <1>3, <2>1, <2>3, <2>4, <2>5, <2>6 DEF HandleGenerating, LoopTypeOK, Kinds
<1>4. CASE CallNext
  <2>1. PICK i \in 1 .. MaxCalls :
          RejectCall(i) \/ CreateInstance(i) \/ ExecuteTool(i) \/ ReleaseInstance(i)
    BY <1>4 DEF CallNext
  <2>2. CallFrame
    BY <2>1 DEF RejectCall, CreateInstance, ExecuteTool, ReleaseInstance
  <2>3. /\ calls' \in Seq({"new", "open", "closing", "done"})
        /\ results' \in Seq({"none"} \cup Outcomes) /\ Len(results') = Len(calls')
        /\ instances' \subseteq 1 .. MaxCalls
    BY <2>1, CallTypes
  <2> QED
    BY <2>2, <2>3 DEF CallFrame, LoopTypeOK
<1>5. CASE HandleToolResponses
  <2>1. PICK n \in 1 .. MaxToolTokens :
          \/ /\ AppendToolTokens(n) /\ state' = "GENERATING"
             /\ blocks' = blocks + Number(results, Counted) /\ user_turns' = user_turns + 1
          \/ /\ state' = "TERMINATED"
             /\ UNCHANGED <<prompt_ids, response_mask, response_logprobs, blocks, user_turns>>
    BY <1>5 DEF HandleToolResponses
  <2>2. n \in Nat
    BY LoopConstants
  <2>3. blocks' \in Nat /\ user_turns' \in Nat
    <3>1. results \in Seq({"none"} \cup Outcomes) /\ blocks \in Nat
      BY DEF LoopTypeOK
    <3>2. Number(results, Counted) \in Nat
      BY <3>1, NumberType
    <3> QED
      BY <1>1, <2>1, <3>1, <3>2
  <2>4. prompt_ids' \in Seq(Kinds)
    <3>1. "tool" \in Kinds
      BY DEF Kinds
    <3> QED
      BY <1>1, <2>1, <2>2, <3>1, TokensExtend DEF AppendToolTokens
  <2>5. response_mask' \in Seq({0, 1})
    BY <1>1, <2>1, <2>2, TokensExtend DEF AppendToolTokens
  <2>6. response_logprobs' \in Seq({"lp", "0.0"})
    BY <1>1, <2>1, <2>2, TokensExtend, EmptySeq DEF AppendToolTokens
  <2>7. extra' \in MetricsType
    BY <1>5, AccumulatedType DEF HandleToolResponses, LoopTypeOK
  <2>8. calls' = <<>> /\ results' = <<>> /\ UNCHANGED <<assistant_turns, instances, output>>
    BY <1>5 DEF HandleToolResponses
  <2> QED
    BY <2>1, <2>3, <2>4, <2>5, <2>6, <2>7, <2>8, EmptySeq DEF LoopTypeOK, Kinds
<1>6. CASE Finalize
  BY <1>6 DEF Finalize, LoopTypeOK
<1>7. CASE UNCHANGED vars
  BY <1>7 DEF vars, LoopTypeOK
<1> QED
  BY <1>2, <1>3, <1>4, <1>5, <1>6, <1>7 DEF Next

(* What a turn of the model appends, as one formula.                       *)
Generated(n, k) ==
  /\ prompt_ids' = prompt_ids \o Tokens("model", n)
  /\ response_mask' = response_mask \o Tokens(1, n)
  /\ response_logprobs' = response_logprobs \o Tokens("lp", n)
  /\ \/ state' = "TERMINATED"
     \/ state' = "PROCESSING_TOOLS" /\ k # 0

LEMMA GeneratingStep ==
  ASSUME HandleGenerating
  PROVE  \E n \in Lengths : \E k \in ParsedCalls(n) : Generated(n, k)
<1>1. PICK n \in Lengths : \E k \in ParsedCalls(n) :
        /\ prompt_ids' = prompt_ids \o Tokens("model", n)
        /\ response_mask' = response_mask \o Tokens(1, n)
        /\ response_logprobs' = response_logprobs \o Tokens("lp", n)
        /\ \/ state' = "TERMINATED"
           \/ state' = "PROCESSING_TOOLS" /\ k # 0
  BY DEF HandleGenerating
<1> QED
  BY <1>1 DEF Generated

(* The answers of the tools, appended or given up for want of room.        *)
LEMMA ResponsesStep ==
  ASSUME HandleToolResponses
  PROVE  \E n \in 1 .. MaxToolTokens :
           \/ AppendToolTokens(n) /\ Fits(n) /\ state' = "GENERATING"
           \/ /\ state' = "TERMINATED"
              /\ UNCHANGED <<prompt_ids, response_mask, response_logprobs>>
  BY DEF HandleToolResponses

LEMMA SplitInit == Init => SplitInv
<1> SUFFICES ASSUME Init PROVE SplitInv
  OBVIOUS
<1>1. Len(prompt_ids) = 0 /\ Len(response_mask) = 0 /\ Len(response_logprobs) = 0
  BY EmptySeq DEF Init
<1> QED
  BY <1>1, LoopConstants DEF Init, SplitInv, InStep

LEMMA SplitStep == LoopTypeOK /\ SplitInv /\ [Next]_vars => SplitInv'
<1> SUFFICES ASSUME LoopTypeOK, SplitInv, [Next]_vars PROVE SplitInv'
  OBVIOUS
<1>1. /\ prompt_ids \in Seq(Kinds) /\ response_mask \in Seq({0, 1})
      /\ response_logprobs \in Seq({"lp", "0.0"})
      /\ Len(prompt_ids) \in Nat /\ Len(response_mask) \in Nat
  BY LenProperties DEF LoopTypeOK, Kinds
<1>2. /\ InStep(prompt_ids, response_mask, response_logprobs)
      /\ Len(prompt_ids) - Len(response_mask) <= PromptLength
  BY DEF SplitInv
<1>3. CASE HandlePending
  <2>1. PICK n \in 1 .. PromptLength : prompt_ids' = Tokens("prompt", n)
    BY <1>3 DEF HandlePending
  <2>2. "prompt" \in Kinds /\ n \in Nat /\ n <= PromptLength
    BY LoopConstants DEF Kinds
  <2>3. Len(prompt_ids') = n /\ \A i \in 1 .. n : prompt_ids'[i] = "prompt"
    BY <2>1, <2>2, TokensProperties
  <2>4. response_mask' = <<>> /\ response_logprobs' = <<>> /\ state' = "GENERATING"
    BY <1>3 DEF HandlePending, SplitInv
  <2>5. Len(response_mask') = 0 /\ Len(response_logprobs') = 0
    BY <2>4
  <2>6. InStep(prompt_ids', response_mask', response_logprobs')
    BY <2>2, <2>3, <2>5 DEF InStep
  <2> QED
    BY <2>2, <2>3, <2>4, <2>5, <2>6 DEF SplitInv
<1>4. CASE HandleGenerating
  <2>1. PICK n \in Lengths : \E k \in ParsedCalls(n) : Generated(n, k)
    BY <1>4, GeneratingStep
  <2>2. PICK k \in ParsedCalls(n) : Generated(n, k)
    BY <2>1
  <2>3. n \in Nat /\ (PartialRollout => n > 0) /\ (k # 0 => n > 0)
    BY GeneratedTokens
  <2>4. Extended(prompt_ids', prompt_ids, n, "model")
    <3>1. "model" \in Kinds
      BY DEF Kinds
    <3> QED
      BY <1>1, <2>2, <2>3, <3>1, TokensExtend DEF Generated
  <2>5. Extended(response_mask', response_mask, n, 1)
    BY <1>1, <2>2, <2>3, TokensExtend DEF Generated
  <2>6. Extended(response_logprobs', response_logprobs, n, "lp")
    BY <1>1, <2>2, <2>3, TokensExtend DEF Generated
  <2>7. /\ InStep(prompt_ids', response_mask', response_logprobs')
        /\ Len(prompt_ids') - Len(response_mask') = Len(prompt_ids) - Len(response_mask)
    BY <1>1, <1>2, <2>3, <2>4, <2>5, <2>6, InStepExtended
  <2>8. Len(response_mask') = Len(response_mask) + n
    BY <2>5 DEF Extended
  <2>9. /\ state' = "PROCESSING_TOOLS" => Len(response_mask') > 0
        /\ state' = "TERMINATED" /\ PartialRollout => Len(response_mask') > 0
        /\ state' # "PENDING"
    BY <1>1, <2>2, <2>3, <2>8 DEF Generated
  <2> QED
    BY <1>2, <2>7, <2>9 DEF SplitInv
<1>5. CASE CallNext
  <2>1. CallFrame
    BY <1>5 DEF CallNext, RejectCall, CreateInstance, ExecuteTool, ReleaseInstance
  <2> QED
    BY <2>1 DEF CallFrame, SplitInv
<1>6. CASE HandleToolResponses
  <2>1. Len(response_mask) > 0
    BY <1>6 DEF HandleToolResponses, SplitInv
  <2>2. PICK n \in 1 .. MaxToolTokens :
          \/ AppendToolTokens(n) /\ state' = "GENERATING"
          \/ /\ state' = "TERMINATED"
             /\ UNCHANGED <<prompt_ids, response_mask, response_logprobs>>
    BY <1>6, ResponsesStep
  <2>3. CASE AppendToolTokens(n) /\ state' = "GENERATING"
    <3>1. n \in Nat /\ "tool" \in Kinds
      BY LoopConstants DEF Kinds
    <3>2. response_logprobs # <<>>
      <4>1. Len(response_logprobs) = Len(response_mask)
        BY <1>2 DEF InStep
      <4> QED
        BY <2>1, <4>1
    <3>3. Extended(prompt_ids', prompt_ids, n, "tool")
      BY <1>1, <2>3, <3>1, TokensExtend DEF AppendToolTokens
    <3>4. Extended(response_mask', response_mask, n, 0)
      BY <1>1, <2>3, <3>1, TokensExtend DEF AppendToolTokens
    <3>5. Extended(response_logprobs', response_logprobs, n, "0.0")
      BY <1>1, <2>3, <3>1, <3>2, TokensExtend DEF AppendToolTokens
    <3>6. /\ InStep(prompt_ids', response_mask', response_logprobs')
          /\ Len(prompt_ids') - Len(response_mask') = Len(prompt_ids) - Len(response_mask)
      <4>1. /\ "tool" # "prompt"
            /\ "tool" = "model" <=> 0 = 1
            /\ "0.0" = "lp" <=> 0 = 1
        OBVIOUS
      <4> DEFINE b == 0
      <4>2. ("tool" = "model" <=> b = 1) /\ ("0.0" = "lp" <=> b = 1)
            /\ Extended(response_mask', response_mask, n, b)
        BY <3>4, <4>1
      <4> HIDE DEF b
      <4> QED
        BY <1>1, <1>2, <3>1, <3>3, <3>5, <4>1, <4>2, InStepExtended
    <3> QED
      BY <1>2, <2>3, <3>6 DEF SplitInv
  <2>4. CASE /\ state' = "TERMINATED"
             /\ UNCHANGED <<prompt_ids, response_mask, response_logprobs>>
    BY <1>2, <2>1, <2>4 DEF SplitInv
  <2> QED
    BY <2>2, <2>3, <2>4
<1>7. CASE Finalize \/ UNCHANGED vars
  BY <1>7 DEF Finalize, vars, SplitInv
<1> QED
  BY <1>3, <1>4, <1>5, <1>6, <1>7 DEF Next
-----------------------------------------------------------------------------
(* Python's s[:n] and s[-n:] as functions of the index.                    *)
LEMMA PrefixProperties ==
  ASSUME NEW S, NEW s \in Seq(S), NEW n \in Nat
  PROVE  /\ Len(Prefix(s, n)) = Least(n, Len(s))
         /\ DOMAIN Prefix(s, n) = 1 .. Least(n, Len(s))
         /\ Prefix(s, n) \in Seq(S)
         /\ \A i \in 1 .. Least(n, Len(s)) : Prefix(s, n)[i] = s[i]
<1> DEFINE m == Least(n, Len(s))
<1>1. m \in Nat /\ m <= Len(s) /\ Len(s) \in Nat
  BY LenProperties DEF Least
<1> HIDE DEF m
<1>2. SubSeq(s, 1, m) = [i \in 1 .. m |-> s[i]]
  BY <1>1
<1>3. \A i \in 1 .. m : s[i] \in S
  BY <1>1, ElementOfSeq
<1>4. /\ SubSeq(s, 1, m) \in Seq(S) /\ Len(SubSeq(s, 1, m)) = m
      /\ DOMAIN SubSeq(s, 1, m) = 1 .. m
      /\ \A i \in 1 .. m : SubSeq(s, 1, m)[i] = s[i]
  BY <1>1, <1>2, <1>3
<1> QED
  BY <1>4 DEF Prefix, m

LEMMA LastProperties ==
  ASSUME NEW S, NEW s \in Seq(S), NEW n \in Nat, n > 0, n <= Len(s)
  PROVE  /\ Len(LastOf(s, n)) = n
         /\ LastOf(s, n) \in Seq(S)
         /\ \A i \in 1 .. n : LastOf(s, n)[i] = s[Len(s) - n + i]
<1> DEFINE b == Len(s) - n + 1
<1>1. Len(s) \in Nat /\ LastOf(s, n) = SubSeq(s, b, Len(s)) /\ b \in 1 .. Len(s) + 1
  BY LenProperties DEF LastOf
<1>2. /\ SubSeq(s, b, Len(s)) \in Seq(S)
      /\ Len(SubSeq(s, b, Len(s))) = Len(s) - b + 1
      /\ \A i \in 1 .. Len(s) - b + 1 : SubSeq(s, b, Len(s))[i] = s[b + i - 1]
  BY <1>1, SubSeqProperties
<1>3. Len(s) - b + 1 = n /\ \A i \in 1 .. n : b + i - 1 = Len(s) - n + i
  BY <1>1
<1> HIDE DEF b
<1> QED
  BY <1>1, <1>2, <1>3

(* The split of the sequences of a trajectory that has a token of the      *)
(* model, or that is bounded from below by partial rollout.                *)
LEMMA FinalizedSplit ==
  ASSUME LoopTypeOK, SplitInv, Finalize, response_mask # <<>>
  PROVE  MaskMarksTheModel'
<1> DEFINE d == Len(prompt_ids) - Len(response_mask)
           o == output'
           c == Least(ResponseLength, Len(response_mask))
<1>1. /\ prompt_ids \in Seq(Kinds) /\ response_mask \in Seq({0, 1})
      /\ response_logprobs \in Seq({"lp", "0.0"})
      /\ Len(prompt_ids) \in Nat /\ Len(response_mask) \in Nat
  BY LenProperties DEF LoopTypeOK, Kinds
<1>2. InStep(prompt_ids, response_mask, response_logprobs)
  BY DEF SplitInv
<1>3. /\ Len(response_logprobs) = Len(response_mask) /\ Len(response_mask) > 0
      /\ d \in Nat /\ d <= Len(prompt_ids) /\ Len(response_mask) <= Len(prompt_ids)
      /\ ResponseLength \in Nat /\ c \in Nat /\ c <= Len(response_mask)
  BY <1>1, <1>2, LoopConstants, EmptySeq DEF InStep, Least
<1>4. /\ o.prompt_ids = Prefix(prompt_ids, d)
      /\ o.response_ids = Prefix(LastOf(prompt_ids, Len(response_mask)), ResponseLength)
      /\ o.response_mask = Prefix(response_mask, ResponseLength)
      /\ o.response_logprobs = Prefix(response_logprobs, ResponseLength)
  BY DEF Finalize
<1> HIDE DEF o
<1>5. \A i \in DOMAIN o.prompt_ids : o.prompt_ids[i] = "prompt"
  <2>1. Least(d, Len(prompt_ids)) = d
    BY <1>1, <1>3 DEF Least
  <2>2. \A i \in 1 .. d : prompt_ids[i] = "prompt"
    BY <1>2 DEF InStep
  <2>3. /\ DOMAIN Prefix(prompt_ids, d) = 1 .. Least(d, Len(prompt_ids))
        /\ \A i \in 1 .. Least(d, Len(prompt_ids)) : Prefix(prompt_ids, d)[i] = prompt_ids[i]
    <3>1. prompt_ids \in Seq(Kinds) /\ d \in Nat
      BY <1>1, <1>3
    <3> HIDE DEF d
    <3> QED
      BY <3>1, PrefixProperties
  <2> HIDE DEF d
  <2> QED
    BY <1>4, <2>1, <2>2, <2>3
<1>6. /\ DOMAIN o.response_mask = 1 .. c /\ Len(o.response_mask) = c
      /\ \A i \in 1 .. c : o.response_mask[i] = response_mask[i]
  <2> DEFINE p == Prefix(response_mask, ResponseLength)
  <2>1. /\ DOMAIN p = 1 .. c /\ Len(p) = c
        /\ \A i \in 1 .. c : p[i] = response_mask[i]
    BY <1>1, <1>3, PrefixProperties
  <2> HIDE DEF p, c
  <2> QED
    BY <1>4, <2>1 DEF p
<1>7. /\ Len(o.response_logprobs) = c
      /\ \A i \in 1 .. c : o.response_logprobs[i] = response_logprobs[i]
  <2> DEFINE p == Prefix(response_logprobs, ResponseLength)
  <2>1. Len(p) = c /\ \A i \in 1 .. c : p[i] = response_logprobs[i]
    BY <1>1, <1>3, PrefixProperties
  <2> HIDE DEF p, c
  <2> QED
    BY <1>4, <2>1 DEF p
<1>8. /\ DOMAIN o.response_ids = 1 .. c /\ Len(o.response_ids) = c
      /\ \A i \in 1 .. c : o.response_ids[i] = prompt_ids[d + i]
  <2> DEFINE t == LastOf(prompt_ids, Len(response_mask))
  <2>1. /\ Len(t) = Len(response_mask) /\ t \in Seq(Kinds)
        /\ \A i \in 1 .. Len(response_mask) : t[i] = prompt_ids[d + i]
    BY <1>1, <1>3, LastProperties
  <2> HIDE DEF t, d
  <2>2. /\ DOMAIN Prefix(t, ResponseLength) = 1 .. c /\ Len(Prefix(t, ResponseLength)) = c
        /\ \A i \in 1 .. c : Prefix(t, ResponseLength)[i] = t[i]
    BY <1>3, <2>1, PrefixProperties
  <2>3. \A i \in 1 .. c : i \in 1 .. Len(response_mask)
    BY <1>1, <1>3
  <2> QED
    BY <1>4, <2>1, <2>2, <2>3 DEF t
<1>9. \A i \in 1 .. c : /\ prompt_ids[d + i] # "prompt"
                        /\ prompt_ids[d + i] = "model" <=> response_mask[i] = 1
                        /\ response_logprobs[i] = "lp" <=> response_mask[i] = 1
  <2>1. \A i \in 1 .. c : i \in 1 .. Len(response_mask)
    BY <1>1, <1>3
  <2> QED
    BY <1>2, <2>1 DEF InStep
<1> HIDE DEF c, d
<1> QED
  BY <1>5, <1>6, <1>7, <1>8, <1>9 DEF MaskMarksTheModel, o

LEMMA OutputStep ==
  LoopTypeOK /\ SplitInv /\ OutputInv /\ [Next]_vars => OutputInv'
<1> SUFFICES ASSUME LoopTypeOK, SplitInv, OutputInv, [Next]_vars PROVE OutputInv'
  OBVIOUS
<1>1. CASE Finalize
  <2>1. output'.done /\ state' = "TERMINATED" /\ response_mask' = response_mask
    BY <1>1 DEF Finalize
  <2>2. PartialRollout \/ response_mask # <<>> => MaskMarksTheModel'
    <3>1. PartialRollout => response_mask # <<>>
      BY <1>1, EmptySeq DEF Finalize, SplitInv
    <3> QED
      BY <1>1, <3>1, FinalizedSplit
  <2> QED
    BY <2>1, <2>2 DEF OutputInv
<1>2. CASE HandlePending \/ HandleGenerating \/ CallNext \/ HandleToolResponses
  <2>1. output' = output /\ state # "TERMINATED"
    BY <1>2 DEF HandlePending, HandleGenerating, CallNext, RejectCall, CreateInstance,
                ExecuteTool, ReleaseInstance, CallFrame, Running, HandleToolResponses
  <2>2. ~output'.done
    BY <2>1 DEF OutputInv
  <2> QED
    BY <2>2 DEF OutputInv, MaskMarksTheModel
<1>3. CASE UNCHANGED vars
  BY <1>3 DEF vars, OutputInv, MaskMarksTheModel
<1> QED
  BY <1>1, <1>2, <1>3 DEF Next
-----------------------------------------------------------------------------
LEMMA ContextStep ==
  LoopTypeOK /\ SplitInv /\ ContextBounded /\ [Next]_vars => ContextBounded'
<1> SUFFICES ASSUME LoopTypeOK, SplitInv, ContextBounded, [Next]_vars PROVE ContextBounded'
  OBVIOUS
<1>1. /\ prompt_ids \in Seq(Kinds) /\ Len(prompt_ids) \in Nat
      /\ Len(response_mask) \in Nat /\ Len(prompt_ids) - Len(response_mask) <= PromptLength
  BY LenProperties DEF LoopTypeOK, SplitInv, Kinds
<1>2. CASE HandlePending
  <2>1. PICK n \in 1 .. PromptLength : prompt_ids' = Tokens("prompt", n)
    BY <1>2 DEF HandlePending
  <2>2. "prompt" \in Kinds /\ n \in Nat /\ n <= PromptLength
    BY LoopConstants DEF Kinds
  <2>3. Len(prompt_ids') = n
    BY <2>1, <2>2, TokensProperties
  <2> QED
    BY <2>2, <2>3, LoopConstants DEF ContextBounded
<1>3. CASE HandleGenerating
  <2>1. PICK n \in Lengths : \E k \in ParsedCalls(n) : Generated(n, k)
    BY <1>3, GeneratingStep
  <2>2. /\ n \in Nat
        /\ Len(prompt_ids) < PromptLength + ResponseLength
             => Len(prompt_ids) + n <= PromptLength + ResponseLength
    BY GeneratedTokens
  <2>3. Len(prompt_ids') = Len(prompt_ids) + n
    <3>1. "model" \in Kinds
      BY DEF Kinds
    <3> QED
      BY <1>1, <2>1, <2>2, <3>1, TokensExtend DEF Generated, Extended
  <2>4. Len(prompt_ids) < PromptLength + ResponseLength
    BY <1>3 DEF HandleGenerating, ContextBounded
  <2>5. state' # "GENERATING"
    BY <2>1 DEF Generated
  <2> QED
    BY <2>2, <2>3, <2>4, <2>5 DEF ContextBounded
<1>4. CASE HandleToolResponses
  <2>1. PICK n \in 1 .. MaxToolTokens :
          \/ AppendToolTokens(n) /\ Fits(n)
          \/ state' = "TERMINATED" /\ UNCHANGED prompt_ids
    BY <1>4, ResponsesStep
  <2>2. CASE AppendToolTokens(n) /\ Fits(n)
    <3>1. n \in Nat /\ "tool" \in Kinds
      BY LoopConstants DEF Kinds
    <3>2. Len(prompt_ids') = Len(prompt_ids) + n
      BY <1>1, <2>2, <3>1, TokensExtend DEF AppendToolTokens, Extended
    <3>3. Len(response_mask) + n < ResponseLength
      BY <2>2 DEF Fits
    <3> QED
      BY <1>1, <3>1, <3>2, <3>3, LoopConstants DEF ContextBounded
  <2>3. CASE state' = "TERMINATED" /\ UNCHANGED prompt_ids
    BY <2>3 DEF ContextBounded
  <2> QED
    BY <2>1, <2>2, <2>3
<1>5. CASE CallNext
  <2>1. CallFrame
    BY <1>5 DEF CallNext, RejectCall, CreateInstance, ExecuteTool, ReleaseInstance
  <2> QED
    BY <2>1 DEF CallFrame, ContextBounded
<1>6. CASE Finalize \/ UNCHANGED vars
  BY <1>6 DEF Finalize, vars, ContextBounded
<1> QED
  BY <1>2, <1>3, <1>4, <1>5, <1>6 DEF Next

-----------------------------------------------------------------------------
LEMMA MetricsStep == LoopTypeOK /\ MetricsAgree /\ [Next]_vars => MetricsAgree'
<1> SUFFICES ASSUME LoopTypeOK, MetricsAgree, [Next]_vars PROVE MetricsAgree'
  OBVIOUS
<1>1. CASE HandleToolResponses
  <2>1. results \in Seq({"none"} \cup Outcomes) /\ extra \in MetricsType
    BY DEF LoopTypeOK
  <2>2. extra' = Accumulate(extra, results)
    BY <1>1 DEF HandleToolResponses
  <2>3. \A os : Number(results, os) \in Nat
    BY <2>1, NumberType
  <2>4. /\ Number(results, Counted) = Number(results, Succeeded) + Number(results, Failed)
        /\ Number(results, {"timeout"}) <= Number(results, Failed)
    BY <2>1, NumbersAgree
  <2>5. extra.exception \in ExceptionTypes
    BY <2>1 DEF MetricsType
  <2>6. FirstException(extra.exception, results) = "none"
          <=> extra.exception = "none" /\ Number(results, Failed) = 0
    BY <2>1, <2>5, FirstExceptionProperties
  <2>7. /\ extra.called \in Nat /\ extra.success \in Nat /\ extra.failed \in Nat
        /\ extra.timeout \in Nat
    BY <2>1 DEF MetricsType
  <2>8. /\ extra'.called = extra.called + Number(results, Counted)
        /\ extra'.success = extra.success + Number(results, Succeeded)
        /\ extra'.failed = extra.failed + Number(results, Failed)
        /\ extra'.timeout = extra.timeout + Number(results, {"timeout"})
        /\ extra'.exception = FirstException(extra.exception, results)
    BY <2>2 DEF Accumulate
  <2> QED
    BY <2>3, <2>4, <2>6, <2>7, <2>8 DEF MetricsAgree
<1>2. CASE HandlePending \/ HandleGenerating \/ CallNext \/ Finalize \/ UNCHANGED vars
  <2>1. extra' = extra
    BY <1>2 DEF HandlePending, HandleGenerating, CallNext, RejectCall, CreateInstance,
                ExecuteTool, ReleaseInstance, CallFrame, Finalize, vars
  <2> QED
    BY <2>1 DEF MetricsAgree
<1> QED
  BY <1>1, <1>2 DEF Next

-----------------------------------------------------------------------------
LEMMA OthersInit == Init => OutputInv /\ ContextBounded /\ MetricsAgree
<1> SUFFICES ASSUME Init PROVE OutputInv /\ ContextBounded /\ MetricsAgree
  OBVIOUS
<1>1. Len(prompt_ids) = 0
  BY EmptySeq DEF Init
<1> QED
  BY <1>1, LoopConstants
  DEF Init, OutputInv, MaskMarksTheModel, NoOutput, ContextBounded, MetricsAgree, NoMetrics

(* Every variable of a trajectory keeps its type.                          *)
THEOREM LoopTypes == Spec => []LoopTypeOK
BY LoopTypeInit, LoopTypeStep, PTL DEF Spec

(* The origin of every token, its mask and its logprob agree at every      *)
(* point of the loop, not only in its output.                              *)
THEOREM SequencesInStep == Spec => []SplitInv
BY LoopTypes, SplitInit, SplitStep, PTL DEF Spec

(* The tokens whose mask is 1 in the output are the model's, each with its *)
(* own logprob, and the prompt is the prompt: for every trajectory if the  *)
(* client retries an aborted generation, and else for every trajectory     *)
(* with a token in its response.                                           *)
THEOREM OutputMarksTheModel ==
  Spec => [](PartialRollout \/ response_mask # <<>> => MaskMarksTheModel)
<1>1. Spec => []OutputInv
  BY LoopTypes, SequencesInStep, OthersInit, OutputStep, PTL DEF Spec
<1>2. OutputInv => (PartialRollout \/ response_mask # <<>> => MaskMarksTheModel)
  BY DEF OutputInv
<1> QED
  BY <1>1, <1>2, PTL

(* The context of the model is never outgrown, whatever the tools answer.  *)
THEOREM ContextKept == Spec => []ContextBounded
BY LoopTypes, SequencesInStep, OthersInit, ContextStep, PTL DEF Spec

(* The counters of the tool's calls agree after every turn.                *)
THEOREM MetricsKept == Spec => []MetricsAgree
BY LoopTypes, OthersInit, MetricsStep, PTL DEF Spec
-----------------------------------------------------------------------------
(* The retrieval service that the search tool asks.                        *)

(* What a search finds, with scores or without.                            *)
SearchKeys == [query : Queries, num : Topks \cup {DefaultTopk}, max_doc_chars : Chars]
Found == {[key |-> k, value |-> Search(k, s)] : k \in SearchKeys, s \in BOOLEAN}

(* An entry of the cache is what a search has found for its key, and a     *)
(* request has as many answers as queries at most.                         *)
ServiceInv ==
  /\ cache \in Seq(Found)
  /\ \E A : result \in Seq(A)
  /\ request # <<>> => request \in Requests

LEMMA RequestTypes ==
  ASSUME NEW r \in Requests
  PROVE  /\ r.queries \in Seq(Queries \cup {Blank})
         /\ r.topk \in Topks /\ r.max_doc_chars \in Chars /\ r.return_scores \in BOOLEAN
<1>1. /\ r.queries \in BoundedSeq(Queries \cup {Blank}, BatchSize)
      /\ r.topk \in Topks /\ r.max_doc_chars \in Chars /\ r.return_scores \in BOOLEAN
  BY DEF Requests
<1>2. PICK m \in 0 .. BatchSize : r.queries \in [1 .. m -> Queries \cup {Blank}]
  BY <1>1 DEF BoundedSeq, SeqOf
<1>3. m \in Nat
  OBVIOUS
<1>4. PICK C, s : C = Queries \cup {Blank} /\ s = r.queries
  OBVIOUS
<1>5. s \in [1 .. m -> C]
  BY <1>2, <1>4
<1>6. s \in Seq(C)
  BY <1>3, <1>5
<1> QED
  BY <1>1, <1>4, <1>6

(* The key under which the next query is looked up.                        *)
LEMMA QueryKey ==
  ASSUME ServiceInv, Pending, Query # Blank
  PROVE  Key(Query) \in SearchKeys /\ request.return_scores \in BOOLEAN
<1>1. request \in Requests
  BY DEF ServiceInv, Pending, Idle
<1>2. /\ request.queries \in Seq(Queries \cup {Blank})
      /\ request.topk \in Topks /\ request.max_doc_chars \in Chars /\ request.return_scores \in BOOLEAN
  BY <1>1, RequestTypes
<1>3. PICK A : result \in Seq(A)
  BY DEF ServiceInv
<1>4. Len(result) + 1 \in 1 .. Len(request.queries)
  BY <1>2, <1>3, LenProperties DEF Pending
<1>5. Query \in Queries
  <2>1. Query \in Queries \cup {Blank}
    BY <1>2, <1>4, ElementOfSeq DEF Query
  <2> QED
    BY <2>1
<1> QED
  BY <1>2, <1>5 DEF Key, SearchKeys

LEMMA EntryFound ==
  ASSUME cache \in Seq(Found), NEW key, Cached(key)
  PROVE  /\ Place(key) \in 1 .. Len(cache) /\ Entry(key) \in Found
         /\ Entry(key).key = key
<1>1. DOMAIN cache = 1 .. Len(cache)
  BY LenProperties
<1>2. Place(key) \in 1 .. Len(cache) /\ cache[Place(key)].key = key
  BY <1>1 DEF Cached, Place
<1> QED
  BY <1>2, ElementOfSeq DEF Entry

LEMMA WithoutFound ==
  ASSUME cache \in Seq(Found), NEW key
  PROVE  Without(key) \in Seq(Found)
<1>1. CASE Cached(key)
  <2>1. PICK i \in 1 .. Len(cache) : i = Place(key)
    BY <1>1, EntryFound
  <2>2. PICK L \in Nat : L = Len(cache)
    BY LenProperties
  <2>3. SubSeq(cache, 1, i - 1) \in Seq(Found) /\ SubSeq(cache, i + 1, L) \in Seq(Found)
    BY <2>2, SubSeqProperties
  <2>4. Without(key) = SubSeq(cache, 1, i - 1) \o SubSeq(cache, i + 1, L)
    BY <1>1, <2>1, <2>2 DEF Without, RemoveAt
  <2> QED
    BY <2>3, <2>4, ConcatProperties
<1>2. CASE ~Cached(key)
  BY <1>2 DEF Without
<1> QED
  BY <1>1, <1>2

LEMMA PutFound ==
  ASSUME cache \in Seq(Found), NEW key, NEW value, [key |-> key, value |-> value] \in Found,
         Put(key, value)
  PROVE  cache' \in Seq(Found)
<1>1. PICK c : c = Append(Without(key), [key |-> key, value |-> value])
  OBVIOUS
<1>2. c \in Seq(Found) /\ c # <<>>
  BY <1>1, WithoutFound, AppendProperties
<1>3. Tail(c) \in Seq(Found)
  BY <1>2, HeadTailProperties
<1>4. cache' = IF Len(c) > Capacity THEN Tail(c) ELSE c
  BY <1>1 DEF Put
<1> QED
  BY <1>2, <1>3, <1>4

LEMMA Answers ==
  ASSUME NEW A, result \in Seq(A), NEW x, result' = Append(result, x)
  PROVE  (\E B : result' \in Seq(B)) /\ Last(result') = x
<1>1. PICK r, B : r = result /\ B = A \cup {x} /\ r \in Seq(B)
  <2>1. result \in Seq(A \cup {x})
    OBVIOUS
  <2> QED
    BY <2>1
<1>2. x \in B
  BY <1>1
<1>3. Append(r, x) \in Seq(B) /\ Len(Append(r, x)) = Len(r) + 1 /\ Append(r, x)[Len(r) + 1] = x
  BY <1>1, <1>2, AppendProperties
<1> QED
  BY <1>1, <1>3 DEF Last

LEMMA ServiceInit == RetrievalInit => ServiceInv
BY DEF RetrievalInit, ServiceInv

LEMMA ServiceStep == ServiceInv /\ [RetrievalNext]_(retrievalVars) => ServiceInv'
<1> SUFFICES ASSUME ServiceInv, [RetrievalNext]_(retrievalVars) PROVE ServiceInv'
  OBVIOUS
<1>0. cache \in Seq(Found) /\ (request # <<>> => request \in Requests)
  BY DEF ServiceInv
<1>a. PICK A : result \in Seq(A)
  BY DEF ServiceInv
<1>1. CASE UNCHANGED retrievalVars
  BY <1>1 DEF retrievalVars, ServiceInv
<1>2. CASE Receive
  <2>1. result' = <<>> /\ cache' = cache /\ request' \in Requests
    BY <1>2 DEF Receive
  <2>2. result' \in Seq({})
    BY <2>1
  <2> QED
    BY <1>0, <2>1, <2>2 DEF ServiceInv
<1>3. CASE AnswerBlank
  <2>1. result' = Append(result, <<>>) /\ UNCHANGED <<cache, request>>
    BY <1>3 DEF AnswerBlank
  <2> QED
    BY <1>0, <1>a, <2>1, Answers DEF ServiceInv
<1>4. CASE AnswerCached
  <2>1. PICK key, x : /\ Cached(key) /\ Get(key)
                      /\ result' = Append(result, x) /\ request' = request
    BY <1>4 DEF AnswerCached
  <2>2. Without(key) \in Seq(Found) /\ Entry(key) \in Found
    BY <1>0, <2>1, EntryFound, WithoutFound
  <2>3. cache' \in Seq(Found)
    BY <2>1, <2>2, AppendProperties DEF Get
  <2> QED
    BY <1>0, <1>a, <2>1, <2>3, Answers DEF ServiceInv
<1>5. CASE AnswerSearched
  <2>1. PICK key, s, value, x :
           /\ key = Key(Query) /\ s = request.return_scores
           /\ value = Search(key, s)
           /\ Put(key, value) /\ result' = Append(result, x) /\ request' = request
    BY <1>5 DEF AnswerSearched
  <2>2. key \in SearchKeys /\ s \in BOOLEAN
    BY <1>5, <2>1, QueryKey DEF AnswerSearched
  <2>3. [key |-> key, value |-> value] \in Found
    BY <2>1, <2>2 DEF Found
  <2>4. cache' \in Seq(Found)
    BY <1>0, <2>1, <2>3, PutFound
  <2> QED
    BY <1>0, <1>a, <2>1, <2>4, Answers DEF ServiceInv
<1>6. CASE SearchFails
  <2>1. result' = Append(result, <<>>) /\ UNCHANGED <<cache, request>>
    BY <1>6 DEF SearchFails
  <2> QED
    BY <1>0, <1>a, <2>1, Answers DEF ServiceInv
<1>7. CASE Respond
  <2>1. request' = <<>> /\ UNCHANGED <<cache, result>>
    BY <1>7 DEF Respond
  <2> QED
    BY <1>0, <1>a, <2>1 DEF ServiceInv
<1> QED
  BY <1>1, <1>2, <1>3, <1>4, <1>5, <1>6, <1>7 DEF RetrievalNext

(* The documents are read off the same, whether a search was with scores.  *)
LEMMA ReadSame ==
  ASSUME NEW key, NEW s
  PROVE  Read(Search(key, s).docs) = Read(Search(key, FALSE).docs)
BY DEF Read, Search

(* A request without scores, as the search tool sends, gets from the cache *)
(* the documents a search would have found, whatever other clients asked   *)
(* for, what failed before, and what the cache has forgotten.              *)
THEOREM CacheUnseen == RetrievalSpec => ToolUnaffected
<1>1. ASSUME ServiceInv, AnswerCached, ~request.return_scores
      PROVE  Read(Last(result')) = Read(Search(Key(Query), FALSE).docs)
  <2>1. PICK key : key = Key(Query)
    OBVIOUS
  <2>2. PICK e : e = Entry(key)
    OBVIOUS
  <2>3. e \in Found /\ e.key = key
    BY <1>1, <2>1, <2>2, EntryFound DEF ServiceInv, AnswerCached
  <2>4. PICK s \in BOOLEAN : e.value = Search(key, s)
    BY <2>3 DEF Found
  <2>5. result' = Append(result, e.value.docs)
    BY <1>1, <2>1, <2>2 DEF AnswerCached, Reply
  <2>6. Last(result') = e.value.docs
    BY <1>1, <2>5, Answers DEF ServiceInv
  <2> QED
    BY <2>1, <2>4, <2>6, ReadSame
<1>2. ServiceInv => (AnswerCached /\ ~request.return_scores =>
         Read(Last(result')) = Read(Search(Key(Query), FALSE).docs))
  BY <1>1 
<1> QED
  BY <1>2, ServiceInit, ServiceStep, PTL DEF RetrievalSpec, ToolUnaffected
=============================================================================
