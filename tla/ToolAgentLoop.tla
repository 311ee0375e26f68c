--------------------------- MODULE ToolAgentLoop ---------------------------
(***************************************************************************)
(* ToolAgentLoop.run: one trajectory of the tool agent, from its prompt to *)
(* the AgentLoopOutput, with the calls of a turn running concurrently.     *)
(*                                                                         *)
(* A token is its origin: the prompt, the model or a tool.  Images, videos *)
(* and the continuous token builder are left out: the recipe uses none.    *)
(***************************************************************************)
EXTENDS SearchTool, Integers, Sequences

CONSTANTS
  PromptLength,       \* rollout.prompt_length: the longest prompt
  ResponseLength,     \* rollout.response_length
  MaxAssistantTurns,  \* multi_turn.max_assistant_turns, 0 for no limit
  MaxUserTurns,       \* multi_turn.max_user_turns, 0 for no limit
  MaxParallelCalls,   \* multi_turn.max_parallel_calls
  MaxCalls,           \* bound: tool calls the model writes in one turn
  MaxToolTokens,      \* bound: tokens of the tool messages of one turn
  PartialRollout,     \* whether the client retries an aborted generation
  SeenOutcomes        \* the ends of a tool call an instance explores

ASSUME LoopAssumption ==
  /\ PromptLength \in Nat \ {0} /\ ResponseLength \in Nat \ {0}
  /\ MaxAssistantTurns \in Nat /\ MaxUserTurns \in Nat
  /\ MaxParallelCalls \in Nat \ {0} /\ MaxCalls \in Nat /\ MaxToolTokens \in Nat \ {0}
  /\ PartialRollout \in BOOLEAN
  /\ SeenOutcomes \subseteq Outcomes

VARIABLES
  state,             \* AgentState
  prompt_ids,        \* AgentData.prompt_ids: everything the model has been shown
  response_mask,     \* AgentData.response_mask
  response_logprobs, \* AgentData.response_logprobs: "lp" of the policy, "0.0" filled in
  assistant_turns, user_turns,
  calls,             \* the calls of the turn: "new", "open" (instance created),
                     \* "closing" (answered, release awaited) or "done"
  results,           \* how each of them ended
  instances,         \* SearchTool._metrics_by_instance: the instances alive
  extra,             \* the tool metrics in AgentData.extra_fields
  blocks,            \* <information> blocks among the tokens of prompt_ids
  output             \* the AgentLoopOutput, once there is one

vars == <<state, prompt_ids, response_mask, response_logprobs, assistant_turns,
          user_turns, calls, results, instances, extra, blocks, output>>

Tokens(kind, n) == [i \in 1..n |-> kind]
NoOutput == [done |-> FALSE]

Init ==
  /\ state = "PENDING"
  /\ prompt_ids = <<>> /\ response_mask = <<>> /\ response_logprobs = <<>>
  /\ assistant_turns = 0 /\ user_turns = 0
  /\ calls = <<>> /\ results = <<>> /\ instances = {}
  /\ extra = NoMetrics /\ blocks = 0
  /\ output = NoOutput

-----------------------------------------------------------------------------
\* _handle_pending_state: the chat template gives a prompt of some length.
HandlePending ==
  /\ state = "PENDING"
  /\ \E n \in 1..PromptLength : prompt_ids' = Tokens("prompt", n)
  /\ state' = "GENERATING"
  /\ UNCHANGED <<response_mask, response_logprobs, assistant_turns, user_turns,
                 calls, results, instances, extra, blocks, output>>

\* max_tokens of vLLMHttpServer.generate, clamped from below.
Least(a, b) == IF a <= b THEN a ELSE b
Most(a, b) == IF a >= b THEN a ELSE b
MaxTokens ==
  Most(1, Least(ResponseLength, PromptLength + ResponseLength - Len(prompt_ids)))

\* A server that pauses may answer with no token at all; without partial
\* rollout the client passes that on.
Lengths == (IF PartialRollout THEN 1 ELSE 0)..MaxTokens

Exhausted(mask, turns) ==
  \/ Len(mask) >= ResponseLength
  \/ MaxAssistantTurns > 0 /\ turns >= MaxAssistantTurns
  \/ MaxUserTurns > 0 /\ user_turns >= MaxUserTurns

\* The calls parsed from the generated tokens, the first max_parallel_calls of
\* which the next state runs.  No tokens, no calls.
ParsedCalls(n) == IF n = 0 THEN {0} ELSE 0..Least(MaxCalls, MaxParallelCalls)

\* _handle_generating_state.
HandleGenerating ==
  /\ state = "GENERATING"
  /\ \E n \in Lengths : \E k \in ParsedCalls(n) :
       /\ prompt_ids' = prompt_ids \o Tokens("model", n)
       /\ response_mask' = response_mask \o Tokens(1, n)
       /\ response_logprobs' = response_logprobs \o Tokens("lp", n)
       /\ assistant_turns' = assistant_turns + 1
       /\ IF Exhausted(response_mask', assistant_turns') \/ k = 0
          THEN state' = "TERMINATED" /\ UNCHANGED <<calls, results>>
          ELSE /\ state' = "PROCESSING_TOOLS"
               /\ calls' = Tokens("new", k)
               /\ results' = Tokens("none", k)
  /\ UNCHANGED <<user_turns, instances, extra, blocks, output>>

-----------------------------------------------------------------------------
(* _call_tool, of which a turn runs several at once (asyncio.gather).      *)

Running(i) == state = "PROCESSING_TOOLS" /\ i \in DOMAIN calls
CallFrame == UNCHANGED <<state, prompt_ids, response_mask, response_logprobs,
                         assistant_turns, user_turns, extra, blocks, output>>

\* The name or the arguments do not stand: no instance is made.
RejectCall(i) ==
  /\ Running(i) /\ calls[i] = "new"
  /\ \E o \in Rejected \cap SeenOutcomes : results' = [results EXCEPT ![i] = o]
  /\ calls' = [calls EXCEPT ![i] = "done"]
  /\ UNCHANGED instances /\ CallFrame

\* tool.create.
CreateInstance(i) ==
  /\ Running(i) /\ calls[i] = "new"
  /\ calls' = [calls EXCEPT ![i] = "open"]
  /\ instances' = instances \cup {i}
  /\ UNCHANGED results /\ CallFrame

\* tool.execute answers or raises; the finally clause follows either.
ExecuteTool(i) ==
  /\ Running(i) /\ calls[i] = "open"
  /\ \E o \in (Counted \cup {"raised"}) \cap SeenOutcomes :
       results' = [results EXCEPT ![i] = o]
  /\ calls' = [calls EXCEPT ![i] = "closing"]
  /\ UNCHANGED instances /\ CallFrame

\* tool.release in the finally clause.
ReleaseInstance(i) ==
  /\ Running(i) /\ calls[i] = "closing"
  /\ calls' = [calls EXCEPT ![i] = "done"]
  /\ instances' = instances \ {i}
  /\ UNCHANGED results /\ CallFrame

-----------------------------------------------------------------------------
\* Mutation of Fits: the last token of the budget is given away.
FitsExactly(n) == Len(response_mask) + n <= ResponseLength

Fits(n) == Len(response_mask) + n < ResponseLength

\* Mutation of AppendToolTokens: the tool's tokens are trained on.
AppendTrainedTokens(n) ==
  /\ prompt_ids' = prompt_ids \o Tokens("tool", n)
  /\ response_mask' = response_mask \o Tokens(1, n)
  /\ response_logprobs' = response_logprobs \o Tokens("0.0", n)

AppendToolTokens(n) ==
  /\ prompt_ids' = prompt_ids \o Tokens("tool", n)
  /\ response_mask' = response_mask \o Tokens(0, n)
  /\ response_logprobs' =
       IF response_logprobs = <<>> THEN <<>> ELSE response_logprobs \o Tokens("0.0", n)

\* Mutation of AllAnswered: only an answer of the tool counts as one.
AllCounted == \A i \in DOMAIN calls : calls[i] = "done" /\ results[i] \in Counted

\* asyncio.gather: an exception of a tool is an answer too.
AllAnswered == \A i \in DOMAIN calls : calls[i] = "done"

\* The rest of _handle_processing_tools_state, once gather has every answer:
\* the metrics are counted before the room for the tokens is known.
HandleToolResponses ==
  /\ state = "PROCESSING_TOOLS"
  /\ AllAnswered
  /\ extra' = Accumulate(extra, results)
  /\ \E n \in 1..MaxToolTokens :
       IF Fits(n)
       THEN /\ AppendToolTokens(n)
            /\ blocks' = blocks + Number(results, Counted)
            /\ user_turns' = user_turns + 1
            /\ state' = "GENERATING"
       ELSE /\ state' = "TERMINATED"
            /\ UNCHANGED <<prompt_ids, response_mask, response_logprobs, blocks, user_turns>>
  /\ calls' = <<>> /\ results' = <<>>
  /\ UNCHANGED <<assistant_turns, instances, output>>

\* Python's s[-n:] and s[:n]; s[-0:] is all of s.
LastOf(s, n) == IF n = 0 THEN s ELSE SubSeq(s, Len(s) - n + 1, Len(s))
Prefix(s, n) == SubSeq(s, 1, Least(n, Len(s)))

\* The end of run: the split of prompt_ids by the length of the mask.
Finalize ==
  /\ state = "TERMINATED" /\ ~output.done
  /\ output' = [done |-> TRUE,
                prompt_ids |-> Prefix(prompt_ids, Len(prompt_ids) - Len(response_mask)),
                response_ids |-> Prefix(LastOf(prompt_ids, Len(response_mask)), ResponseLength),
                response_mask |-> Prefix(response_mask, ResponseLength),
                response_logprobs |-> Prefix(response_logprobs, ResponseLength)]
  /\ UNCHANGED <<state, prompt_ids, response_mask, response_logprobs, assistant_turns,
                 user_turns, calls, results, instances, extra, blocks>>

CallNext == \E i \in 1..MaxCalls :
  RejectCall(i) \/ CreateInstance(i) \/ ExecuteTool(i) \/ ReleaseInstance(i)

Next == HandlePending \/ HandleGenerating \/ CallNext \/ HandleToolResponses \/ Finalize

\* Every await of the loop ends: the server answers, the search request has a
\* total timeout.
Spec == Init /\ [][Next]_vars /\ WF_vars(Next)

-----------------------------------------------------------------------------
(* Properties.                                                             *)

\* The types of the variables, the three sequences of AgentData in step.
LoopTypeOK ==
  /\ state \in {"PENDING", "GENERATING", "PROCESSING_TOOLS", "TERMINATED"}
  /\ prompt_ids \in Seq({"prompt", "model", "tool"})
  /\ response_mask \in Seq({0, 1})
  /\ response_logprobs \in Seq({"lp", "0.0"})
  /\ assistant_turns \in Nat /\ user_turns \in Nat
  /\ calls \in Seq({"new", "open", "closing", "done"})
  /\ results \in Seq({"none"} \cup Outcomes) /\ Len(results) = Len(calls)
  /\ instances \subseteq 1..MaxCalls
  /\ extra \in MetricsType /\ blocks \in Nat
  /\ output.done \in BOOLEAN

\* The trainer takes the loss over the tokens whose mask is 1: in the output
\* these are the tokens the model generated, no other, each with its own
\* logprob, and the prompt is the prompt.  (run, lines 184-206)
MaskMarksTheModel ==
  output.done =>
    /\ \A i \in DOMAIN output.prompt_ids : output.prompt_ids[i] = "prompt"
    /\ Len(output.response_mask) = Len(output.response_ids)
    /\ \A i \in DOMAIN output.response_ids :
         /\ output.response_ids[i] = "model" <=> output.response_mask[i] = 1
         /\ output.response_ids[i] # "prompt"
    /\ output.response_logprobs # <<>> =>
         /\ Len(output.response_logprobs) = Len(output.response_mask)
         /\ \A i \in DOMAIN output.response_mask :
              output.response_logprobs[i] = "lp" <=> output.response_mask[i] = 1

\* No turn is asked of the server without room for a token, so that the clamp
\* of max_tokens never lets a trajectory outgrow the context.
ContextBounded ==
  /\ state = "GENERATING" => Len(prompt_ids) < PromptLength + ResponseLength
  /\ Len(prompt_ids) <= PromptLength + ResponseLength

\* The counters agree with each other: every counted call is a success or a
\* failure, and there is an exception type exactly if one failed.
MetricsAgree ==
  /\ extra.called = extra.success + extra.failed
  /\ extra.timeout <= extra.failed
  /\ extra.failed > 0 <=> extra.exception # "none"

\* The loop ends, by its token budget if no limit of turns is set.
LoopEnds == <>output.done
=============================================================================
