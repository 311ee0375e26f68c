---------------------------- MODULE SearchReward ----------------------------
(***************************************************************************)
(* The recipe's reward of one trajectory (qa_em_tool_reward.py) and its    *)
(* anomaly filter (trajectory_filter.py), as operators.                    *)
(*                                                                         *)
(* A trajectory is what the reward manager and the filter see of it:       *)
(*   multi     the data source is a multi-hop one                          *)
(*   calls     the ends of its search calls, in the order of the calls     *)
(*   shown     the answers of its last turn fitted into the response       *)
(*   written   the model wrote an <information> block of its own           *)
(*   evidence  a block of the response contains a target answer            *)
(*   answer    "none" without an <answer> tag, else "wrong" or "right"     *)
(*   full      the response has the maximal length                         *)
(* Scores are counted in hundredths.                                       *)
(***************************************************************************)
EXTENDS SearchTool, Integers, Sequences, FiniteSetsExt

Trajectory == [multi : BOOLEAN, calls : Seq(Outcomes), shown : BOOLEAN, written : BOOLEAN,
               evidence : BOOLEAN, answer : {"none", "wrong", "right"}, full : BOOLEAN]

\* The metrics the agent loop accumulated (one call a turn in the recipe).
Extra(t) == Accumulate(NoMetrics, t.calls)

\* "tool/search_called" is in extra_info as soon as one call was counted.
MetricsAvailable(t) == Extra(t).called > 0

\* The answers of the calls that are in the response text.
ShownCalls(t) == IF t.shown \/ t.calls = <<>> THEN t.calls
                 ELSE SubSeq(t.calls, 1, Len(t.calls) - 1)

\* extract_information_blocks: those of the tool and those of the model.
HasBlocks(t) == t.written \/ Number(ShownCalls(t), Counted) > 0

\* extract_tool_state: the metrics if there are any, else the blocks.  Blocks
\* without metrics are the model's own: they do not say "Search failed:".
SearchCalls(t) == IF MetricsAvailable(t) THEN Extra(t).called
                  ELSE IF t.written THEN 1 ELSE 0

\* Mutation of HasSuccessfulSearch: a call that failed counts as a search.
HasSearched(t) == SearchCalls(t) > 0

HasSuccessfulSearch(t) ==
  IF MetricsAvailable(t) THEN Extra(t).success > 0 ELSE t.written

\* retrieval_contains_answer over the blocks of the response.
RetrievalOk(t) == HasBlocks(t) /\ t.evidence

HasAnswer(t) == t.answer # "none"
Correct(t) == t.answer = "right"

Clamp(lo, x, hi) == IF x < lo THEN lo ELSE IF x > hi THEN hi ELSE x
When(b, x) == IF b THEN x ELSE 0

\* compute_score.
Score(t) ==
  Clamp(-20, When(Correct(t), 80) + When(HasAnswer(t), 10) + When(HasSuccessfulSearch(t), 5)
               + When(RetrievalOk(t), 5) - When(t.multi /\ ~HasSuccessfulSearch(t), 20), 100)

-----------------------------------------------------------------------------
MaxToolCalls == 10

DetectToolAnomalies(t) ==
  {a \in {"tool_timeout", "tool_http_error", "tool_response_truncated"} :
     \/ a = "tool_timeout" /\ Extra(t).timeout > 0
     \/ a = "tool_http_error" /\ Extra(t).exception = "http_error"
     \/ a = "tool_response_truncated" /\ Extra(t).truncated > 0}

DetectRolloutAnomalies(t) ==
  {a \in {"sequence_truncated", "max_tool_calls_exceeded"} :
     \/ a = "sequence_truncated" /\ t.full
     \/ a = "max_tool_calls_exceeded" /\ SearchCalls(t) > MaxToolCalls}

DetectFormatAnomalies(t) ==
  IF ~HasAnswer(t) THEN {"no_final_answer"} ELSE IF ~Correct(t) THEN {"wrong_answer"} ELSE {}

Anomalies(t) == DetectToolAnomalies(t) \cup DetectRolloutAnomalies(t) \cup DetectFormatAnomalies(t)

DefaultMaskOn == {"tool_timeout", "tool_http_error", "tool_parse_error", "retriever_crash",
                  "sequence_truncated", "rollout_engine_error"}

\* classify_trajectory.
ShouldMask(t) == Anomalies(t) \cap DefaultMaskOn # {}

MinValidTrajectories == 2

\* filter_group: the trajectories that stay valid, none in a skipped group.
FilterGroup(ts) ==
  LET valid == {i \in DOMAIN ts : ~ShouldMask(ts[i])}
  IN IF Cardinality(valid) < MinValidTrajectories THEN {} ELSE valid
=============================================================================
