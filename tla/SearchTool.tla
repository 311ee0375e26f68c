----------------------------- MODULE SearchTool -----------------------------
(***************************************************************************)
(* What one call of the recipe's search tool leaves behind: the metrics    *)
(* that ToolAgentLoop._call_tool hands to the loop, and the way the loop   *)
(* accumulates them over a trajectory.                                     *)
(*                                                                         *)
(* A call ends in one of the Outcomes.  Texts, latencies and the number of *)
(* documents (above zero or zero) are abstracted.                          *)
(***************************************************************************)
EXTENDS Naturals, FiniteSets

\* SearchTool.execute answered, with its metrics.  "docs" and "truncated" are
\* the successes; the others carry the exception type they are named after.
Succeeded == {"docs", "truncated"}
Failed == {"empty_result", "timeout", "http_error", "unknown_error", "empty_query"}
Counted == Succeeded \cup Failed  \* their texts come in <information> tags

\* _call_tool answered for the tool: a function that is not active, arguments
\* that are no JSON, or an exception out of execute (arguments that are not an
\* object, a topk that is no number).  No metrics come with these.
Rejected == {"unknown_function", "invalid_json"}
Uncounted == Rejected \cup {"raised"}

Outcomes == Counted \cup Uncounted

ExceptionTypes == {"none"} \cup Failed
ExceptionOf(o) == IF o \in Failed THEN o ELSE "none"

NoMetrics == [called |-> 0, success |-> 0, failed |-> 0, timeout |-> 0,
              truncated |-> 0, exception |-> "none"]

MetricsType == [called : Nat, success : Nat, failed : Nat, timeout : Nat,
                truncated : Nat, exception : ExceptionTypes]

\* How many of the results end in a member of os.
Number(results, os) == Cardinality({i \in DOMAIN results : results[i] \in os})

\* dict.setdefault over the calls in the order the model wrote them: the first
\* exception type of the trajectory stays, whatever follows.
FirstException(old, results) ==
  IF old # "none" \/ Number(results, Failed) = 0 THEN old
  ELSE ExceptionOf(results[CHOOSE i \in DOMAIN results :
                              /\ results[i] \in Failed
                              /\ \A j \in DOMAIN results : results[j] \in Failed => i <= j])

\* Mutation of Accumulate: an empty result is no failure.
AccumulateWithoutEmpty(extra, results) ==
  [extra EXCEPT !.called = @ + Number(results, Counted),
                !.success = @ + Number(results, Succeeded),
                !.failed = @ + Number(results, Failed \ {"empty_result"}),
                !.timeout = @ + Number(results, {"timeout"}),
                !.exception = FirstException(@, results)]

\* The accumulation over the calls of one turn: numbers add up, the exception
\* type does not.
Accumulate(extra, results) ==
  [called    |-> extra.called + Number(results, Counted),
   success   |-> extra.success + Number(results, Succeeded),
   failed    |-> extra.failed + Number(results, Failed),
   timeout   |-> extra.timeout + Number(results, {"timeout"}),
   truncated |-> extra.truncated + Number(results, {"truncated"}),
   exception |-> FirstException(extra.exception, results)]
=============================================================================
