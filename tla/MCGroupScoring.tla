--------------------------- MODULE MCGroupScoring ---------------------------
(* The batches of GroupScoring explored by TLC.                            *)
EXTENDS GroupScoring

SeqsUpTo(S, n) == UNION {[1..k -> S] : k \in 0..n}

\* Everything the reward tells apart, with at most one call.
AllInputs ==
  {t \in [multi : BOOLEAN, calls : SeqsUpTo(Outcomes, 1), shown : {TRUE}, written : BOOLEAN,
          evidence : BOOLEAN, answer : {"none", "wrong", "right"}, full : {FALSE}] :
     t.evidence => HasBlocks(t)}

\* Two calls a trajectory, for the filter and the baseline of a group.
TwoCalls ==
  {t \in [multi : {TRUE}, calls : SeqsUpTo({"docs", "timeout", "http_error", "empty_result"}, 2),
          shown : {TRUE}, written : {FALSE}, evidence : {FALSE},
          answer : {"wrong", "right"}, full : BOOLEAN] : t.full => Len(t.calls) < 2}

\* One trajectory for each verdict of the filter and each of three scores.
Verdicts ==
  [multi : {TRUE}, calls : {<<>>, <<"docs">>, <<"timeout">>}, shown : {TRUE}, written : {FALSE},
   evidence : {FALSE}, answer : {"wrong", "right"}, full : {FALSE}]

\* Two scores, for the sessions.
Answers ==
  [multi : {TRUE}, calls : {<<"docs">>}, shown : {TRUE}, written : {FALSE},
   evidence : {FALSE}, answer : {"wrong", "right"}, full : {FALSE}]

Legacy(uid, inputs) == [v1 |-> FALSE, uid |-> uid, inputs |-> inputs, outputs |-> {1}]

MCBatches ==
  {Legacy(<<1, 1>>, TwoCalls),
   Legacy(<<1, 1>>, AllInputs),
   Legacy(<<1, 1, 1, 2, 2>>, Verdicts),
   [v1 |-> TRUE, uid |-> <<1, 1, 2>>, inputs |-> Answers, outputs |-> 0..2]}
=============================================================================
