-------------------------- MODULE SessionAdvantage --------------------------
(***************************************************************************)
(* compute_advantage_for_multi_trajectories (v1/utils.py), as operators: a *)
(* session may have stored several outputs, rows of the batch in the order *)
(* the sampler gave them, with the keys {uid}_{session_id}_{index} and the *)
(* score of the last output; GRPO is to see one row a session.             *)
(*                                                                         *)
(* rows is a sequence of [session, index, trained], trained telling whether*)
(* the row's response mask has a token.                                    *)
(***************************************************************************)
EXTENDS GrpoAdvantage, Sequences

SessionsIn(rows) == {rows[r].session : r \in DOMAIN rows}
RowsOf(rows, s) == {r \in DOMAIN rows : rows[r].session = s}

\* Mutation of FinalRow: the last row of the session in the batch.
LastRow(rows, s) == Max(RowsOf(rows, s))

\* The output with the largest index, wherever it is in the batch.
FinalRow(rows, s) ==
  CHOOSE r \in RowsOf(rows, s) : \A q \in RowsOf(rows, s) : rows[q].index <= rows[r].index

FinalRows(rows) == {FinalRow(rows, s) : s \in SessionsIn(rows)}

\* Read at the first token of the final row's mask: 0 if it has none.
SessionAdvantageOf(rows, score, uid, s) ==
  IF ~rows[FinalRow(rows, s)].trained THEN 0
  ELSE Normalized([r \in FinalRows(rows) |-> score[rows[r].session]],
                  [r \in FinalRows(rows) |-> uid[rows[r].session]],
                  FinalRows(rows), FinalRow(rows, s))

\* The session's advantage on the tokens of each row's own mask.
Broadcast(rows, score, uid) ==
  [r \in DOMAIN rows |->
     IF rows[r].trained THEN SessionAdvantageOf(rows, score, uid, rows[r].session) ELSE 0]
=============================================================================
