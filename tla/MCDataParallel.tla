---- MODULE MCDataParallel ----
(* Batches of three to five rows, shorter or longer, one token of each being *)
(* the prompt's; in one batch a row has no token with a loss, so that with   *)
(* three rows of padding a whole mini-batch may have none.                   *)
EXTENDS DataParallel

Row(len) == [len |-> len, mask |-> len - 1]
Masked(len) == [len |-> len, mask |-> 0]
MCSamples ==
  UNION {[1 .. n -> {Row(2), Row(3), Row(6)}] : n \in 3 .. 4} \cup [1 .. 5 -> {Row(2), Row(6)}]
    \cup {<<Row(2), Masked(3), Row(6), Row(3), Row(2)>>}
====
