---- MODULE MCRetrieval ----
(* Two queries, one of which the index answers with too few documents. *)
EXTENDS Retrieval

CONSTANTS a, b
MCHits == (a :> <<2, 0>>) @@ (b :> <<1>>)
====
