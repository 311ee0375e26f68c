---- MODULE MCCheckpoint ----
(* The worker groups that save, in their order: a sequence, which a .cfg     *)
(* cannot give.                                                              *)
EXTENDS Checkpoint

MCRoles == <<"actor", "critic">>
====
