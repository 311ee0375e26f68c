-------------------------- MODULE MCWeightTransfer --------------------------
(* A model whose small weights fill four buckets of two, one with a weight   *)
(* that is split over two buckets, and one whose buckets come to five, with  *)
(* a weight over three of them and one of exactly their size.                *)
EXTENDS WeightTransfer

MCModels == {<<1, 1, 2, 1, 1, 1>>, <<1, 3, 1>>, <<1, 5, 2>>}
=============================================================================
