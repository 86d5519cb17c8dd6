-------------------------------- MODULE Tensors --------------------------------
(***************************************************************************)
(* Containers of different rank in one model: TensorIndexing for each.     *)
(***************************************************************************)
EXTENDS Integers

Indexing(rank) == INSTANCE TensorIndexing WITH Rank <- rank
================================================================================
