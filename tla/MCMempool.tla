----------------------------- MODULE MCMempool -----------------------------
(* Instances of Mempool for TLC. *)
EXTENDS Mempool, TLC

PageSymmetry == Permutations(Page)
=============================================================================
