------------------------------ MODULE MCAlloc ------------------------------
(* Instances of Alloc for TLC. *)
EXTENDS Alloc, TLC

AllSymmetry == Permutations(Obj) \cup Permutations(Name)
=============================================================================
