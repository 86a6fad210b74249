------------------------------ MODULE MCServer ------------------------------
(* Instances of Server for TLC. *)
EXTENDS Server, TLC

Descriptors == 0..4

AllSymmetry == Permutations(Player) \cup Permutations(Listener)
=============================================================================
