------------------------------- MODULE MCDns -------------------------------
(* Instances of Dns for TLC. *)
EXTENDS Dns, TLC

CONSTANTS a1, a2, n1

\* One address has a name and the other has none.
Hosts == (a1 :> n1) @@ (a2 :> NULL)

ThreadSymmetry == Permutations(Thread)
=============================================================================
