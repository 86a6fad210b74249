------------------------------- MODULE MCList -------------------------------
(* Instances of List for TLC. *)
EXTENDS List, TLC

CONSTANTS t1, t2, t3, d1, d2

NodeSymmetry == Permutations(Node)

\* Any thread makes any call: concurrent pops, double removal and all.  Only the
\* inserts tell the data apart, so the others need one datum.
ApiCalls ==
  (Thread \X Inserts \X {d1, d2})
    \cup (Thread \X Walks \X {d1})
    \cup {<<t1, "list_destroy", d1>>}
=============================================================================
