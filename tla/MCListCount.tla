---------------------------- MODULE MCListCount ----------------------------
(* Instances of ListCount for TLC. *)
EXTENDS ListCount, TLC

CONSTANTS t1, t2, t3, d1, d2

\* A thread inserts and deletes its own datum, one inserts and scans, and one scans and
\* takes nodes, also those that the first is deleting.
SharedCalls ==
  {<<t1, o, d1>> : o \in {"list_push", "list_delete_data"}}
    \cup {<<t2, o, d2>> : o \in {"list_push", "list_next"}}
    \cup {<<t3, o, d1>> : o \in {"list_next", "list_pop"}}
=============================================================================
