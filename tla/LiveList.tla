------------------------------ MODULE LiveList ------------------------------
(***************************************************************************)
(* What a list of 3w3_list.c promises its clients: a sequence of data that *)
(* grows at its two ends and loses elements one at a time, in place.       *)
(***************************************************************************)
EXTENDS Sequences, SequencesExt

CONSTANT Data

VARIABLE live

Init == live = <<>>

\* What s can become: a datum is added at either end, or any one element goes.
Grown(s)  == {Append(s, d) : d \in Data} \cup {<<d>> \o s : d \in Data}
Shrunk(s) == {RemoveAt(s, i) : i \in DOMAIN s}

Next == live' \in Grown(live) \cup Shrunk(live)

Spec == Init /\ [][Next]_live
=============================================================================
