------------------------------- MODULE KVMap -------------------------------
(***************************************************************************)
(* What the hash table promises its callers: a map whose operations are    *)
(* atomic, with the results of 3w3_hash.c (0 for a key that was there).    *)
(***************************************************************************)
EXTENDS Integers, FiniteSets

CONSTANTS Thread, Key, Data, None

VARIABLES map, ret

Init ==
  /\ map = [k \in Key |-> None]
  /\ ret = [t \in Thread |-> <<0, None>>]

Present == {k \in Key : map[k] # None}

Return(t, r) == ret' = [ret EXCEPT ![t] = r]

\* Insert unless present; the value that is there then.
Search(t, k, d) ==
  IF k \in Present
  THEN Return(t, <<0, map[k]>>) /\ UNCHANGED map
  ELSE Return(t, <<1, d>>) /\ map' = [map EXCEPT ![k] = d]

Find(t, k) ==
  /\ Return(t, IF k \in Present THEN <<0, map[k]>> ELSE <<1, None>>)
  /\ UNCHANGED map

Replace(t, k, d) ==
  /\ Return(t, IF k \in Present THEN <<0, map[k]>> ELSE <<1, None>>)
  /\ map' = [map EXCEPT ![k] = d]

Delete(t, k) ==
  /\ Return(t, IF k \in Present THEN <<0, map[k]>> ELSE <<1, None>>)
  /\ map' = [map EXCEPT ![k] = None]

Keys(t) == Return(t, <<Cardinality(Present), Present>>) /\ UNCHANGED map

Next ==
  \E t \in Thread :
    \/ Keys(t)
    \/ \E k \in Key : Find(t, k) \/ Delete(t, k)
    \/ \E k \in Key, d \in Data : Search(t, k, d) \/ Replace(t, k, d)

Spec == Init /\ [][Next]_<<map, ret>>
=============================================================================
