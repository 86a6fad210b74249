------------------------------ MODULE AttrMap ------------------------------
(***************************************************************************)
(* What the attributes of 3w3_alloc.c promise: a map from names to values  *)
(* for each object, which starts empty.                                    *)
(***************************************************************************)
EXTENDS Integers, FiniteSets, Sequences

CONSTANTS Obj, Name, Value, None, MaxAttrs

VARIABLES map, ret   \* ret: the result of the last call, if it has one

Empty == [n \in Name |-> None]

Init == map = [o \in Obj |-> Empty] /\ ret = <<>>

\* The object is created or goes, with all its attributes; one attribute is set; one is
\* deleted.
Reset(o)     == map' = [map EXCEPT ![o] = Empty]
Set(o, n, v) == map' = [map EXCEPT ![o][n] = v]
Del(o, n)    == map' = [map EXCEPT ![o][n] = None]

Get(o, n) == ret' = <<n, map[o][n]>>

\* As many of the attributes as fit, each once.
GetAll(o, k) ==
  LET present == {n \in Name : map[o][n] # None}
  IN  \E S \in SUBSET present :
        /\ Cardinality(S) = IF Cardinality(present) < k THEN Cardinality(present) ELSE k
        /\ Len(ret') = Cardinality(S)
        /\ {ret'[i] : i \in 1..Len(ret')} = {<<n, map[o][n]>> : n \in S}

Next ==
  \/ /\ ret' = <<>>
     /\ \E o \in Obj :
          /\ map'[o] # map[o]
          /\ \/ Reset(o)
             \/ \E n \in Name :
                  /\ map'[o][n] # map[o][n]
                  /\ Del(o, n) \/ \E v \in Value : Set(o, n, v)
  \/ /\ UNCHANGED map
     /\ \/ ret' = <<>>
        \/ \E o \in Obj : (\E n \in Name : Get(o, n)) \/ (\E k \in 0..MaxAttrs : GetAll(o, k))

Spec == Init /\ [][Next]_<<map, ret>>
=============================================================================
