----------------------------- MODULE ChunkPool -----------------------------
(***************************************************************************)
(* What the memory pool promises its callers: mempool_get hands out a      *)
(* chunk that nobody holds, and mempool_free takes back only the one.      *)
(***************************************************************************)
EXTENDS Naturals

CONSTANT Chunk

VARIABLE holders   \* how many callers hold each chunk

Init == holders = [c \in Chunk |-> 0]

Get(c) == holders[c] = 0 /\ holders' = [holders EXCEPT ![c] = 1]

Free(c) == holders[c] = 1 /\ holders' = [holders EXCEPT ![c] = 0]

Next == \E c \in Chunk : Get(c) \/ Free(c)

Spec == Init /\ [][Next]_holders
=============================================================================
