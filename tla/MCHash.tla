------------------------------- MODULE MCHash -------------------------------
(* Instances of Hash for TLC. *)
EXTENDS Hash, TLC

CONSTANTS t1, t2, k1, k2, k3

\* The keys collide in small tables and separate in larger ones.
Hashes == << (k1 :> 1) @@ (k2 :> 5) @@ (k3 :> 6), (k1 :> 2) @@ (k2 :> 0) @@ (k3 :> 7) >>

\* Two clients that use the whole interface between them, but the flag.
MapOps == (t1 :> {"hash_search", "hash_delete", "hash_keys"})
            @@ (t2 :> {"hash_replace", "hash_find", "hash_delete", "hash_rehash"})

\* Inserts and failing deletes race for the resize, and both clients configure the table.
LoadOps == (t1 :> {"hash_replace", "hash_delete", "hash_setthresholds"})
             @@ (t2 :> {"hash_replace", "hash_setflag", "hash_clearflag", "hash_setthresholds",
                        "hash_sethashfunction"})

\* One client inserts and deletes while the other freezes the table.
FreezeOps == (t1 :> {"hash_replace", "hash_delete"})
               @@ (t2 :> {"hash_setflag", "hash_clearflag", "hash_search"})

\* Binary fractions: the code's floats hold them exactly.
Quarters == {5, 15}
=============================================================================
