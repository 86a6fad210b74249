----------------------------- MODULE ListProofs -----------------------------
(***************************************************************************)
(* Proofs about List, for every set of threads, nodes and data and every   *)
(* set of calls.                                                           *)
(***************************************************************************)
EXTENDS ListCount, CommonLemmas, FiniteSetTheorems, TLAPS

\* Where a cursor is NULL and where it is not; a list_destroy runs alone.
Control ==
  \A t \in Thread :
    /\ pc[t] \in {"remove", "deref"} => cur[t] # NULL
    /\ pc[t] \in {"idle", "destroy"} => cur[t] = NULL
    /\ pc[t] = "destroy" => \A u \in Thread \ {t} : pc[u] = "idle"

\* The asserts on p in node_new: what is in the list is a datum.
HasData == \A n \in heap : data[n] \in Data

\* The inductive invariant.  list_deref frees a node on the counters alone, so
\* that the freed node is under nobody's cursor rests on RefcountExact; that the
\* pointers list_unlink writes through are allocated rests on Links.
IInv ==
  /\ TypeOK
  /\ Control
  /\ HasData
  /\ CursorSafe
  /\ RefcountExact
  /\ Reclaimed
  /\ Links
  /\ NoCycle
  /\ ItemsExact

-----------------------------------------------------------------------------
(* The chain *)

\* What list_unlink does to the chain.
Spliced(n) == Splice(n) /\ heap' = heap \ {n}

\* No node of the chain is its own neighbour.
LEMMA NoSelfLoop ==
  TypeOK /\ Links /\ NoCycle => \A n \in heap : next[n] # n /\ prev[n] # n
<1> SUFFICES ASSUME TypeOK, Links, NoCycle, NEW n \in heap
             PROVE  next[n] # n /\ prev[n] # n
  OBVIOUS
<1>1. next[n] # n
  <2>1. {n} \in SUBSET heap /\ {n} # {}
    OBVIOUS
  <2>2. \E x \in {n} : next[x] \notin {n}
    BY <2>1 DEF NoCycle
  <2> QED BY <2>2
<1>2. prev[n] # n
  BY <1>1, NullNotObject DEF TypeOK, Links
<1> QED BY <1>1, <1>2

\* A chain whose first node is its last has no other node.
LEMMA Singleton ==
  TypeOK /\ Links /\ NoCycle => \A n \in heap : n = start /\ n = end => heap = {n}
<1> SUFFICES ASSUME TypeOK, Links, NoCycle, NEW n \in heap, n = start, n = end
             PROVE  heap = {n}
  OBVIOUS
<1>1. \A m \in heap \ {n} : next[m] \in heap \ {n}
  BY NullNotObject DEF TypeOK, Links
<1>2. heap \ {n} \in SUBSET heap
  OBVIOUS
<1>3. heap \ {n} = {}
  BY <1>1, <1>2 DEF NoCycle
<1> QED BY <1>3

\* The private function list_unlink leaves a whole chain of the other nodes.
LEMMA SplicedChain ==
  TypeOK /\ Links /\ NoCycle =>
    \A n \in heap : Spliced(n) => Links' /\ NoCycle'
<1> SUFFICES ASSUME TypeOK, Links, NoCycle, NEW n \in heap, Spliced(n)
             PROVE  Links' /\ NoCycle'
  OBVIOUS
<1>0. n \in Node /\ NULL \notin Node /\ heap \subseteq Node
  BY NullNotObject DEF TypeOK
<1>1. next[n] # n /\ prev[n] # n
  BY NoSelfLoop
<1>2. \A m \in heap' : m \in heap /\ m # n /\ m \in Node
  BY <1>0 DEF Spliced, Splice
<1>3. \A m \in heap' : next'[m] = IF m = prev[n] THEN next[n] ELSE next[m]
  BY <1>2 DEF Spliced, Splice
<1>4. \A m \in heap' : prev'[m] = IF m = next[n] THEN prev[n] ELSE prev[m]
  BY <1>2 DEF Spliced, Splice
<1>5. Links'
  <2>1. start' = NULL <=> heap' = {}
    BY <1>0, <1>1, Singleton DEF Spliced, Splice, Links
  <2>2. end' = NULL <=> heap' = {}
    BY <1>0, <1>1, Singleton DEF Spliced, Splice, Links
  <2>3. start' # NULL => start' \in heap' /\ prev'[start'] = NULL
    BY <1>0, <1>1, <1>4 DEF Spliced, Splice, Links
  <2>4. end' # NULL => end' \in heap' /\ next'[end'] = NULL
    BY <1>0, <1>1, <1>3 DEF Spliced, Splice, Links
  <2>5. ASSUME NEW m \in heap'
        PROVE  /\ next'[m] # NULL => next'[m] \in heap' /\ prev'[next'[m]] = m
               /\ prev'[m] # NULL => prev'[m] \in heap' /\ next'[prev'[m]] = m
               /\ next'[m] = NULL => m = end'
               /\ prev'[m] = NULL => m = start'
    <3>1. next'[m] # NULL => next'[m] \in heap' /\ prev'[next'[m]] = m
      BY <1>0, <1>1, <1>2, <1>3, <1>4, <2>5 DEF Spliced, Splice, Links
    <3>2. prev'[m] # NULL => prev'[m] \in heap' /\ next'[prev'[m]] = m
      BY <1>0, <1>1, <1>2, <1>3, <1>4, <2>5 DEF Spliced, Splice, Links
    <3>3. next'[m] = NULL => m = end'
      BY <1>0, <1>1, <1>2, <1>3, <2>5 DEF Spliced, Splice, Links
    <3>4. prev'[m] = NULL => m = start'
      BY <1>0, <1>1, <1>2, <1>4, <2>5 DEF Spliced, Splice, Links
    <3> QED BY <3>1, <3>2, <3>3, <3>4
  <2> QED BY <2>1, <2>2, <2>3, <2>4, <2>5 DEF Links
<1>6. NoCycle'
  <2> SUFFICES ASSUME NEW S \in SUBSET heap', S # {},
                      \A m \in S : next'[m] \in S
               PROVE  FALSE
    BY DEF NoCycle
  <2>1. CASE prev[n] \in S
    <3>1. S \cup {n} \in SUBSET heap /\ S \cup {n} # {}
      BY <1>2
    <3>2. next[n] \in S
      BY <1>3, <2>1
    <3>3. \A m \in S \cup {n} : next[m] \in S \cup {n}
      BY <1>2, <1>3, <1>0, <3>2, <2>1 DEF Links
    <3> QED BY <3>1, <3>3 DEF NoCycle
  <2>2. CASE prev[n] \notin S
    <3>1. S \in SUBSET heap
      BY <1>2
    <3>2. \A m \in S : next[m] \in S
      BY <1>3, <2>2
    <3> QED BY <3>1, <3>2 DEF NoCycle
  <2> QED BY <2>1, <2>2
<1> QED BY <1>5, <1>6

\* list_push and list_unshift extend a whole chain at one end.
LEMMA InsertChain ==
  TypeOK /\ Links /\ NoCycle =>
    \A t \in Thread, d \in Data :
      list_push(t, d) \/ list_unshift(t, d) => Links' /\ NoCycle'
<1> SUFFICES ASSUME TypeOK, Links, NoCycle, NEW t \in Thread, NEW d \in Data
             PROVE  list_push(t, d) \/ list_unshift(t, d) => Links' /\ NoCycle'
  OBVIOUS
<1>0. NULL \notin Node /\ heap \subseteq Node
  BY NullNotObject DEF TypeOK
<1>1. ASSUME list_push(t, d) PROVE Links' /\ NoCycle'
  <2>1. PICK n \in Node : /\ n \notin heap
                          /\ heap' = heap \cup {n}
                          /\ end' = n
                          /\ start' = IF start = NULL THEN n ELSE start
                          /\ next' = IF start = NULL THEN [next EXCEPT ![n] = NULL]
                                     ELSE [next EXCEPT ![end] = n, ![n] = NULL]
                          /\ prev' = IF start = NULL THEN [prev EXCEPT ![n] = NULL]
                                     ELSE [prev EXCEPT ![n] = end]
    BY <1>1 DEF list_push, node_new
  <2>2. next'[n] = NULL /\ prev'[n] = end /\ prev'[n] # n
    BY <1>0, <2>1 DEF TypeOK, Links
  <2>3. \A m \in heap : /\ next'[m] = IF m = end THEN n ELSE next[m]
                        /\ prev'[m] = prev[m]
    BY <1>0, <2>1 DEF TypeOK, Links
  <2>4. Links'
    <3>0. /\ n \notin heap /\ heap' = heap \cup {n}
          /\ start' = IF start = NULL THEN n ELSE start
          /\ end' = n
      BY <2>1
    <3>1. /\ start' # NULL /\ end' # NULL /\ heap' # {}
          /\ start' \in heap' /\ prev'[start'] = NULL
          /\ end' \in heap' /\ next'[end'] = NULL
      BY <1>0, <3>0, <2>2, <2>3 DEF Links
    <3>2. ASSUME NEW m \in heap'
          PROVE  /\ next'[m] # NULL => next'[m] \in heap' /\ prev'[next'[m]] = m
                 /\ prev'[m] # NULL => prev'[m] \in heap' /\ next'[prev'[m]] = m
                 /\ next'[m] = NULL => m = end'
                 /\ prev'[m] = NULL => m = start'
      <4>1. CASE m = n
        BY <1>0, <3>0, <2>2, <2>3, <3>2, <4>1 DEF Links
      <4>2. CASE m # n
        BY <1>0, <3>0, <2>2, <2>3, <3>2, <4>2 DEF Links
      <4> QED BY <4>1, <4>2
    <3> QED BY <3>1, <3>2 DEF Links
  <2>5. NoCycle'
    <3> SUFFICES ASSUME NEW S \in SUBSET heap', S # {},
                        \A m \in S : next'[m] \in S
                 PROVE  FALSE
      BY DEF NoCycle
    <3>1. n \notin S
      BY <1>0, <2>1, <2>2
    <3>2. S \in SUBSET heap
      BY <2>1, <3>1
    <3>3. \A m \in S : next[m] \in S
      BY <2>3, <3>1, <3>2
    <3> QED BY <3>2, <3>3 DEF NoCycle
  <2> QED BY <2>4, <2>5
<1>2. ASSUME list_unshift(t, d) PROVE Links' /\ NoCycle'
  <2>1. PICK n \in Node : /\ n \notin heap
                          /\ heap' = heap \cup {n}
                          /\ start' = n
                          /\ end' = IF start = NULL THEN n ELSE end
                          /\ next' = IF start = NULL THEN [next EXCEPT ![n] = NULL]
                                     ELSE [next EXCEPT ![n] = start]
                          /\ prev' = IF start = NULL THEN [prev EXCEPT ![n] = NULL]
                                     ELSE [prev EXCEPT ![start] = n, ![n] = NULL]
    BY <1>2 DEF list_unshift, node_new
  <2>2. prev'[n] = NULL /\ next'[n] = start /\ next'[n] # n
    BY <1>0, <2>1 DEF TypeOK, Links
  <2>3. \A m \in heap : /\ prev'[m] = IF m = start THEN n ELSE prev[m]
                        /\ next'[m] = next[m]
    BY <1>0, <2>1 DEF TypeOK, Links
  <2>4. Links'
    <3>0. /\ n \notin heap /\ heap' = heap \cup {n}
          /\ start' = n
          /\ end' = IF start = NULL THEN n ELSE end
      BY <2>1
    <3>1. /\ start' # NULL /\ end' # NULL /\ heap' # {}
          /\ start' \in heap' /\ prev'[start'] = NULL
          /\ end' \in heap' /\ next'[end'] = NULL
      BY <1>0, <3>0, <2>2, <2>3 DEF Links
    <3>2. ASSUME NEW m \in heap'
          PROVE  /\ next'[m] # NULL => next'[m] \in heap' /\ prev'[next'[m]] = m
                 /\ prev'[m] # NULL => prev'[m] \in heap' /\ next'[prev'[m]] = m
                 /\ next'[m] = NULL => m = end'
                 /\ prev'[m] = NULL => m = start'
      <4>1. CASE m = n
        BY <1>0, <3>0, <2>2, <2>3, <3>2, <4>1 DEF Links
      <4>2. CASE m # n
        BY <1>0, <3>0, <2>2, <2>3, <3>2, <4>2 DEF Links
      <4> QED BY <4>1, <4>2
    <3> QED BY <3>1, <3>2 DEF Links
  <2>5. NoCycle'
    <3> SUFFICES ASSUME NEW S \in SUBSET heap', S # {},
                        \A m \in S : next'[m] \in S
                 PROVE  FALSE
      BY DEF NoCycle
    <3>1. S \ {n} \in SUBSET heap
      BY <2>1
    <3>2. S \ {n} # {}
      BY <2>2
    <3>3. \A m \in S \ {n} : next[m] \in S \ {n}
      BY <1>0, <2>1, <2>3, <3>1 DEF Links
    <3> QED BY <3>1, <3>2, <3>3 DEF NoCycle
  <2> QED BY <2>4, <2>5
<1> QED BY <1>1, <1>2

-----------------------------------------------------------------------------
(* The counters *)

\* The cursors of a node are finitely many.
LEMMA CursorsFinite ==
  \A n : IsFiniteSet(Cursors(n)) /\ Cardinality(Cursors(n)) \in Nat
BY ThreadFinite, FS_Subset, FS_CardinalityType DEF Cursors

\* A cursor that moves from c to n changes the number of cursors of these two.
LEMMA CursorMove ==
  ASSUME TypeOK, NEW t \in Thread, NEW n, cur' = [cur EXCEPT ![t] = n], n # cur[t]
  PROVE  \A m \in Node :
           Cardinality(Cursors(m)') =
             CASE m = n -> Cardinality(Cursors(m)) + 1
               [] m = cur[t] -> Cardinality(Cursors(m)) - 1
               [] OTHER -> Cardinality(Cursors(m))
<1> SUFFICES ASSUME NEW m \in Node
             PROVE  Cardinality(Cursors(m)') =
                      CASE m = n -> Cardinality(Cursors(m)) + 1
                        [] m = cur[t] -> Cardinality(Cursors(m)) - 1
                        [] OTHER -> Cardinality(Cursors(m))
  OBVIOUS
<1>1. CASE m = n
  <2>1. Cursors(m)' = Cursors(m) \cup {t} /\ t \notin Cursors(m)
    BY <1>1 DEF Cursors, TypeOK
  <2> QED BY <1>1, <2>1, CursorsFinite, FS_AddElement
<1>2. CASE m # n /\ m = cur[t]
  <2>1. Cursors(m)' = Cursors(m) \ {t} /\ t \in Cursors(m)
    BY <1>2 DEF Cursors, TypeOK
  <2> QED BY <1>2, <2>1, CursorsFinite, FS_RemoveElement
<1>3. CASE m # n /\ m # cur[t]
  <2>1. Cursors(m)' = Cursors(m)
    BY <1>3 DEF Cursors, TypeOK
  <2> QED BY <1>3, <2>1
<1> QED BY <1>1, <1>2, <1>3

\* The part of TypeOK and of IInv that speaks of the nodes and the list only.
NodeType ==
  /\ heap \in SUBSET Node
  /\ data \in [Node -> Data \cup {NULL}]
  /\ next \in [Node -> Node \cup {NULL}]
  /\ prev \in [Node -> Node \cup {NULL}]
  /\ rc \in [Node -> Int]
  /\ ic \in [Node -> Int]
  /\ removed \in [Node -> Nat]
  /\ start \in Node \cup {NULL}
  /\ end \in Node \cup {NULL}
  /\ items \in Int
  /\ deleted \in Int
  /\ HasData

\* The pointer and count updates of list_unlink keep the node types.
LEMMA UnlinkType ==
  ASSUME TypeOK, HasData, NEW n \in heap, NEW RC \in [Node -> Int], NEW IC \in [Node -> Int],
         NEW RM \in [Node -> Nat], NEW DL \in Int, list_unlink(n, RC, IC, RM, DL)
  PROVE  NodeType'
<1>1. heap' \in SUBSET Node /\ start' \in Node \cup {NULL} /\ end' \in Node \cup {NULL}
  BY DEF TypeOK, list_unlink, Splice, Uncount
<1>2. next' \in [Node -> Node \cup {NULL}] /\ prev' \in [Node -> Node \cup {NULL}]
  BY DEF TypeOK, list_unlink, Splice, Uncount
<1>3. data' \in [Node -> Data \cup {NULL}]
  BY DEF TypeOK, list_unlink, Splice, Uncount
<1>4. rc' \in [Node -> Int] /\ ic' \in [Node -> Int] /\ removed' \in [Node -> Nat]
  BY DEF TypeOK, list_unlink, Splice, Uncount
<1>5. items' \in Int /\ deleted' \in Int
  BY DEF TypeOK, list_unlink, Splice, Uncount
<1>6. HasData'
  BY DEF TypeOK, HasData, list_unlink
<1> QED BY <1>1, <1>2, <1>3, <1>4, <1>5, <1>6 DEF NodeType

\* list->items follows the heap when list_unlink frees a node.
LEMMA UnlinkItems ==
  ASSUME TypeOK, ItemsExact, NEW n \in heap, heap' = heap \ {n}, items' = items - 1
  PROVE  ItemsExact'
<1>1. IsFiniteSet(heap)
  BY NodeFinite, FS_Subset DEF TypeOK
<1>2. Cardinality(heap') = Cardinality(heap) - 1
  BY <1>1, FS_RemoveElement
<1> QED BY <1>2 DEF ItemsExact

\* A thread moves its cursor from c to the node n, or drops it (n = NULL), and
\* dereferences c: one iteration of list_next and list_prev, and
\* list_unlock_deref.
LEMMA MoveCursor ==
  ASSUME IInv, NEW t \in Thread, NEW n \in heap \cup {NULL},
         cur[t] # NULL, n # cur[t],
         cur' = [cur EXCEPT ![t] = n],
         list_deref(cur[t], Bump(rc, n, 1), Bump(Bump(ic, cur[t], -1), n, 1),
                    removed, deleted)
  PROVE  /\ NodeType' /\ CursorSafe' /\ RefcountExact' /\ Reclaimed'
         /\ Links' /\ NoCycle' /\ ItemsExact'
<1> USE DEF IInv
<1>1. PICK c \in heap : c = cur[t]
  BY DEF CursorSafe
<1>2. PICK RC : RC = Bump(rc, n, 1)
  OBVIOUS
<1>3. PICK IC : IC = Bump(Bump(ic, c, -1), n, 1)
  OBVIOUS
<1>4. list_deref(c, RC, IC, removed, deleted)
  BY <1>1, <1>2, <1>3
<1>0. NULL \notin Node /\ c \in Node /\ c # n /\ (n # NULL => n \in Node)
  BY <1>1, NullNotObject DEF TypeOK
<1>5. /\ RC \in [Node -> Int]
      /\ \A m \in Node : RC[m] = IF m = n THEN rc[m] + 1 ELSE rc[m]
  BY <1>0, <1>2 DEF Bump, TypeOK
<1>6. /\ IC \in [Node -> Int]
      /\ \A m \in Node : IC[m] = CASE m = n -> ic[m] + 1
                                 [] m = c -> ic[m] - 1
                                 [] OTHER -> ic[m]
  BY <1>0, <1>3 DEF Bump, TypeOK
<1>7. \A m \in Node :
        Cardinality(Cursors(m)') = CASE m = n -> Cardinality(Cursors(m)) + 1
                                     [] m = c -> Cardinality(Cursors(m)) - 1
                                     [] OTHER -> Cardinality(Cursors(m))
  <2>1. TypeOK
    OBVIOUS
  <2>2. \A m \in Node :
          Cardinality(Cursors(m)') =
            CASE m = n -> Cardinality(Cursors(m)) + 1
              [] m = cur[t] -> Cardinality(Cursors(m)) - 1
              [] OTHER -> Cardinality(Cursors(m))
    BY <2>1, CursorMove, Zenon
  <2> QED BY <1>1, <2>2
<1>8. \A m \in heap : m \in Node /\ IC[m] = Cardinality(Cursors(m)')
  BY <1>6, <1>7 DEF RefcountExact, TypeOK
<1>9. Cardinality(Cursors(c)') \in Nat /\ Cardinality(Cursors(c)) \in Nat
  <2>1. IsFiniteSet(Cursors(c)')
    BY ThreadFinite, FS_Subset DEF Cursors
  <2> QED BY <2>1, CursorsFinite, FS_CardinalityType
<1>10. CASE RC[c] - 1 <= 0 /\ IC[c] <= 0
  <2>1. list_unlink(c, RC, IC, removed, deleted)
    BY <1>4, <1>10 DEF list_deref, Keep
  <2>2. /\ heap' = heap \ {c} /\ items' = items - 1
        /\ rc' = [RC EXCEPT ![c] = 0] /\ ic' = [IC EXCEPT ![c] = 0]
        /\ removed' = [removed EXCEPT ![c] = 0]
    BY <2>1 DEF list_unlink, Uncount
  <2>3. NodeType'
    BY <1>5, <1>6, <2>1, UnlinkType DEF TypeOK
  <2>4. Spliced(c)
    BY <2>1 DEF list_unlink, Spliced
  <2>5. Links' /\ NoCycle'
    BY <2>4, SplicedChain
  <2>6. ItemsExact'
    BY <2>2, UnlinkItems
  <2>7. Cursors(c)' = {}
    <3>1. Cardinality(Cursors(c)') = 0
      BY <1>8, <1>9, <1>10
    <3>2. IsFiniteSet(Cursors(c)')
      BY ThreadFinite, FS_Subset DEF Cursors
    <3> QED BY <3>1, <3>2, FS_EmptySet
  <2>8. CursorSafe'
    BY <1>0, <2>2, <2>7 DEF CursorSafe, Cursors, TypeOK
  <2>9. \A m \in heap' : /\ m \in heap /\ m \in Node
                         /\ rc'[m] = RC[m] /\ ic'[m] = IC[m]
                         /\ removed'[m] = removed[m]
    BY <2>2, <1>5, <1>6, <1>8 DEF TypeOK
  <2>10. \A m \in heap' : m # c
    BY <2>2
  <2>11. RefcountExact'
    BY <1>5, <1>6, <1>8, <2>9, <2>10 DEF RefcountExact, TypeOK
  <2>12. Reclaimed'
    BY <1>6, <2>9, <2>10 DEF Reclaimed, TypeOK
  <2> QED BY <2>3, <2>5, <2>6, <2>8, <2>11, <2>12
<1>11. CASE ~(RC[c] - 1 <= 0 /\ IC[c] <= 0)
  <2>1. /\ rc' = [RC EXCEPT ![c] = @ - 1] /\ ic' = IC /\ removed' = removed
        /\ deleted' = deleted
        /\ UNCHANGED <<heap, data, next, prev, start, end, items>>
    BY <1>4, <1>11 DEF list_deref, Keep
  <2>2. NodeType'
    BY <1>5, <1>6, <2>1 DEF NodeType, TypeOK, HasData
  <2>3. Links' /\ NoCycle' /\ ItemsExact'
    BY <2>1 DEF Links, NoCycle, ItemsExact
  <2>4. CursorSafe'
    BY <2>1 DEF CursorSafe, TypeOK
  <2>5. RefcountExact'
    <3>1. \A m \in heap : rc[m] \in Int /\ ic[m] \in Int /\ removed[m] \in Nat
      BY <1>8 DEF TypeOK
    <3>2. \A m \in heap : rc'[m] = IF m = c THEN RC[m] - 1 ELSE RC[m]
      BY <1>5, <1>8, <2>1
    <3>3. \A m \in heap : rc'[m] = 1 + ic'[m] - removed'[m]
      BY <1>0, <1>5, <1>6, <1>8, <2>1, <3>1, <3>2 DEF RefcountExact
    <3> QED BY <1>8, <2>1, <3>3 DEF RefcountExact
  <2>6. Reclaimed'
    BY <1>0, <1>5, <1>6, <1>8, <1>9, <1>11, <2>1 DEF Reclaimed, RefcountExact, TypeOK
  <2> QED BY <2>2, <2>3, <2>4, <2>5, <2>6
<1> QED BY <1>10, <1>11

-----------------------------------------------------------------------------
(* The actions *)

\* list_push and list_unshift.
LEMMA InsertInv ==
  ASSUME IInv, NEW t \in Thread, NEW d \in Data, list_push(t, d) \/ list_unshift(t, d)
  PROVE  IInv'
<1>0. /\ TypeOK /\ Control /\ HasData /\ CursorSafe /\ RefcountExact /\ Reclaimed
      /\ Links /\ NoCycle /\ ItemsExact
  BY DEF IInv
<1>1. Links' /\ NoCycle'
  BY <1>0, InsertChain
<1>2. PICK n \in Node : /\ n \notin heap
                        /\ heap' = heap \cup {n}
                        /\ data' = [data EXCEPT ![n] = d]
                        /\ rc' = [rc EXCEPT ![n] = 1]
                        /\ ic' = [ic EXCEPT ![n] = 0]
                        /\ removed' = [removed EXCEPT ![n] = 0]
                        /\ start' \in {start, n} /\ end' \in {end, n}
                        /\ next' \in [Node -> Node \cup {NULL}]
                        /\ prev' \in [Node -> Node \cup {NULL}]
  <2>1. CASE list_push(t, d)
    <3>1. PICK n \in Node :
            /\ node_new(n, d)
            /\ IF start = NULL
               THEN /\ start' = n
                    /\ next' = [next EXCEPT ![n] = NULL]
                    /\ prev' = [prev EXCEPT ![n] = NULL]
               ELSE /\ next' = [next EXCEPT ![end] = n, ![n] = NULL]
                    /\ prev' = [prev EXCEPT ![n] = end]
                    /\ UNCHANGED start
            /\ end' = n
      BY <2>1 DEF list_push
    <3>2. next' \in [Node -> Node \cup {NULL}] /\ prev' \in [Node -> Node \cup {NULL}]
      BY <1>0, <3>1 DEF TypeOK
    <3>3. start' \in {start, n} /\ end' \in {end, n}
      BY <3>1
    <3> QED BY <3>1, <3>2, <3>3 DEF node_new
  <2>2. CASE list_unshift(t, d)
    <3>1. PICK n \in Node :
            /\ node_new(n, d)
            /\ IF start = NULL
               THEN /\ end' = n
                    /\ next' = [next EXCEPT ![n] = NULL]
                    /\ prev' = [prev EXCEPT ![n] = NULL]
               ELSE /\ prev' = [prev EXCEPT ![start] = n, ![n] = NULL]
                    /\ next' = [next EXCEPT ![n] = start]
                    /\ UNCHANGED end
            /\ start' = n
      BY <2>2 DEF list_unshift
    <3>2. next' \in [Node -> Node \cup {NULL}] /\ prev' \in [Node -> Node \cup {NULL}]
      BY <1>0, <3>1 DEF TypeOK
    <3>3. start' \in {start, n} /\ end' \in {end, n}
      BY <3>1
    <3> QED BY <3>1, <3>2, <3>3 DEF node_new
  <2> QED BY <2>1, <2>2
<1>3. /\ items' = items + 1
      /\ left[t] > 0 /\ left' = [left EXCEPT ![t] = @ - 1]
      /\ UNCHANGED <<deleted, lock, alive, pc, op, arg, cur, released, owed>>
  BY DEF list_push, list_unshift, Calling
<1>4. TypeOK'
  <2>1. left' \in [Thread -> 0..MaxCalls]
    BY <1>0, <1>3, MaxCallsNat DEF TypeOK
  <2> QED BY <1>0, <1>2, <1>3, <2>1 DEF TypeOK
<1>5. Control' /\ CursorSafe'
  BY <1>0, <1>2, <1>3 DEF Control, CursorSafe
<1>6. \A m : Cursors(m)' = Cursors(m)
  BY <1>3 DEF Cursors
<1>7. Cursors(n) = {}
  BY <1>0, <1>2, NullNotObject DEF Cursors, CursorSafe
<1>8. RefcountExact'
  <2>1. ASSUME NEW m \in heap'
        PROVE  ic'[m] = Cardinality(Cursors(m)') /\ rc'[m] = 1 + ic'[m] - removed'[m]
    <3>1. CASE m = n
      <4>1. Cursors(m)' = {}
        BY <1>6, <1>7, <3>1
      <4>2. Cardinality(Cursors(m)') = 0
        BY <4>1, FS_EmptySet
      <4> QED BY <1>0, <1>2, <3>1, <4>2 DEF TypeOK
    <3>2. CASE m # n
      BY <1>0, <1>2, <1>6, <2>1, <3>2 DEF RefcountExact, TypeOK
    <3> QED BY <3>1, <3>2
  <2> QED BY <2>1 DEF RefcountExact
<1>9. Reclaimed'
  BY <1>0, <1>2 DEF Reclaimed, TypeOK
<1>10. ItemsExact'
  <2>1. IsFiniteSet(heap)
    BY <1>0, NodeFinite, FS_Subset DEF TypeOK
  <2>2. Cardinality(heap') = Cardinality(heap) + 1
    BY <1>2, <2>1, FS_AddElement
  <2> QED BY <1>0, <1>3, <2>2 DEF ItemsExact
<1>11. HasData'
  BY <1>0, <1>2 DEF HasData, TypeOK
<1> QED BY <1>1, <1>4, <1>5, <1>8, <1>9, <1>10, <1>11 DEF IInv

\* Hop leads to a neighbour, or out of the list.
LEMMA HopNeighbour ==
  IInv => \A t \in Thread : Hop(t) \in heap \cup {NULL} /\ (cur[t] # NULL => Hop(t) # cur[t])
<1> SUFFICES ASSUME IInv, NEW t \in Thread
             PROVE  Hop(t) \in heap \cup {NULL} /\ (cur[t] # NULL => Hop(t) # cur[t])
  OBVIOUS
<1>1. TypeOK /\ CursorSafe /\ Links /\ NoCycle
  BY DEF IInv
<1>2. cur[t] # NULL => next[cur[t]] # cur[t] /\ prev[cur[t]] # cur[t]
  BY <1>1, NoSelfLoop DEF CursorSafe
<1> QED BY <1>1, <1>2 DEF Hop, Links, CursorSafe

\* One iteration of list_next or list_prev.
LEMMA IterateInv ==
  ASSUME IInv, NEW t \in Thread, Iterate(t)
  PROVE  IInv'
<1>0. /\ TypeOK /\ Control /\ HasData /\ CursorSafe /\ RefcountExact /\ Reclaimed
      /\ Links /\ NoCycle /\ ItemsExact
  BY DEF IInv
<1>1. PICK n \in heap \cup {NULL} : n = Hop(t)
  BY HopNeighbour
<1>2. n # NULL => n \in heap /\ n \in Node
  BY <1>0 DEF TypeOK
<1>3. /\ pc[t] = "walk"
      /\ cur' = [cur EXCEPT ![t] = n]
      /\ owed' = [owed EXCEPT ![t] = @ \ {n}]
      /\ \/ lock' = t /\ UNCHANGED pc
         \/ lock' = NULL /\ pc' = [pc EXCEPT ![t] = AfterHop(t, n)]
      /\ UNCHANGED <<alive, op, arg, left, released>>
  BY <1>1 DEF Iterate, LoopOrReturn
<1>4. AfterHop(t, n) \in {"idle", "walk", "remove"}
  BY DEF AfterHop
<1>5. /\ NodeType' /\ CursorSafe' /\ RefcountExact' /\ Reclaimed'
      /\ Links' /\ NoCycle' /\ ItemsExact'
  <2>1. CASE cur[t] = NULL
    <3>1. /\ rc' = Bump(rc, n, 1) /\ ic' = Bump(ic, n, 1)
          /\ UNCHANGED <<heap, data, next, prev, removed, start, end, items, deleted>>
      BY <1>1, <2>1 DEF Iterate, Bump
    <3>2. NodeType'
      BY <1>0, <1>2, <3>1 DEF TypeOK, NodeType, HasData, Bump
    <3>3. Links' /\ NoCycle' /\ ItemsExact'
      BY <1>0, <3>1 DEF Links, NoCycle, ItemsExact
    <3>4. CursorSafe'
      BY <1>0, <1>2, <1>3, <3>1 DEF CursorSafe, TypeOK
    <3>5. CASE n = NULL
      <4>1. cur' = cur /\ rc' = rc /\ ic' = ic
        BY <1>0, <1>3, <2>1, <3>1, <3>5 DEF TypeOK, Bump
      <4>2. \A m : Cursors(m)' = Cursors(m)
        BY <4>1 DEF Cursors
      <4> QED BY <1>0, <3>1, <3>2, <3>3, <3>4, <4>1, <4>2 DEF RefcountExact, Reclaimed
    <3>6. CASE n # NULL
      <4>1. \A m \in Node :
              Cardinality(Cursors(m)') =
                CASE m = n -> Cardinality(Cursors(m)) + 1
                  [] m = cur[t] -> Cardinality(Cursors(m)) - 1
                  [] OTHER -> Cardinality(Cursors(m))
        BY <1>0, <1>3, <2>1, <3>6, CursorMove, Zenon
      <4>2. \A m \in heap : /\ m \in Node /\ m # cur[t]
                            /\ rc'[m] = IF m = n THEN rc[m] + 1 ELSE rc[m]
                            /\ ic'[m] = IF m = n THEN ic[m] + 1 ELSE ic[m]
        BY <1>0, <1>2, <2>1, <3>1, <3>6, NullNotObject DEF TypeOK, Bump
      <4>3. RefcountExact'
        <5>1. \A m \in heap :
                Cardinality(Cursors(m)') =
                  IF m = n THEN Cardinality(Cursors(m)) + 1 ELSE Cardinality(Cursors(m))
          BY <4>1, <4>2
        <5>2. \A m \in heap : rc[m] \in Int /\ ic[m] \in Int /\ removed[m] \in Nat
          BY <1>0, <4>2 DEF TypeOK
        <5> QED BY <1>0, <3>1, <4>2, <5>1, <5>2 DEF RefcountExact
      <4>4. Reclaimed'
        BY <1>0, <3>1, <4>2 DEF Reclaimed, TypeOK
      <4> QED BY <3>2, <3>3, <3>4, <4>3, <4>4
    <3> QED BY <3>5, <3>6
  <2>2. CASE cur[t] # NULL
    <3>1. n # cur[t]
      BY <1>1, <2>2, HopNeighbour
    <3>2. list_deref(cur[t], Bump(rc, n, 1), Bump(Bump(ic, cur[t], -1), n, 1),
                     removed, deleted)
      BY <1>1, <2>2 DEF Iterate
    <3> QED BY <1>3, <2>2, <3>1, <3>2, MoveCursor
  <2> QED BY <2>1, <2>2
<1>6. TypeOK'
  <2>1. pc' \in [Thread -> {"idle", "walk", "remove", "deref", "destroy"}]
    BY <1>0, <1>3, <1>4 DEF TypeOK
  <2>2. cur' \in [Thread -> Node \cup {NULL}] /\ owed' \in [Thread -> SUBSET Node]
    BY <1>0, <1>2, <1>3 DEF TypeOK
  <2>3. lock' \in Thread \cup {NULL}
    BY <1>3
  <2> QED BY <1>0, <1>3, <1>5, <2>1, <2>2, <2>3 DEF TypeOK, NodeType
<1>7. Control'
  <2>1. /\ AfterHop(t, n) = "idle" => n = NULL
        /\ AfterHop(t, n) = "remove" => n # NULL
    BY DEF AfterHop
  <2>2. \A u \in Thread : pc[u] # "destroy"
    BY <1>0, <1>3 DEF Control
  <2>3. \A u \in Thread \ {t} : pc'[u] = pc[u] /\ cur'[u] = cur[u]
    BY <1>0, <1>3 DEF TypeOK
  <2>4. cur'[t] = n /\ pc'[t] \in {"walk", AfterHop(t, n)}
    BY <1>0, <1>3 DEF TypeOK
  <2> QED BY <1>0, <1>4, <2>1, <2>2, <2>3, <2>4 DEF Control
<1> QED BY <1>5, <1>6, <1>7 DEF IInv, NodeType

\* list_remove never frees: the cursor of its caller keeps ic positive.
LEMMA RemoveInv ==
  ASSUME IInv, NEW t \in Thread, list_remove(t)
  PROVE  IInv'
<1>0. /\ TypeOK /\ Control /\ HasData /\ CursorSafe /\ RefcountExact /\ Reclaimed
      /\ Links /\ NoCycle /\ ItemsExact
  BY DEF IInv
<1>1. PICK n \in heap : n = cur[t]
  BY <1>0 DEF list_remove, Control, CursorSafe
<1>2. n \in Node /\ n # NULL
  BY <1>0, <1>1, NullNotObject DEF TypeOK
<1>3. ic[n] > 0
  <2>1. t \in Cursors(n)
    BY <1>1 DEF Cursors
  <2>2. Cardinality(Cursors(n)) # 0
    BY <2>1, CursorsFinite, FS_EmptySet
  <2> QED BY <1>0, <2>2, CursorsFinite DEF RefcountExact
<1>4. /\ rc' = [rc EXCEPT ![n] = @ - 1] /\ ic' = ic
      /\ removed' = [removed EXCEPT ![n] = @ + 1] /\ deleted' = deleted + 1
      /\ UNCHANGED <<heap, data, next, prev, start, end, items>>
  BY <1>0, <1>1, <1>2, <1>3 DEF list_remove, list_deref, Keep, Bump, TypeOK
<1>5. /\ pc[t] = "remove"
      /\ pc' = [pc EXCEPT ![t] = IF op[t] \in Takes THEN "deref" ELSE "walk"]
      /\ owed' = [u \in Thread |-> owed[u] \ {n}]
      /\ UNCHANGED <<lock, alive, op, arg, cur, left, released>>
  BY <1>1 DEF list_remove
<1>6. TypeOK'
  <2>1. rc' \in [Node -> Int] /\ ic' \in [Node -> Int] /\ removed' \in [Node -> Nat]
    BY <1>0, <1>4 DEF TypeOK
  <2>2. pc' \in [Thread -> {"idle", "walk", "remove", "deref", "destroy"}]
    BY <1>0, <1>5 DEF TypeOK
  <2>3. owed' \in [Thread -> SUBSET Node]
    BY <1>0, <1>5 DEF TypeOK
  <2> QED BY <1>0, <1>4, <1>5, <2>1, <2>2, <2>3 DEF TypeOK
<1>7. Control' /\ CursorSafe'
  BY <1>0, <1>1, <1>2, <1>4, <1>5 DEF Control, CursorSafe, TypeOK
<1>8. \A m : Cursors(m)' = Cursors(m)
  BY <1>5 DEF Cursors
<1>9. RefcountExact'
  <2>1. \A m \in heap : /\ m \in Node
                        /\ rc'[m] = IF m = n THEN rc[m] - 1 ELSE rc[m]
                        /\ removed'[m] = IF m = n THEN removed[m] + 1 ELSE removed[m]
                        /\ rc[m] \in Int /\ ic[m] \in Int /\ removed[m] \in Nat
    BY <1>0, <1>4 DEF TypeOK
  <2> QED BY <1>0, <1>4, <1>8, <2>1 DEF RefcountExact
<1>10. Reclaimed'
  BY <1>0, <1>3, <1>4 DEF Reclaimed, TypeOK
<1>11. Links' /\ NoCycle' /\ ItemsExact' /\ HasData'
  BY <1>0, <1>4 DEF Links, NoCycle, ItemsExact, HasData
<1> QED BY <1>6, <1>7, <1>9, <1>10, <1>11 DEF IInv

\* list_unlock_deref.
LEMMA UnlockDerefInv ==
  ASSUME IInv, NEW t \in Thread, list_unlock_deref(t)
  PROVE  IInv'
<1>0. TypeOK /\ Control /\ HasData /\ CursorSafe
  BY DEF IInv
<1>1. /\ pc[t] \in {"deref", "walk"}
      /\ cur' = [cur EXCEPT ![t] = NULL]
      /\ pc' = [pc EXCEPT ![t] = "idle"]
      /\ owed' = [owed EXCEPT ![t] = {}]
      /\ UNCHANGED <<lock, alive, op, arg, left, released>>
  BY DEF list_unlock_deref
<1>2. cur[t] # NULL
  BY <1>0 DEF list_unlock_deref, Control
<1>3. list_deref(cur[t], Bump(rc, NULL, 1), Bump(Bump(ic, cur[t], -1), NULL, 1),
                 removed, deleted)
  BY DEF list_unlock_deref, Bump
<1>4. PICK n \in heap \cup {NULL} : n = NULL
  OBVIOUS
<1>5. /\ NodeType' /\ CursorSafe' /\ RefcountExact' /\ Reclaimed'
      /\ Links' /\ NoCycle' /\ ItemsExact'
  BY <1>1, <1>2, <1>3, <1>4, MoveCursor
<1>6. TypeOK'
  BY <1>0, <1>1, <1>5 DEF TypeOK, NodeType
<1>7. Control'
  BY <1>0, <1>1 DEF Control, TypeOK
<1> QED BY <1>5, <1>6, <1>7 DEF IInv, NodeType

\* list_destroy runs when no thread has a cursor.
LEMMA DestroyInv ==
  ASSUME IInv, NEW t \in Thread, list_destroy(t)
  PROVE  IInv'
<1>0. /\ TypeOK /\ Control /\ HasData /\ CursorSafe /\ RefcountExact /\ Reclaimed
      /\ Links /\ NoCycle /\ ItemsExact
  BY DEF IInv
<1>1. \A u \in Thread : cur[u] = NULL
  BY <1>0 DEF list_destroy, Control, TypeOK
<1>2. /\ pc[t] = "destroy" /\ pc' \in {pc, [pc EXCEPT ![t] = "idle"]}
      /\ lock' \in {t, NULL}
      /\ UNCHANGED <<op, arg, cur, left, owed>>
  BY DEF list_destroy
<1>3. Control'
  BY <1>0, <1>1, <1>2 DEF Control, TypeOK
<1>4. pc' \in [Thread -> {"idle", "walk", "remove", "deref", "destroy"}]
  BY <1>0, <1>2 DEF TypeOK
<1>5. \A m : Cursors(m)' = Cursors(m)
  BY <1>2 DEF Cursors
<1>6. CASE start # NULL
  <2>1. PICK n \in heap : n = start
    BY <1>0, <1>6 DEF Links
  <2>2. /\ list_unlink(n, rc, ic, removed, deleted)
        /\ released' = released \cup {data[n]} /\ alive' = alive
    BY <1>6, <2>1 DEF list_destroy
  <2>3. NodeType'
    BY <1>0, <2>2, UnlinkType DEF TypeOK
  <2>4. Spliced(n) /\ heap' = heap \ {n} /\ items' = items - 1
    BY <2>2 DEF list_unlink, Spliced, Uncount
  <2>5. Links' /\ NoCycle' /\ ItemsExact'
    BY <1>0, <2>4, SplicedChain, UnlinkItems
  <2>6. CursorSafe'
    BY <1>1, <1>2 DEF CursorSafe
  <2>7. \A m \in heap' : /\ m \in heap
                         /\ rc'[m] = rc[m] /\ ic'[m] = ic[m] /\ removed'[m] = removed[m]
    BY <1>0, <2>2 DEF list_unlink, TypeOK
  <2>8. RefcountExact' /\ Reclaimed'
    BY <1>0, <1>5, <2>7 DEF RefcountExact, Reclaimed
  <2>9. data[n] \in Data
    BY <1>0, <2>1 DEF HasData
  <2>10. TypeOK'
    BY <1>0, <1>2, <1>4, <2>2, <2>3, <2>9 DEF TypeOK, NodeType
  <2> QED BY <1>3, <2>3, <2>5, <2>6, <2>8, <2>10 DEF IInv, NodeType
<1>7. CASE start = NULL
  <2>1. /\ alive' = FALSE
        /\ UNCHANGED <<heap, nodeVars, start, end, items, deleted, released>>
    BY <1>7 DEF list_destroy
  <2>2. TypeOK'
    BY <1>0, <1>2, <1>4, <2>1 DEF TypeOK, nodeVars
  <2>3. RefcountExact' /\ Reclaimed' /\ CursorSafe'
    BY <1>0, <1>1, <1>2, <1>5, <2>1 DEF RefcountExact, Reclaimed, CursorSafe, nodeVars
  <2>4. Links' /\ NoCycle' /\ ItemsExact' /\ HasData'
    BY <1>0, <2>1 DEF Links, NoCycle, ItemsExact, HasData, nodeVars
  <2> QED BY <1>3, <2>2, <2>3, <2>4 DEF IInv
<1> QED BY <1>6, <1>7

-----------------------------------------------------------------------------
(* The theorems *)

\* list_new establishes the inductive invariant.
LEMMA InitInv == Init => IInv
<1> SUFFICES ASSUME Init PROVE IInv
  OBVIOUS
<1>1. TypeOK
  BY MaxCallsNat DEF Init, TypeOK
<1>2. Control /\ HasData /\ CursorSafe /\ RefcountExact /\ Reclaimed /\ Links
  BY DEF Init, Control, HasData, CursorSafe, RefcountExact, Reclaimed, Links
<1>3. NoCycle
  BY DEF Init, NoCycle
<1>4. ItemsExact
  BY FS_EmptySet DEF Init, ItemsExact
<1> QED BY <1>1, <1>2, <1>3, <1>4 DEF IInv

\* Every critical section of 3w3_list.c preserves the inductive invariant.
LEMMA NextInv == IInv /\ [Next]_vars => IInv'
<1> SUFFICES ASSUME IInv, [Next]_vars PROVE IInv'
  OBVIOUS
<1> USE DEF IInv
<1>1. ASSUME NEW t \in Thread, NEW d \in Data, list_push(t, d) \/ list_unshift(t, d)
      PROVE  IInv'
  BY <1>1, InsertInv
<1>2. ASSUME NEW t \in Thread, Iterate(t) PROVE IInv'
  BY <1>2, IterateInv
<1>3. ASSUME NEW t \in Thread, list_remove(t) PROVE IInv'
  BY <1>3, RemoveInv
<1>4. ASSUME NEW t \in Thread, list_unlock_deref(t) PROVE IInv'
  BY <1>4, UnlockDerefInv
<1>5. ASSUME NEW t \in Thread, list_destroy(t) PROVE IInv'
  BY <1>5, DestroyInv
<1>6. ASSUME NEW t \in Thread, NEW d \in Data, NEW o \in Walks, BeginWalk(t, o, d)
      PROVE  IInv'
  <2>1. /\ pc[t] = "idle" /\ (\A u \in Thread : pc[u] # "destroy")
        /\ left[t] > 0 /\ left' = [left EXCEPT ![t] = @ - 1]
        /\ pc' = [pc EXCEPT ![t] = "walk"] /\ op' = [op EXCEPT ![t] = o]
        /\ arg' = [arg EXCEPT ![t] = d] /\ owed' = [owed EXCEPT ![t] = Live]
        /\ UNCHANGED <<heap, nodeVars, listVars, cur, released>>
    BY <1>6 DEF BeginWalk, Calling
  <2>2. TypeOK'
    <3>1. left' \in [Thread -> 0..MaxCalls]
      BY <2>1, MaxCallsNat DEF TypeOK
    <3>2. owed' \in [Thread -> SUBSET Node]
      BY <2>1 DEF TypeOK, Live
    <3> QED BY <2>1, <3>1, <3>2 DEF TypeOK, OpName, nodeVars, listVars
  <2>3. Control' /\ HasData' /\ CursorSafe'
    BY <2>1 DEF Control, HasData, CursorSafe, TypeOK, nodeVars
  <2>4. RefcountExact' /\ Reclaimed'
    BY <2>1 DEF RefcountExact, Cursors, Reclaimed, nodeVars
  <2>5. Links' /\ NoCycle' /\ ItemsExact'
    BY <2>1 DEF Links, NoCycle, ItemsExact, nodeVars, listVars
  <2> QED BY <2>2, <2>3, <2>4, <2>5
<1>7. ASSUME NEW t \in Thread, NEW d \in Data, BeginDestroy(t, d) PROVE IInv'
  <2>1. /\ (\A u \in Thread : pc[u] = "idle")
        /\ left[t] > 0 /\ left' = [left EXCEPT ![t] = @ - 1]
        /\ pc' = [pc EXCEPT ![t] = "destroy"] /\ op' = [op EXCEPT ![t] = "list_destroy"]
        /\ UNCHANGED <<heap, nodeVars, listVars, arg, cur, released, owed>>
    BY <1>7 DEF BeginDestroy, Calling
  <2>2. TypeOK'
    <3>1. left' \in [Thread -> 0..MaxCalls]
      BY <2>1, MaxCallsNat DEF TypeOK
    <3> QED BY <2>1, <3>1 DEF TypeOK, OpName, nodeVars, listVars
  <2>3. Control' /\ HasData' /\ CursorSafe'
    BY <2>1 DEF Control, HasData, CursorSafe, TypeOK, nodeVars
  <2>4. RefcountExact' /\ Reclaimed'
    BY <2>1 DEF RefcountExact, Cursors, Reclaimed, nodeVars
  <2>5. Links' /\ NoCycle' /\ ItemsExact'
    BY <2>1 DEF Links, NoCycle, ItemsExact, nodeVars, listVars
  <2> QED BY <2>2, <2>3, <2>4, <2>5
<1>8. ASSUME UNCHANGED vars PROVE IInv'
  <2>1. TypeOK' /\ Control' /\ HasData' /\ CursorSafe'
    BY <1>8 DEF vars, nodeVars, listVars, threadVars, TypeOK, Control, HasData, CursorSafe
  <2>2. RefcountExact' /\ Reclaimed'
    BY <1>8 DEF vars, nodeVars, listVars, threadVars, RefcountExact, Cursors, Reclaimed
  <2>3. Links' /\ NoCycle' /\ ItemsExact'
    BY <1>8 DEF vars, nodeVars, listVars, threadVars, Links, NoCycle, ItemsExact
  <2> QED BY <2>1, <2>2, <2>3
<1> QED BY <1>1, <1>2, <1>3, <1>4, <1>5, <1>6, <1>7, <1>8 DEF Next, Step

\* The inductive invariant holds in every reachable state of the list.
LEMMA Invariance == Spec => []IInv
<1> QED BY InitInv, NextInv, PTL DEF Spec

\* Every field and every local of the operations of 3w3_list.c keeps its type.
THEOREM ListType == Spec => []TypeOK
<1>1. IInv => TypeOK
  BY DEF IInv
<1> QED BY <1>1, Invariance, PTL

\* No cursor of list_next or list_prev is ever left on a freed node.
THEOREM ListCursorSafe == Spec => []CursorSafe
<1>1. IInv => CursorSafe
  BY DEF IInv
<1> QED BY <1>1, Invariance, PTL

\* The counters rc and ic are exact at every step of every thread.
THEOREM ListRefcount == Spec => []RefcountExact
<1>1. IInv => RefcountExact
  BY DEF IInv
<1> QED BY <1>1, Invariance, PTL

\* A node list_remove has marked is freed with its last cursor, and not leaked.
THEOREM ListReclaimed == Spec => []Reclaimed
<1>1. IInv => Reclaimed
  BY DEF IInv
<1> QED BY <1>1, Invariance, PTL

\* The chain that list_push, list_unshift and list_unlink write stays whole.
THEOREM ListWellLinked == Spec => []WellLinked
<1>1. IInv => WellLinked
  BY DEF IInv, WellLinked
<1> QED BY <1>1, Invariance, PTL

\* list->items is the number of allocated nodes.
THEOREM ListItems == Spec => []ItemsExact
<1>1. IInv => ItemsExact
  BY DEF IInv
<1> QED BY <1>1, Invariance, PTL

-----------------------------------------------------------------------------
(* Walks that meet every node *)

\* The call that a thread is in is one of those it may make.
Called ==
  \A t \in Thread : pc[t] \in {"walk", "remove", "deref"} =>
    op[t] \in Walks /\ <<t, op[t], arg[t]>> \in Calls

\* What is removed: any node by list_pop and list_shift, the datum's by list_delete_data.
Found ==
  \A t \in Thread : pc[t] = "remove" =>
    \/ op[t] \in Takes
    \/ op[t] = "list_delete_data" /\ data[cur[t]] = arg[t]

\* The nodes of O are ahead: they are in every set of nodes that holds h and what f leads
\* to from its members.
Reaches(H, f, h, O) ==
  \A S \in SUBSET H :
    (h # NULL => h \in S) /\ (\A m \in S : f[m] # NULL => f[m] \in S) => O \subseteq S

\* Where the cursor of t goes from a node.
Onward(t) == IF Backward(t) THEN prev ELSE next

\* The nodes that a walk owes are live and ahead of its cursor.
Ahead ==
  \A t \in Thread :
    /\ owed[t] \subseteq Live
    /\ pc[t] \in {"idle", "destroy"} => owed[t] = {}
    /\ Reaches(heap, Onward(t), Hop(t), owed[t])

\* The nodes with list_delete_data's datum that nobody else inserts are still ahead of it,
\* or just found.
Pending ==
  \A t \in Thread :
    op[t] = "list_delete_data" /\ pc[t] \in {"walk", "remove"} /\ SoleUser(t, arg[t]) =>
      \A n \in Live : data[n] = arg[t] => n \in owed[t] \/ (pc[t] = "remove" /\ n = cur[t])

\* With one thread to remove each datum, the node that it has found is not marked yet.
MarkedOnce == Owned => \A t \in Thread : pc[t] = "remove" => removed[cur[t]] = 0

WalkInv == Called /\ Found /\ Ahead /\ Pending /\ MarkedOnce

\* What list_deref does to the chain under a cursor that leaves c: nothing, or it unlinks
\* a marked node.
Dropped(c) ==
  \/ UNCHANGED <<heap, data, next, prev, removed, start, end, items, deleted>>
  \/ /\ c \in heap /\ removed[c] # 0
     /\ Spliced(c)
     /\ data' = [data EXCEPT ![c] = NULL]
     /\ removed' = [removed EXCEPT ![c] = 0]
     /\ items' = items - 1
     /\ deleted' = deleted - 1

\* The first node a walk meets after the cursor c; Hop(t) is HopFrom(t, cur[t]).
HopFrom(t, c) ==
  IF c = NULL THEN (IF Backward(t) THEN end ELSE start) ELSE Onward(t)[c]

\* Hop and HopFrom agree on where the cursor goes.
LEMMA HopIsHopFrom == \A t : Hop(t) = HopFrom(t, cur[t])
BY DEF Hop, HopFrom, Onward

\* One hop: nothing lies ahead of the end, and the node met is ahead no longer.
LEMMA HopReaches ==
  ASSUME NEW H, NEW f, NEW h, NEW O, Reaches(H, f, h, O), h # NULL => h \in H
  PROVE  /\ h = NULL => O = {}
         /\ h # NULL => Reaches(H, f, f[h], O \ {h})
<1>1. ASSUME h = NULL PROVE O = {}
  <2>1. {} \in SUBSET H
    OBVIOUS
  <2> QED BY <1>1, <2>1 DEF Reaches
<1>2. ASSUME h # NULL PROVE Reaches(H, f, f[h], O \ {h})
  <2> SUFFICES ASSUME NEW S \in SUBSET H, f[h] # NULL => f[h] \in S,
                      \A m \in S : f[m] # NULL => f[m] \in S
               PROVE  O \ {h} \subseteq S
    BY DEF Reaches
  <2>1. S \cup {h} \in SUBSET H /\ (h # NULL => h \in S \cup {h})
    BY <1>2
  <2>2. \A m \in S \cup {h} : f[m] # NULL => f[m] \in S \cup {h}
    OBVIOUS
  <2>3. O \subseteq S \cup {h}
    BY <2>1, <2>2 DEF Reaches
  <2> QED BY <2>3
<1> QED BY <1>1, <1>2

\* What is ahead stays ahead when another node is taken out of the chain.
LEMMA SpliceReaches ==
  ASSUME NEW H, NEW f, NEW g, NEW h, NEW k, NEW O, NEW n \in H, n # NULL, n \notin O,
         \A m \in H \ {n} : g[m] = IF f[m] = n THEN f[n] ELSE f[m],
         k = IF h = n THEN f[n] ELSE h,
         Reaches(H, f, h, O)
  PROVE  Reaches(H \ {n}, g, k, O)
<1> SUFFICES ASSUME NEW S \in SUBSET (H \ {n}), k # NULL => k \in S,
                    \A m \in S : g[m] # NULL => g[m] \in S
             PROVE  O \subseteq S
  BY DEF Reaches
<1>1. \A m \in S : g[m] = IF f[m] = n THEN f[n] ELSE f[m]
  OBVIOUS
<1>2. CASE f[n] # NULL => f[n] \in S
  <2>1. S \cup {n} \in SUBSET H /\ (h # NULL => h \in S \cup {n})
    OBVIOUS
  <2>2. \A m \in S \cup {n} : f[m] # NULL => f[m] \in S \cup {n}
    BY <1>1, <1>2
  <2>3. O \subseteq S \cup {n}
    BY <2>1, <2>2 DEF Reaches
  <2> QED BY <2>3
<1>3. CASE f[n] # NULL /\ f[n] \notin S
  <2>1. \A m \in S : f[m] # n
    BY <1>1, <1>3
  <2>2. h # n
    BY <1>3
  <2>3. S \in SUBSET H /\ (h # NULL => h \in S) /\ \A m \in S : f[m] # NULL => f[m] \in S
    BY <1>1, <2>1, <2>2
  <2> QED BY <2>3 DEF Reaches
<1> QED BY <1>2, <1>3

\* What is ahead stays ahead when a node is added at an end of the chain.
LEMMA ExtendReaches ==
  ASSUME NEW H, NEW f, NEW g, NEW h, NEW k, NEW O, NEW n, n \notin H, n # NULL,
         O \subseteq H,
         \A m \in H : f[m] # NULL => f[m] \in H /\ g[m] = f[m],
         h # NULL => h \in H /\ (k = h \/ (k = n /\ g[n] = h)),
         Reaches(H, f, h, O)
  PROVE  Reaches(H \cup {n}, g, k, O)
<1> SUFFICES ASSUME NEW S \in SUBSET (H \cup {n}), k # NULL => k \in S,
                    \A m \in S : g[m] # NULL => g[m] \in S
             PROVE  O \subseteq S
  BY DEF Reaches
<1>1. S \ {n} \in SUBSET H /\ (h # NULL => h \in S \ {n})
  OBVIOUS
<1>2. \A m \in S \ {n} : f[m] # NULL => f[m] \in S \ {n}
  OBVIOUS
<1>3. O \subseteq S \ {n}
  BY <1>1, <1>2 DEF Reaches
<1> QED BY <1>3

\* Every set of nodes has a way out along prev as well.
LEMMA NoCycleBack ==
  ASSUME IInv, NEW S \in SUBSET heap, S # {}
  PROVE  \E n \in S : prev[n] \notin S
<1> SUFFICES ASSUME \A n \in S : prev[n] \in S PROVE FALSE
  OBVIOUS
<1>0. TypeOK /\ Links /\ NoCycle
  BY DEF IInv
<1> DEFINE f == [n \in S |-> prev[n]]
<1>1. NULL \notin S
  BY <1>0, NullNotObject DEF TypeOK
<1>2. \A n \in S : next[prev[n]] = n
  BY <1>0, <1>1 DEF Links
<1>3. f \in Injection(S, S)
  BY <1>2 DEF Injection, IsInjective
<1>4. IsFiniteSet(S)
  BY <1>0, NodeFinite, FS_Subset DEF TypeOK
<1>5. f \in Surjection(S, S)
  BY <1>3, <1>4, FS_Injection
<1>6. \A m \in S : \E n \in S : m = prev[n]
  BY <1>5 DEF Surjection
<1>7. \A m \in S : next[m] \in S
  BY <1>2, <1>6
<1> QED BY <1>0, <1>7 DEF NoCycle

\* A walk that begins has the whole list ahead of it.
LEMMA WholeAhead ==
  ASSUME IInv
  PROVE  Reaches(heap, next, start, heap) /\ Reaches(heap, prev, end, heap)
<1>0. TypeOK /\ Links /\ NoCycle /\ NULL \notin heap
  BY NullNotObject DEF IInv, TypeOK
<1>1. ASSUME NEW S \in SUBSET heap, start # NULL => start \in S,
             \A m \in S : next[m] # NULL => next[m] \in S
      PROVE  heap \subseteq S
  <2>1. \A n \in heap \ S : prev[n] \in heap \ S
    BY <1>0, <1>1 DEF Links
  <2>2. heap \ S \in SUBSET heap
    OBVIOUS
  <2>3. heap \ S = {}
    BY <2>1, <2>2, NoCycleBack
  <2> QED BY <2>3
<1>2. ASSUME NEW S \in SUBSET heap, end # NULL => end \in S,
             \A m \in S : prev[m] # NULL => prev[m] \in S
      PROVE  heap \subseteq S
  <2>1. \A n \in heap \ S : next[n] \in heap \ S
    BY <1>0, <1>2 DEF Links
  <2>2. heap \ S \in SUBSET heap
    OBVIOUS
  <2>3. heap \ S = {}
    BY <1>0, <2>1, <2>2 DEF NoCycle
  <2> QED BY <2>3
<1> QED BY <1>1, <1>2 DEF Reaches

\* list_deref frees a node that its last cursor leaves only if it is marked.
LEMMA DerefEffect ==
  ASSUME IInv, NEW t \in Thread, NEW n \in heap \cup {NULL},
         cur[t] # NULL, n # cur[t],
         list_deref(cur[t], Bump(rc, n, 1), Bump(Bump(ic, cur[t], -1), n, 1),
                    removed, deleted)
  PROVE  cur[t] \in heap /\ Dropped(cur[t])
<1>0. TypeOK /\ CursorSafe /\ RefcountExact
  BY DEF IInv
<1>1. PICK c \in heap : c = cur[t]
  BY <1>0 DEF CursorSafe
<1>2. PICK RC : RC = Bump(rc, n, 1)
  OBVIOUS
<1>3. PICK IC : IC = Bump(Bump(ic, c, -1), n, 1)
  OBVIOUS
<1>4. list_deref(c, RC, IC, removed, deleted)
  BY <1>1, <1>2, <1>3
<1>5. c \in Node /\ c # n /\ RC[c] = rc[c]
  BY <1>0, <1>1, <1>2 DEF TypeOK, Bump
<1>6. CASE RC[c] - 1 <= 0 /\ IC[c] <= 0
  <2>1. list_unlink(c, RC, IC, removed, deleted)
    BY <1>4, <1>6 DEF list_deref, Keep
  <2>2. Cursors(c) # {}
    BY <1>1 DEF Cursors
  <2>3. Cardinality(Cursors(c)) > 0
    BY <2>2, CursorsFinite, FS_EmptySet
  <2>4. rc[c] = 1 + ic[c] - removed[c] /\ ic[c] > 0 /\ removed[c] \in Nat /\ ic[c] \in Int
    BY <1>0, <1>5, <2>3 DEF RefcountExact, TypeOK
  <2>5. removed[c] # 0
    BY <1>5, <1>6, <2>4
  <2> QED BY <1>1, <2>1, <2>5 DEF Dropped, Spliced, list_unlink, Uncount
<1>7. CASE ~(RC[c] - 1 <= 0 /\ IC[c] <= 0)
  BY <1>1, <1>4, <1>7 DEF list_deref, Keep, Dropped
<1> QED BY <1>6, <1>7

\* The nodes that are left keep their data and marks, and the live ones stay.
LEMMA DroppedKeeps ==
  ASSUME TypeOK, NEW c, Dropped(c)
  PROVE  /\ \A m \in heap' : m \in heap /\ data'[m] = data[m] /\ removed'[m] = removed[m]
         /\ Live' = Live
         /\ heap' # heap => c \notin heap'
<1>1. CASE UNCHANGED <<heap, data, next, prev, removed, start, end, items, deleted>>
  BY <1>1 DEF Live
<1>2. CASE /\ c \in heap /\ removed[c] # 0 /\ heap' = heap \ {c}
           /\ data' = [data EXCEPT ![c] = NULL] /\ removed' = [removed EXCEPT ![c] = 0]
  BY <1>2 DEF TypeOK, Live
<1> QED BY <1>1, <1>2 DEF Dropped, Spliced

\* What is ahead of a cursor stays ahead when list_deref drops another node.
LEMMA DroppedAhead ==
  ASSUME IInv, NEW c, Dropped(c), NEW u \in Thread, op'[u] = op[u],
         NEW O \in SUBSET Live, Reaches(heap, Onward(u), HopFrom(u, cur'[u]), O),
         cur'[u] # NULL => cur'[u] \in heap'
  PROVE  O \subseteq Live' /\ Reaches(heap', Onward(u)', Hop(u)', O)
<1>0. TypeOK /\ Links /\ NULL \notin Node /\ heap \subseteq Node
  BY NullNotObject DEF IInv, TypeOK
<1>1. O \subseteq Live'
  BY <1>0, DroppedKeeps
<1>2. Backward(u)' <=> Backward(u)
  BY DEF Backward
<1>3. CASE UNCHANGED <<heap, data, next, prev, removed, start, end, items, deleted>>
  BY <1>1, <1>2, <1>3 DEF Hop, HopFrom, Onward
<1>4. CASE c \in heap /\ removed[c] # 0 /\ Spliced(c)
  <2>0. c # NULL /\ c \notin O /\ heap' = heap \ {c}
    BY <1>0, <1>4 DEF Live, Spliced
  <2>1. CASE ~Backward(u)
    <3>1. /\ \A m \in heap \ {c} : next'[m] = IF next[m] = c THEN next[c] ELSE next[m]
          /\ start' = IF start = c THEN next[c] ELSE start
      BY <1>0, <1>4 DEF Spliced, Splice, Links
    <3>2. Hop(u)' = IF cur'[u] = NULL THEN start' ELSE next'[cur'[u]]
      BY <1>2, <2>1 DEF Hop
    <3>3. HopFrom(u, cur'[u]) = IF cur'[u] = NULL THEN start ELSE next[cur'[u]]
      BY <2>1 DEF HopFrom, Onward
    <3>4. Hop(u)' = IF HopFrom(u, cur'[u]) = c THEN next[c] ELSE HopFrom(u, cur'[u])
      BY <2>0, <3>1, <3>2, <3>3
    <3>5. Onward(u) = next /\ Onward(u)' = next'
      BY <1>2, <2>1 DEF Onward
    <3>6. Reaches(heap \ {c}, next', Hop(u)', O)
      BY <1>4, <2>0, <3>1, <3>4, <3>5, SpliceReaches
    <3> QED BY <1>1, <2>0, <3>5, <3>6
  <2>2. CASE Backward(u)
    <3>1. /\ \A m \in heap \ {c} : prev'[m] = IF prev[m] = c THEN prev[c] ELSE prev[m]
          /\ end' = IF end = c THEN prev[c] ELSE end
      BY <1>0, <1>4 DEF Spliced, Splice, Links
    <3>2. Hop(u)' = IF cur'[u] = NULL THEN end' ELSE prev'[cur'[u]]
      BY <1>2, <2>2 DEF Hop
    <3>3. HopFrom(u, cur'[u]) = IF cur'[u] = NULL THEN end ELSE prev[cur'[u]]
      BY <2>2 DEF HopFrom, Onward
    <3>4. Hop(u)' = IF HopFrom(u, cur'[u]) = c THEN prev[c] ELSE HopFrom(u, cur'[u])
      BY <2>0, <3>1, <3>2, <3>3
    <3>5. Onward(u) = prev /\ Onward(u)' = prev'
      BY <1>2, <2>2 DEF Onward
    <3>6. Reaches(heap \ {c}, prev', Hop(u)', O)
      BY <1>4, <2>0, <3>1, <3>4, <3>5, SpliceReaches
    <3> QED BY <1>1, <2>0, <3>5, <3>6
  <2> QED BY <2>1, <2>2
<1> QED BY <1>3, <1>4 DEF Dropped

\* An iteration of list_next or list_prev drops at most the node that its cursor leaves.
LEMMA IterateEffect ==
  ASSUME IInv, NEW t \in Thread, Iterate(t)
  PROVE  Dropped(cur[t])
<1>1. PICK n \in heap \cup {NULL} : n = Hop(t) /\ (cur[t] # NULL => n # cur[t])
  BY HopNeighbour
<1>2. CASE cur[t] = NULL
  BY <1>2 DEF Iterate, Dropped
<1>3. CASE cur[t] # NULL
  <2>1. list_deref(cur[t], Bump(rc, n, 1), Bump(Bump(ic, cur[t], -1), n, 1),
                   removed, deleted)
    BY <1>1, <1>3 DEF Iterate
  <2> QED BY <1>1, <1>3, <2>1, DerefEffect
<1> QED BY <1>2, <1>3

\* One iteration of list_next or list_prev, for the walks.
LEMMA IterateWalk ==
  ASSUME IInv, IInv', WalkInv, NEW t \in Thread, Iterate(t)
  PROVE  WalkInv'
<1>0. /\ TypeOK /\ Control /\ CursorSafe /\ CursorSafe'
      /\ Called /\ Found /\ Ahead /\ Pending /\ MarkedOnce
  BY DEF IInv, WalkInv
<1>1. PICK n \in heap \cup {NULL} : n = Hop(t) /\ (cur[t] # NULL => n # cur[t])
  BY HopNeighbour
<1>2. /\ pc[t] = "walk"
      /\ cur' = [cur EXCEPT ![t] = n]
      /\ owed' = [owed EXCEPT ![t] = @ \ {n}]
      /\ \/ n # NULL /\ removed[n] # 0 /\ pc' = pc
         \/ (n = NULL \/ removed[n] = 0) /\ pc' = [pc EXCEPT ![t] = AfterHop(t, n)]
      /\ UNCHANGED <<op, arg>>
  BY <1>1 DEF Iterate, LoopOrReturn
<1>3. Dropped(cur[t])
  BY IterateEffect
<1>4. /\ \A m \in heap' : m \in heap /\ data'[m] = data[m] /\ removed'[m] = removed[m]
      /\ Live' = Live
  BY <1>0, <1>3, DroppedKeeps
<1>5. /\ cur'[t] = n /\ owed'[t] = owed[t] \ {n}
      /\ \A u \in Thread \ {t} : pc'[u] = pc[u] /\ cur'[u] = cur[u] /\ owed'[u] = owed[u]
  BY <1>0, <1>2 DEF TypeOK
<1>6. n # NULL => n \in heap'
  BY <1>0, <1>5 DEF CursorSafe
<1>7. pc'[t] = pc[t] \/ pc'[t] = AfterHop(t, n)
  BY <1>0, <1>2 DEF TypeOK
<1>8. /\ AfterHop(t, n) \in {"idle", "walk", "remove"}
      /\ AfterHop(t, n) = "idle" => n = NULL
      /\ AfterHop(t, n) = "remove" =>
           n # NULL /\ (op[t] \in Takes \/ (op[t] = "list_delete_data" /\ data[n] = arg[t]))
  <2>1. CASE n = NULL
    BY <2>1 DEF AfterHop
  <2>2. CASE n # NULL /\ op[t] \in Takes
    <3>1. op[t] # "list_delete_data"
      BY <2>2 DEF Takes
    <3> QED BY <2>2, <3>1 DEF AfterHop
  <2>3. CASE n # NULL /\ op[t] \notin Takes /\ op[t] = "list_delete_data" /\ data[n] = arg[t]
    BY <2>3 DEF AfterHop
  <2>4. CASE n # NULL /\ op[t] \notin Takes /\ ~(op[t] = "list_delete_data" /\ data[n] = arg[t])
    BY <2>4 DEF AfterHop
  <2> QED BY <2>1, <2>2, <2>3, <2>4
<1>9. Called'
  BY <1>0, <1>2, <1>5, <1>7, <1>8 DEF Called
<1>10. Found'
  <2> SUFFICES ASSUME NEW u \in Thread, pc'[u] = "remove"
               PROVE  \/ op'[u] \in Takes
                      \/ op'[u] = "list_delete_data" /\ data'[cur'[u]] = arg'[u]
    BY DEF Found
  <2>1. CASE u = t
    BY <1>2, <1>4, <1>5, <1>6, <1>7, <1>8, <2>1
  <2>2. CASE u # t
    <3>1. cur[u] \in heap'
      BY <1>0, <1>5, <2>2 DEF Control, CursorSafe
    <3> QED BY <1>0, <1>2, <1>4, <1>5, <2>2, <3>1 DEF Found
  <2> QED BY <2>1, <2>2
<1>11. Ahead'
  <2> SUFFICES ASSUME NEW u \in Thread
               PROVE  /\ owed'[u] \subseteq Live'
                      /\ pc'[u] \in {"idle", "destroy"} => owed'[u] = {}
                      /\ Reaches(heap', Onward(u)', Hop(u)', owed'[u])
    BY DEF Ahead
  <2>0. /\ owed[u] \subseteq Live /\ Reaches(heap, Onward(u), HopFrom(u, cur[u]), owed[u])
        /\ pc[u] \in {"idle", "destroy"} => owed[u] = {}
    BY <1>0, HopIsHopFrom DEF Ahead
  <2>1. op'[u] = op[u] /\ (cur'[u] # NULL => cur'[u] \in heap')
    BY <1>0, <1>2 DEF CursorSafe
  <2>2. CASE u = t
    <3>1. n = HopFrom(u, cur[u])
      BY <1>1, <2>2, HopIsHopFrom
    <3>2. CASE n = NULL
      <4>1. owed[u] = {}
        BY <2>0, <3>1, <3>2, HopReaches
      <4>2. owed'[u] = {}
        BY <1>5, <2>2, <4>1
      <4> QED BY <4>2 DEF Reaches
    <3>3. CASE n # NULL
      <4>1. Reaches(heap, Onward(u), Onward(u)[n], owed[u] \ {n})
        BY <2>0, <3>1, <3>3, HopReaches
      <4>2. HopFrom(u, cur'[u]) = Onward(u)[n]
        BY <1>5, <2>2, <3>3 DEF HopFrom
      <4>3. owed'[u] \in SUBSET Live /\ Reaches(heap, Onward(u), HopFrom(u, cur'[u]), owed'[u])
        BY <1>5, <2>0, <2>2, <4>1, <4>2
      <4>4. owed'[u] \subseteq Live' /\ Reaches(heap', Onward(u)', Hop(u)', owed'[u])
        BY <1>3, <2>1, <4>3, DroppedAhead
      <4>5. pc'[u] \notin {"idle", "destroy"}
        BY <1>2, <1>7, <1>8, <2>2, <3>3
      <4> QED BY <4>4, <4>5
    <3> QED BY <3>2, <3>3
  <2>3. CASE u # t
    <3>1. owed'[u] \in SUBSET Live /\ Reaches(heap, Onward(u), HopFrom(u, cur'[u]), owed'[u])
      BY <1>5, <2>0, <2>3
    <3>2. owed'[u] \subseteq Live' /\ Reaches(heap', Onward(u)', Hop(u)', owed'[u])
      BY <1>3, <2>1, <3>1, DroppedAhead
    <3> QED BY <1>5, <2>0, <2>3, <3>2
  <2> QED BY <2>2, <2>3
<1>12. Pending'
  <2> SUFFICES ASSUME NEW u \in Thread, op[u] = "list_delete_data",
                      pc'[u] \in {"walk", "remove"}, SoleUser(u, arg[u]),
                      NEW m \in Live, data'[m] = arg[u]
               PROVE  m \in owed'[u] \/ (pc'[u] = "remove" /\ m = cur'[u])
    BY <1>2, <1>4 DEF Pending, SoleUser
  <2>1. m \in heap' /\ data[m] = arg[u] /\ removed[m] = 0
    BY <1>4 DEF Live
  <2>2. CASE u = t
    <3>1. m \in owed[t]
      BY <1>0, <1>2, <2>1, <2>2 DEF Pending
    <3>2. CASE m = n
      <4>1. AfterHop(t, n) = "remove" /\ n # NULL
        BY <1>0, <2>1, <2>2, <3>2, NullNotObject DEF AfterHop, TypeOK, Live
      <4>2. pc'[t] = "remove"
        BY <1>0, <1>2, <2>1, <3>2, <4>1 DEF TypeOK
      <4> QED BY <1>5, <2>2, <3>2, <4>2
    <3> QED BY <1>5, <2>2, <3>1, <3>2
  <2>3. CASE u # t
    BY <1>0, <1>5, <2>1, <2>3 DEF Pending
  <2> QED BY <2>2, <2>3
<1>13. MarkedOnce'
  <2> SUFFICES ASSUME Owned, NEW u \in Thread, pc'[u] = "remove"
               PROVE  removed'[cur'[u]] = 0
    BY DEF MarkedOnce
  <2>1. CASE u = t
    <3>1. n # NULL /\ removed[n] = 0
      BY <1>0, <1>2, <1>7, <1>8, <2>1 DEF TypeOK
    <3> QED BY <1>4, <1>5, <1>6, <2>1, <3>1
  <2>2. CASE u # t
    <3>1. cur[u] \in heap'
      BY <1>0, <1>5, <2>2 DEF Control, CursorSafe
    <3> QED BY <1>0, <1>4, <1>5, <2>2, <3>1 DEF MarkedOnce
  <2> QED BY <2>1, <2>2
<1> QED BY <1>9, <1>10, <1>11, <1>12, <1>13 DEF WalkInv

\* list_remove marks the node under the cursor, and frees nothing.
LEMMA RemoveEffect ==
  ASSUME IInv, NEW t \in Thread, list_remove(t)
  PROVE  /\ cur[t] \in heap
         /\ removed' = [removed EXCEPT ![cur[t]] = @ + 1] /\ deleted' = deleted + 1
         /\ UNCHANGED <<heap, data, next, prev, start, end, items>>
<1>0. TypeOK /\ Control /\ CursorSafe /\ RefcountExact
  BY DEF IInv
<1>1. PICK n \in heap : n = cur[t]
  BY <1>0 DEF list_remove, Control, CursorSafe
<1>2. n \in Node /\ n # NULL
  BY <1>0, <1>1, NullNotObject DEF TypeOK
<1>3. ic[n] > 0
  <2>1. Cursors(n) # {}
    BY <1>1 DEF Cursors
  <2> QED BY <1>0, <2>1, CursorsFinite, FS_EmptySet DEF RefcountExact
<1> QED BY <1>0, <1>1, <1>2, <1>3 DEF list_remove, list_deref, Keep, Bump, TypeOK

\* list_remove, for the walks: the node is owed to nobody any more.
LEMMA RemoveWalk ==
  ASSUME IInv, WalkInv, NEW t \in Thread, list_remove(t)
  PROVE  WalkInv'
<1>0. TypeOK /\ Control /\ Called /\ Found /\ Ahead /\ Pending /\ MarkedOnce
  BY DEF IInv, WalkInv
<1>1. PICK n \in heap : n = cur[t]
  BY RemoveEffect
<1>2. /\ removed' = [removed EXCEPT ![n] = @ + 1] /\ deleted' = deleted + 1
      /\ UNCHANGED <<heap, data, next, prev, start, end>>
  BY <1>1, RemoveEffect
<1>3. /\ pc[t] = "remove"
      /\ pc' = [pc EXCEPT ![t] = IF op[t] \in Takes THEN "deref" ELSE "walk"]
      /\ owed' = [u \in Thread |-> owed[u] \ {n}]
      /\ UNCHANGED <<op, arg, cur>>
  BY <1>1 DEF list_remove
<1>4. /\ pc'[t] = IF op[t] \in Takes THEN "deref" ELSE "walk"
      /\ \A u \in Thread \ {t} : pc'[u] = pc[u]
      /\ \A m \in heap : removed'[m] = IF m = n THEN removed[m] + 1 ELSE removed[m]
      /\ \A m \in heap : removed[m] \in Nat
  BY <1>0, <1>2, <1>3 DEF TypeOK
<1>5. Live' = Live \ {n}
  BY <1>2, <1>4 DEF Live
<1>6. Called' /\ Found'
  BY <1>0, <1>2, <1>3, <1>4 DEF Called, Found
<1>7. Ahead'
  <2> SUFFICES ASSUME NEW u \in Thread
               PROVE  /\ owed'[u] \subseteq Live'
                      /\ pc'[u] \in {"idle", "destroy"} => owed'[u] = {}
                      /\ Reaches(heap', Onward(u)', Hop(u)', owed'[u])
    BY DEF Ahead
  <2>1. owed'[u] = owed[u] \ {n}
    BY <1>3
  <2>2. owed[u] \subseteq Live /\ (pc[u] \in {"idle", "destroy"} => owed[u] = {})
    BY <1>0 DEF Ahead
  <2>3. pc'[u] \in {"idle", "destroy"} => pc[u] \in {"idle", "destroy"}
    BY <1>4
  <2>4. Reaches(heap, Onward(u), Hop(u), owed[u])
    BY <1>0 DEF Ahead
  <2>5. Onward(u)' = Onward(u) /\ Hop(u)' = Hop(u) /\ heap' = heap
    BY <1>2, <1>3 DEF Onward, Hop, Backward
  <2>6. Reaches(heap', Onward(u)', Hop(u)', owed'[u])
    BY <2>1, <2>4, <2>5 DEF Reaches
  <2> QED BY <1>5, <2>1, <2>2, <2>3, <2>6
<1>8. Pending'
  <2> SUFFICES ASSUME NEW u \in Thread, op[u] = "list_delete_data",
                      pc'[u] \in {"walk", "remove"}, SoleUser(u, arg[u]),
                      NEW m \in Live \ {n}, data[m] = arg[u]
               PROVE  m \in owed'[u] \/ (pc'[u] = "remove" /\ m = cur[u])
    BY <1>2, <1>3, <1>5 DEF Pending, SoleUser
  <2>1. pc[u] \in {"walk", "remove"} /\ owed'[u] = owed[u] \ {n}
    BY <1>3, <1>4
  <2>2. m \in owed[u] \/ (pc[u] = "remove" /\ m = cur[u])
    BY <1>0, <2>1 DEF Pending
  <2> QED BY <1>1, <1>4, <2>1, <2>2
<1>9. MarkedOnce'
  <2> SUFFICES ASSUME Owned, NEW u \in Thread, pc'[u] = "remove"
               PROVE  removed'[cur[u]] = 0
    BY <1>3 DEF MarkedOnce
  <2>1. u # t /\ pc[u] = "remove"
    BY <1>4
  <2>2. \A v \in Thread : pc[v] = "remove" =>
          /\ op[v] = "list_delete_data" /\ data[cur[v]] = arg[v]
          /\ <<v, op[v], arg[v]>> \in Calls
    BY <1>0 DEF Called, Found, Owned
  <2>3. cur[u] # n
    <3> SUFFICES ASSUME cur[u] = n PROVE FALSE
      OBVIOUS
    <3>1. arg[u] = arg[t]
      BY <1>1, <1>3, <2>1, <2>2
    <3>2. /\ <<u, "list_delete_data", arg[u]>> \in Calls
          /\ <<t, "list_delete_data", arg[u]>> \in Calls
      BY <1>3, <2>1, <2>2, <3>1
    <3> QED BY <2>1, <3>2 DEF Owned
  <2>4. removed[cur[u]] = 0
    BY <1>0, <2>1 DEF MarkedOnce
  <2> QED BY <1>0, <1>2, <2>3, <2>4 DEF TypeOK
<1> QED BY <1>6, <1>7, <1>8, <1>9 DEF WalkInv

\* list_unlock_deref drops at most the node that its cursor leaves.
LEMMA UnlockDerefEffect ==
  ASSUME IInv, NEW t \in Thread, list_unlock_deref(t)
  PROVE  Dropped(cur[t])
<1>1. cur[t] # NULL
  BY DEF IInv, Control, list_unlock_deref
<1>2. list_deref(cur[t], Bump(rc, NULL, 1), Bump(Bump(ic, cur[t], -1), NULL, 1),
                 removed, deleted)
  BY DEF list_unlock_deref, Bump
<1>3. PICK n \in heap \cup {NULL} : n = NULL
  OBVIOUS
<1> QED BY <1>1, <1>2, <1>3, DerefEffect

\* list_unlock_deref, for the walks.
LEMMA UnlockDerefWalk ==
  ASSUME IInv, IInv', WalkInv, NEW t \in Thread, list_unlock_deref(t)
  PROVE  WalkInv'
<1>0. /\ TypeOK /\ Control /\ CursorSafe /\ CursorSafe'
      /\ Called /\ Found /\ Ahead /\ Pending /\ MarkedOnce
  BY DEF IInv, WalkInv
<1>1. /\ cur' = [cur EXCEPT ![t] = NULL]
      /\ pc' = [pc EXCEPT ![t] = "idle"]
      /\ owed' = [owed EXCEPT ![t] = {}]
      /\ UNCHANGED <<op, arg>>
  BY DEF list_unlock_deref
<1>2. cur[t] # NULL
  BY <1>0 DEF list_unlock_deref, Control
<1>3. Dropped(cur[t])
  BY UnlockDerefEffect
<1>4. /\ \A m \in heap' : m \in heap /\ data'[m] = data[m] /\ removed'[m] = removed[m]
      /\ Live' = Live
  BY <1>0, <1>3, DroppedKeeps
<1>5. /\ pc'[t] = "idle" /\ owed'[t] = {}
      /\ \A u \in Thread \ {t} : pc'[u] = pc[u] /\ cur'[u] = cur[u] /\ owed'[u] = owed[u]
  BY <1>0, <1>1 DEF TypeOK
<1>6. \A u \in Thread : pc'[u] = "remove" => u # t /\ pc[u] = "remove" /\ cur[u] \in heap'
  BY <1>0, <1>5 DEF Control, CursorSafe
<1>7. Called' /\ Found'
  BY <1>0, <1>1, <1>4, <1>5, <1>6 DEF Called, Found
<1>8. Ahead'
  <2> SUFFICES ASSUME NEW u \in Thread
               PROVE  /\ owed'[u] \subseteq Live'
                      /\ pc'[u] \in {"idle", "destroy"} => owed'[u] = {}
                      /\ Reaches(heap', Onward(u)', Hop(u)', owed'[u])
    BY DEF Ahead
  <2>1. CASE u = t
    BY <1>5, <2>1 DEF Reaches
  <2>2. CASE u # t
    <3>1. /\ owed[u] \subseteq Live /\ Reaches(heap, Onward(u), HopFrom(u, cur[u]), owed[u])
          /\ pc[u] \in {"idle", "destroy"} => owed[u] = {}
      BY <1>0, HopIsHopFrom DEF Ahead
    <3>2. op'[u] = op[u] /\ (cur'[u] # NULL => cur'[u] \in heap')
      BY <1>0, <1>1 DEF CursorSafe
    <3>3. owed'[u] \in SUBSET Live /\ Reaches(heap, Onward(u), HopFrom(u, cur'[u]), owed'[u])
      BY <1>5, <2>2, <3>1
    <3>4. owed'[u] \subseteq Live' /\ Reaches(heap', Onward(u)', Hop(u)', owed'[u])
      BY <1>3, <3>2, <3>3, DroppedAhead
    <3> QED BY <1>5, <2>2, <3>1, <3>4
  <2> QED BY <2>1, <2>2
<1>9. Pending'
  <2> SUFFICES ASSUME NEW u \in Thread, op[u] = "list_delete_data",
                      pc'[u] \in {"walk", "remove"}, SoleUser(u, arg[u]),
                      NEW m \in Live, data'[m] = arg[u]
               PROVE  m \in owed'[u] \/ (pc'[u] = "remove" /\ m = cur'[u])
    BY <1>1, <1>4 DEF Pending, SoleUser
  <2>1. data[m] = arg[u] /\ u # t
    BY <1>4, <1>5 DEF Live
  <2> QED BY <1>0, <1>5, <2>1 DEF Pending
<1>10. MarkedOnce'
  BY <1>0, <1>4, <1>5, <1>6 DEF MarkedOnce
<1> QED BY <1>7, <1>8, <1>9, <1>10 DEF WalkInv

\* list_push and list_unshift add one node at an end; what is ahead of a cursor stays so.
LEMMA InsertEffect ==
  ASSUME IInv, Ahead, NEW t \in Thread, NEW d \in Data, list_push(t, d) \/ list_unshift(t, d)
  PROVE  \E n \in Node \ heap :
           /\ heap' = heap \cup {n}
           /\ data' = [data EXCEPT ![n] = d] /\ removed' = [removed EXCEPT ![n] = 0]
           /\ \A u \in Thread : Reaches(heap', Onward(u)', Hop(u)', owed[u])
<1>0. /\ TypeOK /\ CursorSafe /\ Links /\ NULL \notin Node /\ heap \subseteq Node
      /\ \A u \in Thread : owed[u] \subseteq heap /\ Reaches(heap, Onward(u), Hop(u), owed[u])
  BY NullNotObject DEF IInv, TypeOK, Ahead, Live
<1>1. UNCHANGED <<op, cur>>
  BY DEF list_push, list_unshift
<1>2. \A u \in Thread : Backward(u)' <=> Backward(u)
  BY <1>1 DEF Backward
<1>3. PICK n \in Node \ heap :
        /\ heap' = heap \cup {n}
        /\ data' = [data EXCEPT ![n] = d] /\ removed' = [removed EXCEPT ![n] = 0]
        /\ \A m \in heap : next[m] # NULL => next'[m] = next[m]
        /\ \A m \in heap : prev[m] # NULL => prev'[m] = prev[m]
        /\ start # NULL => start' = start \/ (start' = n /\ next'[n] = start)
        /\ end # NULL => end' = end \/ (end' = n /\ prev'[n] = end)
  <2>1. CASE list_push(t, d)
    <3>1. PICK n \in Node :
            /\ node_new(n, d)
            /\ IF start = NULL
               THEN /\ start' = n
                    /\ next' = [next EXCEPT ![n] = NULL]
                    /\ prev' = [prev EXCEPT ![n] = NULL]
               ELSE /\ next' = [next EXCEPT ![end] = n, ![n] = NULL]
                    /\ prev' = [prev EXCEPT ![n] = end]
                    /\ UNCHANGED start
            /\ end' = n
      BY <2>1 DEF list_push
    <3>2. n \notin heap /\ heap' = heap \cup {n}
          /\ data' = [data EXCEPT ![n] = d] /\ removed' = [removed EXCEPT ![n] = 0]
      BY <3>1 DEF node_new
    <3>3. \A m \in heap : next[m] # NULL => next'[m] = next[m]
      BY <1>0, <3>1, <3>2 DEF Links, TypeOK
    <3>4. \A m \in heap : prev[m] # NULL => prev'[m] = prev[m]
      BY <1>0, <3>1, <3>2 DEF TypeOK
    <3>5. /\ start # NULL => start' = start \/ (start' = n /\ next'[n] = start)
          /\ end # NULL => end' = end \/ (end' = n /\ prev'[n] = end)
      BY <1>0, <3>1 DEF Links, TypeOK
    <3>6. n \in Node \ heap
      BY <3>2
    <3> QED BY <3>2, <3>3, <3>4, <3>5, <3>6, Zenon
  <2>2. CASE list_unshift(t, d)
    <3>1. PICK n \in Node :
            /\ node_new(n, d)
            /\ IF start = NULL
               THEN /\ end' = n
                    /\ next' = [next EXCEPT ![n] = NULL]
                    /\ prev' = [prev EXCEPT ![n] = NULL]
               ELSE /\ prev' = [prev EXCEPT ![start] = n, ![n] = NULL]
                    /\ next' = [next EXCEPT ![n] = start]
                    /\ UNCHANGED end
            /\ start' = n
      BY <2>2 DEF list_unshift
    <3>2. n \notin heap /\ heap' = heap \cup {n}
          /\ data' = [data EXCEPT ![n] = d] /\ removed' = [removed EXCEPT ![n] = 0]
      BY <3>1 DEF node_new
    <3>3. \A m \in heap : next[m] # NULL => next'[m] = next[m]
      BY <1>0, <3>1, <3>2 DEF TypeOK
    <3>4. \A m \in heap : prev[m] # NULL => prev'[m] = prev[m]
      BY <1>0, <3>1, <3>2 DEF Links, TypeOK
    <3>5. /\ start # NULL => start' = start \/ (start' = n /\ next'[n] = start)
          /\ end # NULL => end' = end \/ (end' = n /\ prev'[n] = end)
      BY <1>0, <3>1 DEF Links, TypeOK
    <3>6. n \in Node \ heap
      BY <3>2
    <3> QED BY <3>2, <3>3, <3>4, <3>5, <3>6, Zenon
  <2> QED BY <2>1, <2>2
<1>4. ASSUME NEW u \in Thread PROVE Reaches(heap', Onward(u)', Hop(u)', owed[u])
  <2>1. CASE ~Backward(u)
    <3>1. Onward(u) = next /\ Onward(u)' = next'
      BY <1>2, <2>1 DEF Onward
    <3>2. \A m \in heap : next[m] # NULL => next[m] \in heap /\ next'[m] = next[m]
      BY <1>0, <1>3 DEF Links
    <3>3. /\ Hop(u) = IF cur[u] = NULL THEN start ELSE next[cur[u]]
          /\ Hop(u)' = IF cur[u] = NULL THEN start' ELSE next'[cur[u]]
      BY <1>1, <1>2, <2>1 DEF Hop
    <3>4. Hop(u) # NULL => /\ Hop(u) \in heap
                           /\ Hop(u)' = Hop(u) \/ (Hop(u)' = n /\ next'[n] = Hop(u))
      BY <1>0, <1>3, <3>2, <3>3 DEF CursorSafe, Links
    <3>5. owed[u] \subseteq heap /\ Reaches(heap, next, Hop(u), owed[u]) /\ n # NULL
      BY <1>0, <3>1
    <3>6. Reaches(heap \cup {n}, next', Hop(u)', owed[u])
      BY <1>3, <3>2, <3>4, <3>5, ExtendReaches
    <3> QED BY <1>3, <3>1, <3>6
  <2>2. CASE Backward(u)
    <3>1. Onward(u) = prev /\ Onward(u)' = prev'
      BY <1>2, <2>2 DEF Onward
    <3>2. \A m \in heap : prev[m] # NULL => prev[m] \in heap /\ prev'[m] = prev[m]
      BY <1>0, <1>3 DEF Links
    <3>3. /\ Hop(u) = IF cur[u] = NULL THEN end ELSE prev[cur[u]]
          /\ Hop(u)' = IF cur[u] = NULL THEN end' ELSE prev'[cur[u]]
      BY <1>1, <1>2, <2>2 DEF Hop
    <3>4. Hop(u) # NULL => /\ Hop(u) \in heap
                           /\ Hop(u)' = Hop(u) \/ (Hop(u)' = n /\ prev'[n] = Hop(u))
      BY <1>0, <1>3, <3>2, <3>3 DEF CursorSafe, Links
    <3>5. owed[u] \subseteq heap /\ Reaches(heap, prev, Hop(u), owed[u]) /\ n # NULL
      BY <1>0, <3>1
    <3>6. Reaches(heap \cup {n}, prev', Hop(u)', owed[u])
      BY <1>3, <3>2, <3>4, <3>5, ExtendReaches
    <3> QED BY <1>3, <3>1, <3>6
  <2> QED BY <2>1, <2>2
<1> QED BY <1>3, <1>4

\* list_push and list_unshift, for the walks.
LEMMA InsertWalk ==
  ASSUME IInv, WalkInv, NEW t \in Thread, NEW d \in Data, list_push(t, d) \/ list_unshift(t, d)
  PROVE  WalkInv'
<1>0. /\ TypeOK /\ Control /\ CursorSafe
      /\ Called /\ Found /\ Ahead /\ Pending /\ MarkedOnce
  BY DEF IInv, WalkInv
<1>1. PICK n \in Node \ heap :
        /\ heap' = heap \cup {n}
        /\ data' = [data EXCEPT ![n] = d] /\ removed' = [removed EXCEPT ![n] = 0]
        /\ \A u \in Thread : Reaches(heap', Onward(u)', Hop(u)', owed[u])
  BY <1>0, InsertEffect
<1>2. UNCHANGED <<deleted, pc, op, arg, cur, owed>>
  BY DEF list_push, list_unshift
<1>3. pc[t] = "idle" /\ \E o \in Inserts : <<t, o, d>> \in Calls
  BY DEF list_push, list_unshift, Calling, Inserts
<1>4. /\ data'[n] = d /\ removed'[n] = 0
      /\ \A m \in heap : m # n /\ data'[m] = data[m] /\ removed'[m] = removed[m]
  BY <1>0, <1>1 DEF TypeOK
<1>5. Live' = Live \cup {n}
  BY <1>1, <1>4 DEF Live
<1>6. \A u \in Thread : pc[u] = "remove" => cur[u] \in heap
  BY <1>0 DEF Control, CursorSafe
<1>7. Called' /\ Found' /\ MarkedOnce'
  BY <1>0, <1>2, <1>4, <1>5, <1>6 DEF Called, Found, MarkedOnce
<1>8. Ahead'
  BY <1>0, <1>1, <1>2, <1>5 DEF Ahead
<1>9. Pending'
  <2> SUFFICES ASSUME NEW u \in Thread, op[u] = "list_delete_data",
                      pc[u] \in {"walk", "remove"}, SoleUser(u, arg[u]),
                      NEW m \in Live \cup {n}, data'[m] = arg[u]
               PROVE  m \in owed[u] \/ (pc[u] = "remove" /\ m = cur[u])
    BY <1>2, <1>5 DEF Pending, SoleUser
  <2>1. m # n
    <3> SUFFICES ASSUME m = n PROVE FALSE
      OBVIOUS
    <3>1. PICK o \in Inserts : <<t, o, arg[u]>> \in Calls
      BY <1>3, <1>4
    <3>2. t = u
      BY <3>1 DEF SoleUser
    <3> QED BY <1>3, <3>2
  <2>2. m \in Live /\ data[m] = arg[u]
    BY <1>4, <2>1 DEF Live
  <2> QED BY <1>0, <2>2 DEF Pending
<1> QED BY <1>7, <1>8, <1>9 DEF WalkInv

\* A walk begins with every live node ahead of it.
LEMMA BeginWalkWalk ==
  ASSUME IInv, WalkInv, NEW t \in Thread, NEW o \in Walks, NEW d \in Data, BeginWalk(t, o, d)
  PROVE  WalkInv'
<1>0. TypeOK /\ Control /\ Called /\ Found /\ Ahead /\ Pending /\ MarkedOnce
  BY DEF IInv, WalkInv
<1>1. /\ pc[t] = "idle" /\ <<t, o, d>> \in Calls
      /\ pc' = [pc EXCEPT ![t] = "walk"] /\ op' = [op EXCEPT ![t] = o]
      /\ arg' = [arg EXCEPT ![t] = d] /\ owed' = [owed EXCEPT ![t] = Live]
      /\ UNCHANGED <<heap, data, next, prev, removed, start, end, deleted, cur>>
  BY DEF BeginWalk, Calling, nodeVars, listVars
<1>2. /\ pc'[t] = "walk" /\ op'[t] = o /\ arg'[t] = d /\ owed'[t] = Live
      /\ \A u \in Thread \ {t} : /\ pc'[u] = pc[u] /\ op'[u] = op[u]
                                 /\ arg'[u] = arg[u] /\ owed'[u] = owed[u]
  BY <1>0, <1>1 DEF TypeOK
<1>3. cur[t] = NULL
  BY <1>0, <1>1 DEF Control
<1>4. Live' = Live
  BY <1>1 DEF Live
<1>5. Called' /\ Found' /\ MarkedOnce'
  BY <1>0, <1>1, <1>2, <1>4 DEF Called, Found, MarkedOnce
<1>6. Ahead'
  <2> SUFFICES ASSUME NEW u \in Thread
               PROVE  /\ owed'[u] \subseteq Live'
                      /\ pc'[u] \in {"idle", "destroy"} => owed'[u] = {}
                      /\ Reaches(heap', Onward(u)', Hop(u)', owed'[u])
    BY DEF Ahead
  <2>1. CASE u = t
    <3>1. /\ Onward(u)' = IF Backward(u)' THEN prev ELSE next
          /\ Hop(u)' = IF Backward(u)' THEN end ELSE start
      BY <1>1, <1>3, <2>1 DEF Onward, Hop
    <3>2. Reaches(heap, Onward(u)', Hop(u)', heap)
      BY <3>1, WholeAhead
    <3>3. Live \subseteq heap
      BY DEF Live
    <3>4. Reaches(heap', Onward(u)', Hop(u)', owed'[u])
      BY <1>1, <1>2, <2>1, <3>2, <3>3 DEF Reaches
    <3> QED BY <1>2, <1>4, <2>1, <3>4
  <2>2. CASE u # t
    <3>1. op'[u] = op[u]
      BY <1>2, <2>2
    <3>2. Onward(u)' = Onward(u) /\ Hop(u)' = Hop(u)
      BY <1>1, <3>1 DEF Onward, Hop, Backward
    <3> QED BY <1>0, <1>1, <1>2, <1>4, <2>2, <3>2 DEF Ahead
  <2> QED BY <2>1, <2>2
<1>7. Pending'
  <2> SUFFICES ASSUME NEW u \in Thread, op'[u] = "list_delete_data",
                      pc'[u] \in {"walk", "remove"}, SoleUser(u, arg'[u]),
                      NEW m \in Live, data[m] = arg'[u]
               PROVE  m \in owed'[u] \/ (pc'[u] = "remove" /\ m = cur[u])
    BY <1>1, <1>4 DEF Pending, SoleUser
  <2>1. CASE u = t
    BY <1>2, <2>1
  <2>2. CASE u # t
    BY <1>0, <1>2, <2>2 DEF Pending
  <2> QED BY <2>1, <2>2
<1> QED BY <1>5, <1>6, <1>7 DEF WalkInv

\* list_destroy begins and runs while no thread walks.
LEMMA DestroyWalk ==
  ASSUME IInv, IInv', WalkInv, NEW t \in Thread,
         list_destroy(t) \/ \E d \in Data : BeginDestroy(t, d)
  PROVE  WalkInv'
<1>0. TypeOK /\ Control /\ Ahead /\ MarkedOnce
  BY DEF IInv, WalkInv
<1>1. UNCHANGED <<arg, cur, owed>>
  BY DEF list_destroy, BeginDestroy
<1>2. \A u \in Thread : pc[u] \in {"idle", "destroy"} /\ pc'[u] \in {"idle", "destroy"}
  <2>1. CASE list_destroy(t)
    BY <1>0, <2>1 DEF list_destroy, Control, TypeOK
  <2>2. CASE \E d \in Data : BeginDestroy(t, d)
    BY <1>0, <2>2 DEF BeginDestroy, TypeOK
  <2> QED BY <2>1, <2>2
<1>3. Called' /\ Found' /\ Pending'
  BY <1>2 DEF Called, Found, Pending
<1>4. \A u \in Thread : owed'[u] = {}
  BY <1>0, <1>1, <1>2 DEF Ahead
<1>5. Ahead'
  BY <1>4 DEF Ahead, Reaches
<1>6. MarkedOnce'
  BY <1>2 DEF MarkedOnce
<1> QED BY <1>3, <1>5, <1>6 DEF WalkInv

\* list_new establishes the invariant of the walks, and every critical section keeps it.
LEMMA WalkInit == Init => WalkInv
<1> SUFFICES ASSUME Init PROVE WalkInv
  OBVIOUS
<1>1. Called /\ Found /\ Pending
  BY DEF Init, Called, Found, Pending
<1>2. Ahead
  BY DEF Init, Ahead, Reaches
<1>3. MarkedOnce
  BY DEF Init, MarkedOnce
<1> QED BY <1>1, <1>2, <1>3 DEF WalkInv

\* Every critical section keeps the invariant of the walks.
LEMMA WalkNext == IInv /\ IInv' /\ WalkInv /\ [Next]_vars => WalkInv'
<1> SUFFICES ASSUME IInv, IInv', WalkInv, [Next]_vars PROVE WalkInv'
  OBVIOUS
<1>1. ASSUME NEW t \in Thread, Step(t) PROVE WalkInv'
  BY <1>1, IterateWalk, RemoveWalk, UnlockDerefWalk, DestroyWalk DEF Step
<1>2. ASSUME NEW t \in Thread, NEW d \in Data, list_push(t, d) \/ list_unshift(t, d)
      PROVE  WalkInv'
  BY <1>2, InsertWalk
<1>3. ASSUME NEW t \in Thread, NEW d \in Data, BeginDestroy(t, d) PROVE WalkInv'
  BY <1>3, DestroyWalk
<1>4. ASSUME NEW t \in Thread, NEW d \in Data, NEW o \in Walks, BeginWalk(t, o, d)
      PROVE  WalkInv'
  BY <1>4, BeginWalkWalk
<1>5. ASSUME UNCHANGED vars PROVE WalkInv'
  <2>1. Live' = Live /\ \A u : Onward(u)' = Onward(u) /\ Hop(u)' = Hop(u)
    BY <1>5 DEF vars, nodeVars, listVars, threadVars, Live, Onward, Hop, Backward
  <2>2. Called' /\ Found' /\ Pending' /\ MarkedOnce'
    BY <1>5, <2>1 DEF vars, nodeVars, listVars, threadVars, WalkInv, Called, Found, Pending,
                      MarkedOnce
  <2>3. Ahead'
    BY <1>5, <2>1 DEF vars, nodeVars, listVars, threadVars, WalkInv, Ahead
  <2> QED BY <2>2, <2>3 DEF WalkInv
<1> QED BY <1>1, <1>2, <1>3, <1>4, <1>5 DEF Next

\* The invariant of the walks holds in every reachable state of the list.
LEMMA WalkInvariance == Spec => []WalkInv
<1> QED BY WalkInit, WalkNext, Invariance, PTL DEF Spec

\* A loop of list_next or list_prev that ends has met every node that was live from its
\* start to its end, whatever the other threads inserted, removed and freed.
THEOREM ListScanComplete == Spec => []ScanComplete
<1>1. WalkInv => ScanComplete
  BY DEF WalkInv, Ahead, ScanComplete
<1> QED BY <1>1, WalkInvariance, PTL

\* When list_delete_data returns to the only thread that inserts the datum, no live node
\* holds it: player_close may free the player.
THEOREM ListDeleteComplete == Spec => DeleteComplete
<1>1. ASSUME IInv, WalkInv, [Next]_vars, NEW t \in Thread,
             pc[t] = "walk", op[t] = "list_delete_data", pc'[t] = "idle", SoleUser(t, arg[t])
      PROVE  \A n \in Live' : data'[n] # arg[t]
  <2>0. TypeOK /\ Control /\ Ahead /\ Pending
    BY <1>1 DEF IInv, WalkInv
  <2>1. Iterate(t)
    <3>1. ASSUME NEW u \in Thread, Iterate(u) PROVE u = t
      BY <1>1, <2>0, <3>1 DEF Iterate, LoopOrReturn, TypeOK
    <3>2. ASSUME NEW u \in Thread, list_remove(u) PROVE FALSE
      BY <1>1, <2>0, <3>2 DEF list_remove, TypeOK
    <3>3. ASSUME NEW u \in Thread, list_unlock_deref(u) PROVE FALSE
      BY <1>1, <2>0, <3>3 DEF list_unlock_deref, TypeOK, Scans
    <3>4. ASSUME NEW u \in Thread, list_destroy(u) PROVE FALSE
      BY <1>1, <2>0, <3>4 DEF list_destroy, Control
    <3>5. ASSUME NEW u \in Thread, NEW d \in Data,
                 \/ list_push(u, d) \/ list_unshift(u, d) \/ BeginDestroy(u, d)
                 \/ \E o \in Walks : BeginWalk(u, o, d)
          PROVE  FALSE
      BY <1>1, <2>0, <3>5 DEF list_push, list_unshift, BeginDestroy, BeginWalk, Calling, TypeOK
    <3>6. pc' # pc
      BY <1>1
    <3> QED BY <1>1, <3>1, <3>2, <3>3, <3>4, <3>5, <3>6 DEF Next, Step, vars, threadVars
  <2>2. Hop(t) = NULL
    BY <1>1, <2>0, <2>1 DEF Iterate, LoopOrReturn, AfterHop, TypeOK
  <2>3. owed[t] = {}
    <3>1. Reaches(heap, Onward(t), Hop(t), owed[t])
      BY <2>0 DEF Ahead
    <3> QED BY <2>2, <3>1, HopReaches
  <2>4. \A n \in Live : data[n] # arg[t]
    BY <1>1, <2>0, <2>3 DEF Pending
  <2>5. Dropped(cur[t])
    BY <1>1, <2>1, IterateEffect
  <2>6. Live' = Live /\ \A n \in heap' : data'[n] = data[n]
    BY <2>0, <2>5, DroppedKeeps
  <2> QED BY <2>4, <2>6 DEF Live
<1>2. IInv /\ WalkInv /\ [Next]_vars =>
        [\A t \in Thread :
           /\ pc[t] = "walk" /\ op[t] = "list_delete_data" /\ pc'[t] = "idle"
           /\ SoleUser(t, arg[t])
           => \A n \in Live' : data'[n] # arg[t]]_vars
  BY <1>1
<1> QED BY <1>2, Invariance, WalkInvariance, PTL DEF Spec, DeleteComplete

-----------------------------------------------------------------------------
(* list_items *)

\* The nodes that list_remove has marked.
Marked == {n \in heap : removed[n] # 0}

\* What list->deleted counts beyond the marked nodes.
Excess == deleted - Cardinality(Marked)

\* A step changes each counter by one at most, and the excess by k.
Counts(k) ==
  /\ items' - items \in -1..1
  /\ deleted' - deleted \in -1..1
  /\ Excess' = Excess + k

\* There are finitely many marked nodes, and the others are live.
LEMMA MarkedFinite ==
  ASSUME TypeOK
  PROVE  /\ IsFiniteSet(heap) /\ IsFiniteSet(Marked)
         /\ Cardinality(Marked) \in Nat
         /\ Cardinality(Live) = Cardinality(heap) - Cardinality(Marked)
<1>1. IsFiniteSet(heap) /\ Marked \subseteq heap /\ Live = heap \ Marked
  BY NodeFinite, FS_Subset DEF TypeOK, Marked, Live
<1>2. IsFiniteSet(Marked)
  BY <1>1, FS_Subset
<1>3. heap \cap Marked = Marked
  BY <1>1
<1>4. Cardinality(heap \ Marked) = Cardinality(heap) - Cardinality(heap \cap Marked)
  BY <1>1, FS_Difference
<1> QED BY <1>1, <1>2, <1>3, <1>4, FS_CardinalityType

\* A step that leaves the nodes, their marks and list->deleted alone removes nothing.
LEMMA SameCount ==
  ASSUME TypeOK, UNCHANGED <<heap, removed, deleted>>, items' - items \in -1..1
  PROVE  Counts(0) /\ ~RemovedAgain
<1>1. Marked' = Marked
  BY DEF Marked
<1>2. Excess' = Excess /\ Excess \in Int
  BY <1>1, MarkedFinite DEF Excess, TypeOK
<1>3. ~RemovedAgain
  BY DEF RemovedAgain, TypeOK
<1> QED BY <1>2, <1>3 DEF Counts, TypeOK

\* Unlinking a node uncounts it in list->deleted if it was marked.
LEMMA UnlinkCount ==
  ASSUME TypeOK, NEW c \in heap, heap' = heap \ {c}, removed' = [removed EXCEPT ![c] = 0],
         items' = items - 1, deleted' = IF removed[c] # 0 THEN deleted - 1 ELSE deleted
  PROVE  Counts(0) /\ ~RemovedAgain
<1>1. Marked' = Marked \ {c}
  BY DEF Marked, TypeOK
<1>2. IsFiniteSet(Marked) /\ Cardinality(Marked) \in Nat
  BY MarkedFinite
<1>3. Excess' = Excess /\ Excess \in Int
  <2>1. CASE removed[c] # 0
    <3>1. c \in Marked
      BY <2>1 DEF Marked
    <3>2. Cardinality(Marked') = Cardinality(Marked) - 1
      BY <1>1, <1>2, <3>1, FS_RemoveElement
    <3> QED BY <1>2, <2>1, <3>2 DEF Excess, TypeOK
  <2>2. CASE removed[c] = 0
    <3>1. Marked' = Marked
      BY <1>1, <2>2 DEF Marked
    <3> QED BY <1>2, <2>2, <3>1 DEF Excess, TypeOK
  <2> QED BY <2>1, <2>2
<1>4. ~RemovedAgain
  <2> SUFFICES ASSUME NEW n \in heap PROVE ~(removed'[n] > removed[n])
    BY DEF RemovedAgain
  <2>1. removed[n] \in Nat /\ removed'[n] \in {0, removed[n]}
    BY DEF TypeOK
  <2> QED BY <2>1
<1> QED BY <1>3, <1>4 DEF Counts, TypeOK

\* list_deref drops a node that is marked, or none.
LEMMA DroppedCount ==
  ASSUME TypeOK, NEW c, Dropped(c)
  PROVE  Counts(0) /\ ~RemovedAgain
<1>1. CASE UNCHANGED <<heap, data, next, prev, removed, start, end, items, deleted>>
  BY <1>1, SameCount DEF TypeOK
<1>2. CASE /\ c \in heap /\ removed[c] # 0 /\ heap' = heap \ {c} /\ items' = items - 1
           /\ removed' = [removed EXCEPT ![c] = 0] /\ deleted' = deleted - 1
  BY <1>2, UnlinkCount
<1> QED BY <1>1, <1>2 DEF Dropped, Spliced

\* list_remove counts the node, whether it was marked before or not.
LEMMA RemoveCount ==
  ASSUME IInv, NEW t \in Thread, list_remove(t)
  PROVE  Counts(IF RemovedAgain THEN 1 ELSE 0)
<1>0. TypeOK
  BY DEF IInv
<1>1. PICK n \in heap : n = cur[t]
  BY RemoveEffect
<1>2. /\ removed' = [removed EXCEPT ![n] = @ + 1] /\ deleted' = deleted + 1
      /\ UNCHANGED heap
  BY <1>1, RemoveEffect
<1>3. UNCHANGED items
  BY RemoveEffect
<1>4. /\ \A m \in heap : removed'[m] = IF m = n THEN removed[m] + 1 ELSE removed[m]
      /\ \A m \in heap : removed[m] \in Nat
  BY <1>0, <1>2 DEF TypeOK
<1>5. RemovedAgain <=> removed[n] # 0
  BY <1>1, <1>4 DEF RemovedAgain
<1>6. Marked' = Marked \cup {n}
  BY <1>2, <1>4 DEF Marked
<1>7. IsFiniteSet(Marked) /\ Cardinality(Marked) \in Nat
  BY <1>0, MarkedFinite
<1>8. Excess' = Excess + (IF RemovedAgain THEN 1 ELSE 0)
  <2>1. CASE removed[n] = 0
    <3>1. n \notin Marked
      BY <2>1 DEF Marked
    <3>2. Cardinality(Marked') = Cardinality(Marked) + 1
      BY <1>6, <1>7, <3>1, FS_AddElement
    <3> QED BY <1>0, <1>2, <1>5, <1>7, <2>1, <3>2 DEF Excess, TypeOK
  <2>2. CASE removed[n] # 0
    <3>1. Marked' = Marked
      BY <1>6, <2>2 DEF Marked
    <3> QED BY <1>0, <1>2, <1>5, <1>7, <2>2, <3>1 DEF Excess, TypeOK
  <2> QED BY <2>1, <2>2
<1> QED BY <1>0, <1>2, <1>3, <1>8 DEF Counts, TypeOK

\* A new node is not marked.
LEMMA InsertCount ==
  ASSUME IInv, WalkInv, NEW t \in Thread, NEW d \in Data, list_push(t, d) \/ list_unshift(t, d)
  PROVE  Counts(0) /\ ~RemovedAgain
<1>0. TypeOK
  BY DEF IInv
<1>1. PICK n \in Node \ heap :
        heap' = heap \cup {n} /\ removed' = [removed EXCEPT ![n] = 0]
  BY InsertEffect DEF WalkInv
<1>2. items' = items + 1 /\ UNCHANGED deleted
  BY DEF list_push, list_unshift
<1>3. removed'[n] = 0 /\ \A m \in heap : m # n /\ removed'[m] = removed[m] /\ removed[m] \in Nat
  BY <1>0, <1>1 DEF TypeOK
<1>4. Marked' = Marked
  BY <1>1, <1>3 DEF Marked
<1>5. Excess' = Excess /\ Excess \in Int
  BY <1>0, <1>2, <1>4, MarkedFinite DEF Excess, TypeOK
<1>6. ~RemovedAgain
  BY <1>3 DEF RemovedAgain
<1> QED BY <1>0, <1>2, <1>5, <1>6 DEF Counts, TypeOK

\* list_destroy takes one node after the other.
LEMMA DestroyCount ==
  ASSUME IInv, NEW t \in Thread, list_destroy(t)
  PROVE  Counts(0) /\ ~RemovedAgain
<1>0. TypeOK /\ Links
  BY DEF IInv
<1>1. CASE start # NULL
  <2>1. list_unlink(start, rc, ic, removed, deleted) /\ start \in heap
    BY <1>0, <1>1 DEF list_destroy, Links
  <2> QED BY <1>0, <2>1, UnlinkCount DEF list_unlink, Uncount
<1>2. CASE start = NULL
  <2>1. UNCHANGED <<heap, removed, items, deleted>>
    BY <1>2 DEF list_destroy, nodeVars
  <2> QED BY <1>0, <2>1, SameCount DEF TypeOK
<1> QED BY <1>1, <1>2

\* Only list_remove changes what list->deleted counts beyond the marked nodes.
LEMMA OtherCount ==
  ASSUME IInv, WalkInv, Next, \A t \in Thread : ~list_remove(t)
  PROVE  Counts(0) /\ ~RemovedAgain
<1>0. TypeOK
  BY DEF IInv
<1>1. ASSUME NEW t \in Thread, Step(t) PROVE Counts(0) /\ ~RemovedAgain
  BY <1>0, <1>1, IterateEffect, UnlockDerefEffect, DroppedCount, DestroyCount DEF Step
<1>2. ASSUME NEW t \in Thread, NEW d \in Data,
             BeginDestroy(t, d) \/ \E o \in Walks : BeginWalk(t, o, d)
      PROVE  Counts(0) /\ ~RemovedAgain
  <2>1. UNCHANGED <<heap, removed, items, deleted>>
    BY <1>2 DEF BeginDestroy, BeginWalk, nodeVars, listVars
  <2> QED BY <1>0, <2>1, SameCount DEF TypeOK
<1>3. ASSUME NEW t \in Thread, NEW d \in Data, list_push(t, d) \/ list_unshift(t, d)
      PROVE  Counts(0) /\ ~RemovedAgain
  BY <1>3, InsertCount
<1> QED BY <1>1, <1>2, <1>3 DEF Next

\* What a critical section does to the counters.
LEMMA StepCount ==
  ASSUME IInv, WalkInv, Next
  PROVE  Counts(IF RemovedAgain THEN 1 ELSE 0)
<1>1. CASE \A t \in Thread : ~list_remove(t)
  BY <1>1, OtherCount
<1>2. CASE \E t \in Thread : list_remove(t)
  BY <1>2, RemoveCount
<1> QED BY <1>1, <1>2

\* What the call has read is as old as the changes since, and list->deleted exceeds the
\* marked nodes by the repeated removals.
CountInv ==
  /\ first \in Counter \cup {NULL}
  /\ seen \in Int /\ changes \in Nat /\ surplus \in Nat
  /\ first = NULL => changes = 0
  /\ first # NULL =>
       seen - (IF first = "items" THEN items ELSE deleted) \in (-changes)..changes
  /\ Excess = surplus

\* What was read of a counter is off by one more at most after a change of one.
LEMMA Drift ==
  ASSUME NEW s \in Int, NEW x \in Int, NEW y \in Int, NEW k \in Nat, NEW l \in Nat,
         s - x \in (-k)..k,
         (y = x /\ l = k) \/ (y - x \in -1..1 /\ l = k + 1)
  PROVE  s - y \in (-l)..l
<1>1. -k <= s - x /\ s - x <= k
  OBVIOUS
<1>2. -l <= s - y /\ s - y <= l
  BY <1>1
<1> QED BY <1>2

\* Every step of the list or of list_items keeps it.
LEMMA CountStep ==
  IInv /\ WalkInv /\ CountInv /\ [CountNext]_<<vars, countVars>> => CountInv'
<1> SUFFICES ASSUME IInv, WalkInv, CountInv, [CountNext]_<<vars, countVars>>
             PROVE  CountInv'
  OBVIOUS
<1>0. items \in Int /\ deleted \in Int /\ Excess \in Int
  BY MarkedFinite DEF IInv, TypeOK, Excess
<1>1. ASSUME UNCHANGED vars
      PROVE  items' = items /\ deleted' = deleted /\ Excess' = Excess
  <2>1. UNCHANGED <<heap, removed, items, deleted>>
    BY <1>1 DEF vars, nodeVars, listVars
  <2>2. Marked' = Marked
    BY <2>1 DEF Marked
  <2> QED BY <2>1, <2>2 DEF Excess
<1>2. CASE Uses
  <2>1. Counts(IF RemovedAgain THEN 1 ELSE 0)
    BY <1>2, StepCount DEF Uses
  <2>2. items' \in Int /\ deleted' \in Int
    BY <1>2, NextInv DEF Uses, IInv, TypeOK
  <2>3. Excess' = surplus' /\ surplus' \in Nat
    BY <1>2, <2>1 DEF CountInv, Counts, Uses
  <2>4. first' = first /\ seen' = seen /\ changes' \in {changes, changes + 1}
    BY <1>2 DEF Uses
  <2>5. CASE first = NULL
    BY <1>2, <2>3, <2>4, <2>5 DEF CountInv, Uses
  <2>6. CASE first # NULL
    <3>1. \/ items' = items /\ deleted' = deleted /\ changes' = changes
          \/ changes' = changes + 1
      BY <1>2, <2>6 DEF Uses
    <3>2. seen' - (IF first' = "items" THEN items' ELSE deleted') \in (-changes')..changes'
      <4>0. changes' \in Nat
        BY <2>4 DEF CountInv
      <4>1. /\ items' - items \in -1..1 /\ deleted' - deleted \in -1..1
            /\ seen \in Int /\ changes \in Nat
            /\ seen - (IF first = "items" THEN items ELSE deleted) \in (-changes)..changes
        BY <2>1, <2>6 DEF CountInv, Counts
      <4>2. CASE first = "items"
        <5>1. seen - items \in (-changes)..changes
          BY <4>1, <4>2
        <5>2. seen - items' \in (-changes')..changes'
          BY <1>0, <2>2, <3>1, <4>0, <4>1, <5>1, Drift
        <5> QED BY <2>4, <4>2, <5>2
      <4>3. CASE first # "items"
        <5>1. seen - deleted \in (-changes)..changes
          BY <4>1, <4>3
        <5>2. seen - deleted' \in (-changes')..changes'
          BY <1>0, <2>2, <3>1, <4>0, <4>1, <5>1, Drift
        <5> QED BY <2>4, <4>3, <5>2
      <4> QED BY <4>2, <4>3
    <3> QED BY <2>3, <2>4, <2>6, <3>2 DEF CountInv
  <2> QED BY <2>5, <2>6
<1>3. ASSUME NEW c \in Counter, ReadFirst(c) PROVE CountInv'
  BY <1>0, <1>1, <1>3 DEF ReadFirst, CountInv
<1>4. CASE ReadSecond
  BY <1>0, <1>1, <1>4 DEF ReadSecond, CountInv
<1>5. CASE UNCHANGED <<vars, countVars>>
  BY <1>1, <1>5 DEF countVars, CountInv
<1> QED BY <1>2, <1>3, <1>4, <1>5 DEF CountNext

\* A step of ListCount is one of List, or leaves the list alone.
LEMMA CountSpecImpliesSpec == CountSpec => Spec
<1>1. CountInit => Init
  BY DEF CountInit
<1>2. [CountNext]_<<vars, countVars>> => [Next]_vars
  BY DEF CountNext, Uses, ReadFirst, ReadSecond
<1> QED BY <1>1, <1>2, PTL DEF CountSpec, Spec

\* The invariant of list_items holds in every reachable state.
LEMMA CountInvariance == CountSpec => []CountInv
<1>1. CountInit => CountInv
  <2> SUFFICES ASSUME CountInit PROVE CountInv
    OBVIOUS
  <2>1. Marked = {} /\ deleted = 0
    BY DEF CountInit, Init, Marked
  <2>2. Excess = 0
    BY <2>1, FS_EmptySet DEF Excess
  <2> QED BY <2>2 DEF CountInit, CountInv
<1> QED BY <1>1, CountStep, CountSpecImpliesSpec, Invariance, WalkInvariance, PTL DEF CountSpec

\* list_items is wrong by the changes between its two reads and by the repeated removals,
\* and by nothing else.
THEOREM ListItemsCount == CountSpec => ListItemsNear
<1>1. ASSUME IInv, CountInv, ReadSecond
      PROVE  \E k \in (-changes)..changes :
               list_items = (Cardinality(Live) - surplus + k) % (ULongMax + 1)
  <2>1. /\ items \in Int /\ deleted \in Int /\ items = Cardinality(heap)
        /\ Cardinality(Live) = Cardinality(heap) - Cardinality(Marked)
        /\ Cardinality(Marked) \in Nat /\ deleted - Cardinality(Marked) = surplus
    BY <1>1, MarkedFinite DEF IInv, TypeOK, ItemsExact, CountInv, Excess
  <2>2. Cardinality(Live) - surplus = items - deleted
    BY <1>1, <2>1 DEF CountInv
  <2>3. first # NULL /\ seen \in Int /\ changes \in Nat
    BY <1>1 DEF CountInv, ReadSecond
  <2>4. CASE first = "items"
    <3>1. seen - items \in (-changes)..changes
      BY <1>1, <2>3, <2>4 DEF CountInv
    <3>2. list_items = (seen - deleted) % (ULongMax + 1)
      BY <2>4 DEF list_items
    <3>3. seen - deleted = Cardinality(Live) - surplus + (seen - items)
      BY <2>1, <2>2, <2>3
    <3> QED BY <3>1, <3>2, <3>3
  <2>5. CASE first # "items"
    <3>1. deleted - seen \in (-changes)..changes
      BY <1>1, <2>1, <2>3, <2>5 DEF CountInv
    <3>2. list_items = (items - seen) % (ULongMax + 1)
      BY <2>5 DEF list_items
    <3>3. items - seen = Cardinality(Live) - surplus + (deleted - seen)
      BY <2>1, <2>2, <2>3
    <3> QED BY <3>1, <3>2, <3>3
  <2> QED BY <2>4, <2>5
<1>2. IInv /\ CountInv /\ [CountNext]_<<vars, countVars>> =>
        [ReadSecond => \E k \in (-changes)..changes :
           list_items = (Cardinality(Live) - surplus + k) % (ULongMax + 1)]_<<vars, countVars>>
  BY <1>1
<1> QED BY <1>2, CountInvariance, CountSpecImpliesSpec, Invariance, PTL
        DEF CountSpec, ListItemsNear

\* The server's threads remove their own data only: no node is removed once more, and
\* list_items is exact whenever nothing changes during the call.
THEOREM ListRemovedOnce == CountSpec => []RemovedOnce
<1> DEFINE Inv == surplus \in Nat /\ RemovedOnce
<1>1. CountInit => Inv
  BY DEF CountInit, RemovedOnce
<1>2. IInv /\ WalkInv /\ Inv /\ [CountNext]_<<vars, countVars>> => Inv'
  <2> SUFFICES ASSUME IInv, WalkInv, Inv, [CountNext]_<<vars, countVars>> PROVE Inv'
    OBVIOUS
  <2>1. ASSUME Uses, Owned PROVE ~RemovedAgain
    <3>1. CASE \A t \in Thread : ~list_remove(t)
      BY <2>1, <3>1, OtherCount DEF Uses
    <3>2. ASSUME NEW t \in Thread, list_remove(t) PROVE ~RemovedAgain
      <4>1. removed[cur[t]] = 0
        BY <2>1, <3>2 DEF list_remove, WalkInv, MarkedOnce
      <4>2. removed' = [removed EXCEPT ![cur[t]] = @ + 1]
        BY <3>2, RemoveEffect
      <4>3. \A n \in heap : removed[n] # 0 => removed'[n] = removed[n] /\ removed[n] \in Nat
        BY <4>1, <4>2 DEF IInv, TypeOK
      <4> QED BY <4>3 DEF RemovedAgain
    <3> QED BY <3>1, <3>2
  <2> QED BY <2>1 DEF CountNext, Uses, ReadFirst, ReadSecond, countVars, RemovedOnce
<1> QED BY <1>1, <1>2, CountSpecImpliesSpec, Invariance, WalkInvariance, PTL DEF CountSpec

-----------------------------------------------------------------------------
(* The list as a sequence *)

\* s lists the nodes of V in the order of the pointers f.
Ordered(H, f, V, s) ==
  /\ s \in [1..Cardinality(V) -> V]
  /\ \A i, j \in 1..Cardinality(V) : i < j => Reaches(H, f, f[s[i]], {s[j]})

\* The pointers f lead through the nodes of H and out of every set of them.
Leads(H, f) ==
  /\ NULL \notin H
  /\ \A n \in H : f[n] # NULL => f[n] \in H
  /\ \A S \in SUBSET H : S # {} => \E n \in S : f[n] \notin S

\* s without its i-th element, as a function on 1..k.
Without(k, s, i) == [j \in 1..(k - 1) |-> IF j < i THEN s[j] ELSE s[j + 1]]

\* s with n after, or before, its k elements.
After(k, s, n)  == [j \in 1..(k + 1) |-> IF j <= k THEN s[j] ELSE n]
Before(k, s, n) == [j \in 1..(k + 1) |-> IF j = 1 THEN n ELSE s[j - 1]]

\* No node lies behind itself.
LEMMA NotBehindItself ==
  ASSUME NEW H, NEW f, Leads(H, f), NEW n \in H
  PROVE  ~ Reaches(H, f, f[n], {n})
<1> SUFFICES ASSUME Reaches(H, f, f[n], {n}) PROVE FALSE
  OBVIOUS
<1> DEFINE S == {m \in H : Reaches(H, f, f[m], {n})}
<1>1. S \in SUBSET H /\ n \in S
  OBVIOUS
<1>2. PICK m \in S : f[m] \notin S
  BY <1>1 DEF Leads
<1>3. m \in H /\ Reaches(H, f, f[m], {n}) /\ (f[m] # NULL => f[m] \in H)
  BY <1>2 DEF Leads
<1>4. /\ f[m] = NULL => {n} = {}
      /\ f[m] # NULL => Reaches(H, f, f[f[m]], {n} \ {f[m]})
  BY <1>3, HopReaches
<1>5. f[m] # n
  BY <1>1, <1>2
<1>6. f[m] \in S
  <2>1. f[m] # NULL /\ {n} \ {f[m]} = {n}
    BY <1>4, <1>5
  <2> QED BY <1>3, <1>4, <2>1
<1> QED BY <1>2, <1>6

\* What lies behind a node that lies ahead lies ahead.
LEMMA ReachesOn ==
  ASSUME NEW H, NEW f, NEW h, NEW b \in H, NEW c,
         Reaches(H, f, h, {b}), Reaches(H, f, f[b], {c})
  PROVE  Reaches(H, f, h, {c})
BY DEF Reaches

\* An ordered listing has every node once.
LEMMA OrderedListsAll ==
  ASSUME NEW H, NEW f, Leads(H, f), NEW V \in SUBSET H, IsFiniteSet(V), NEW s,
         Ordered(H, f, V, s)
  PROVE  /\ \A i, j \in 1..Cardinality(V) : s[i] = s[j] => i = j
         /\ \A v \in V : \E i \in 1..Cardinality(V) : s[i] = v
<1> DEFINE k == Cardinality(V)
<1>1. k \in Nat /\ s \in [1..k -> V]
  BY FS_CardinalityType DEF Ordered
<1>2. ASSUME NEW i \in 1..k, NEW j \in 1..k, i < j PROVE s[i] # s[j]
  <2>1. s[i] \in H /\ Reaches(H, f, f[s[i]], {s[j]})
    BY <1>1, <1>2 DEF Ordered
  <2> QED BY <2>1, NotBehindItself
<1>3. \A i, j \in 1..k : s[i] = s[j] => i = j
  BY <1>1, <1>2
<1>4. s \in Injection(1..k, V)
  BY <1>1, <1>3 DEF Injection, IsInjective
<1>5. Cardinality(1..k) = k
  BY <1>1, FS_Interval
<1>6. s \in Surjection(1..k, V)
  BY <1>4, <1>5, FS_Injection
<1> QED BY <1>3, <1>6 DEF Surjection

\* There is one ordered listing.
LEMMA OrderedUnique ==
  ASSUME NEW H, NEW f, Leads(H, f), NEW V \in SUBSET H, IsFiniteSet(V),
         NEW s, NEW t, Ordered(H, f, V, s), Ordered(H, f, V, t)
  PROVE  s = t
<1> DEFINE k == Cardinality(V)
           D == {i \in 1..k : s[i] # t[i]}
<1>1. k \in Nat /\ s \in [1..k -> V] /\ t \in [1..k -> V]
  BY FS_CardinalityType DEF Ordered
<1>2. /\ \A i, j \in 1..k : s[i] = s[j] => i = j
      /\ \A v \in V : \E i \in 1..k : s[i] = v
  BY OrderedListsAll
<1>3. /\ \A i, j \in 1..k : t[i] = t[j] => i = j
      /\ \A v \in V : \E i \in 1..k : t[i] = v
  BY OrderedListsAll
<1>4. /\ \A i, j \in 1..k : i < j => Reaches(H, f, f[s[i]], {s[j]})
      /\ \A i, j \in 1..k : i < j => Reaches(H, f, f[t[i]], {t[j]})
  BY DEF Ordered
<1> HIDE DEF k
<1>5. ASSUME D # {} PROVE FALSE
  <2>1. PICK i \in D : \A j \in D : i <= j
    <3>1. D \in SUBSET Nat
      BY <1>1
    <3> QED BY <1>5, <3>1, LeastNatural
  <2>2. i \in 1..k /\ s[i] # t[i] /\ s[i] \in V /\ t[i] \in V
    BY <1>1, <2>1
  <2>3. \A j \in 1..k : j < i => s[j] = t[j]
    BY <1>1, <2>1
  <2>4. PICK a \in 1..k : t[a] = s[i]
    BY <1>3, <2>2
  <2>5. PICK b \in 1..k : s[b] = t[i]
    BY <1>2, <2>2
  <2>6. i < a
    BY <1>1, <1>2, <2>2, <2>3, <2>4
  <2>7. i < b
    BY <1>1, <1>3, <2>2, <2>3, <2>5
  <2>8. Reaches(H, f, f[s[i]], {t[i]}) /\ Reaches(H, f, f[t[i]], {s[i]})
    <3>1. Reaches(H, f, f[s[i]], {s[b]})
      BY <1>4, <2>2, <2>7
    <3>2. Reaches(H, f, f[t[i]], {t[a]})
      BY <1>4, <2>2, <2>6
    <3> QED BY <2>4, <2>5, <3>1, <3>2
  <2>9. s[i] \in H /\ t[i] \in H
    BY <2>2
  <2>10. Reaches(H, f, f[s[i]], {s[i]})
    BY <2>8, <2>9, ReachesOn
  <2> QED BY <2>9, <2>10, NotBehindItself
<1>6. \A i \in 1..k : s[i] = t[i]
  BY <1>5
<1> QED BY <1>1, <1>6

\* A listing loses the node that leaves V.
LEMMA OrderedDelete ==
  ASSUME NEW H, NEW f, Leads(H, f), NEW V \in SUBSET H, IsFiniteSet(V), NEW s,
         Ordered(H, f, V, s), NEW i \in 1..Cardinality(V)
  PROVE  Ordered(H, f, V \ {s[i]}, Without(Cardinality(V), s, i))
<1> DEFINE k == Cardinality(V)
           t == Without(k, s, i)
<1>1. k \in Nat /\ s \in [1..k -> V] /\ i \in 1..k /\ s[i] \in V
  BY FS_CardinalityType DEF Ordered
<1>2. \A a, b \in 1..k : s[a] = s[b] => a = b
  BY OrderedListsAll
<1>3. \A a, b \in 1..k : a < b => Reaches(H, f, f[s[a]], {s[b]})
  BY DEF Ordered
<1>4. Cardinality(V \ {s[i]}) = k - 1
  BY <1>1, FS_RemoveElement
<1> HIDE DEF k
<1> DEFINE At(j) == IF j < i THEN j ELSE j + 1
<1>5. \A j \in 1..(k - 1) : At(j) \in 1..k /\ At(j) # i /\ t[j] = s[At(j)]
  BY <1>1 DEF Without
<1>6. \A a, b \in 1..(k - 1) : a < b => At(a) < At(b)
  BY <1>1
<1>7. t \in [1..(k - 1) -> V \ {s[i]}]
  <2>1. \A j \in 1..(k - 1) : s[At(j)] \in V \ {s[i]}
    BY <1>1, <1>2, <1>5
  <2>2. t = [j \in 1..(k - 1) |-> s[At(j)]]
    <3>1. \A j \in 1..(k - 1) : (IF j < i THEN s[j] ELSE s[j + 1]) = s[At(j)]
      OBVIOUS
    <3> HIDE DEF At
    <3> QED BY <3>1 DEF Without
  <2> HIDE DEF At
  <2> QED BY <2>1, <2>2
<1>8. \A a, b \in 1..(k - 1) : a < b => Reaches(H, f, f[t[a]], {t[b]})
  <2> HIDE DEF At, t
  <2> QED BY <1>3, <1>5, <1>6
<1> HIDE DEF t
<1>9. Ordered(H, f, V \ {s[i]}, t)
  BY <1>4, <1>7, <1>8 DEF Ordered
<1> QED BY <1>9 DEF t, k

\* A listing stays when a node outside it is spliced out of the chain.
LEMMA OrderedSplice ==
  ASSUME NEW H, NEW f, NEW g, NEW V \in SUBSET H, NEW s, NEW n \in H, n # NULL, n \notin V,
         \A m \in H \ {n} : g[m] = IF f[m] = n THEN f[n] ELSE f[m],
         Ordered(H, f, V, s)
  PROVE  Ordered(H \ {n}, g, V, s)
<1> SUFFICES ASSUME NEW i \in 1..Cardinality(V), NEW j \in 1..Cardinality(V), i < j
             PROVE  Reaches(H \ {n}, g, g[s[i]], {s[j]})
  BY DEF Ordered
<1>1. s[i] \in H \ {n} /\ s[j] # n /\ Reaches(H, f, f[s[i]], {s[j]})
  BY DEF Ordered
<1>2. g[s[i]] = IF f[s[i]] = n THEN f[n] ELSE f[s[i]]
  BY <1>1
<1>3. n \notin {s[j]}
  BY <1>1
<1> QED BY <1>1, <1>2, <1>3, SpliceReaches

\* A listing stays when a node is added at an end of the chain.
LEMMA OrderedExtend ==
  ASSUME NEW H, NEW f, NEW g, NEW V \in SUBSET H, NEW s, NEW n, n \notin H, n # NULL,
         \A m \in H : f[m] # NULL => f[m] \in H /\ g[m] = f[m],
         Ordered(H, f, V, s)
  PROVE  \A i, j \in 1..Cardinality(V) : i < j => Reaches(H \cup {n}, g, g[s[i]], {s[j]})
<1> SUFFICES ASSUME NEW i \in 1..Cardinality(V), NEW j \in 1..Cardinality(V), i < j
             PROVE  Reaches(H \cup {n}, g, g[s[i]], {s[j]})
  OBVIOUS
<1>1. s[i] \in H /\ {s[j]} \subseteq H /\ Reaches(H, f, f[s[i]], {s[j]})
  BY DEF Ordered
<1>2. f[s[i]] # NULL => f[s[i]] \in H /\ (g[s[i]] = f[s[i]] \/ (g[s[i]] = n /\ g[n] = f[s[i]]))
  BY <1>1
<1> QED BY <1>1, <1>2, ExtendReaches

\* A listing grows at its end by a node that lies behind all others.
LEMMA OrderedAppend ==
  ASSUME NEW H, NEW f, NEW V, IsFiniteSet(V), NEW n, n \notin V,
         NEW s \in [1..Cardinality(V) -> V],
         \A i, j \in 1..Cardinality(V) : i < j => Reaches(H, f, f[s[i]], {s[j]}),
         \A v \in V : Reaches(H, f, f[v], {n})
  PROVE  Ordered(H, f, V \cup {n}, After(Cardinality(V), s, n))
<1> DEFINE k == Cardinality(V)
           t == [j \in 1..(k + 1) |-> IF j <= k THEN s[j] ELSE n]
<1>1. k \in Nat /\ Cardinality(V \cup {n}) = k + 1
  BY FS_CardinalityType, FS_AddElement
<1> HIDE DEF k
<1>2. \A j \in 1..k : j \in 1..(k + 1) /\ t[j] = s[j] /\ s[j] \in V
  BY <1>1 DEF k
<1>3. t[k + 1] = n /\ \A j \in 1..(k + 1) : j \in 1..k \/ j = k + 1
  BY <1>1
<1>4. t \in [1..(k + 1) -> V \cup {n}]
  BY <1>2, <1>3
<1> HIDE DEF t
<1>5. ASSUME NEW i \in 1..(k + 1), NEW j \in 1..(k + 1), i < j
      PROVE  Reaches(H, f, f[t[i]], {t[j]})
  <2>1. i \in 1..k
    BY <1>1, <1>5
  <2>2. CASE j \in 1..k
    <3>1. Reaches(H, f, f[s[i]], {s[j]})
      BY <1>5, <2>1, <2>2 DEF k
    <3> QED BY <1>2, <2>1, <2>2, <3>1
  <2>3. CASE j = k + 1
    BY <1>2, <1>3, <2>1, <2>3
  <2> QED BY <1>3, <2>2, <2>3
<1>6. Ordered(H, f, V \cup {n}, t)
  BY <1>1, <1>4, <1>5 DEF Ordered
<1> QED BY <1>6 DEF t, k, After

\* A listing grows at its front by a node that lies before all others.
LEMMA OrderedPrepend ==
  ASSUME NEW H, NEW f, NEW V, IsFiniteSet(V), NEW n, n \notin V,
         NEW s \in [1..Cardinality(V) -> V],
         \A i, j \in 1..Cardinality(V) : i < j => Reaches(H, f, f[s[i]], {s[j]}),
         \A v \in V : Reaches(H, f, f[n], {v})
  PROVE  Ordered(H, f, V \cup {n}, Before(Cardinality(V), s, n))
<1> DEFINE k == Cardinality(V)
           t == [j \in 1..(k + 1) |-> IF j = 1 THEN n ELSE s[j - 1]]
<1>1. k \in Nat /\ Cardinality(V \cup {n}) = k + 1
  BY FS_CardinalityType, FS_AddElement
<1> HIDE DEF k
<1>2. \A j \in 1..(k + 1) : j = 1 \/ (j - 1 \in 1..k /\ t[j] = s[j - 1] /\ s[j - 1] \in V)
  BY <1>1 DEF k
<1>3. t[1] = n
  BY <1>1
<1>4. t \in [1..(k + 1) -> V \cup {n}]
  BY <1>2, <1>3
<1> HIDE DEF t
<1>5. ASSUME NEW i \in 1..(k + 1), NEW j \in 1..(k + 1), i < j
      PROVE  Reaches(H, f, f[t[i]], {t[j]})
  <2>1. j - 1 \in 1..k /\ t[j] = s[j - 1] /\ s[j - 1] \in V
    BY <1>1, <1>2, <1>5
  <2>2. CASE i = 1
    BY <1>3, <2>1, <2>2
  <2>3. CASE i # 1
    <3>1. i - 1 \in 1..k /\ t[i] = s[i - 1] /\ i - 1 < j - 1
      BY <1>1, <1>2, <1>5, <2>3
    <3>2. Reaches(H, f, f[s[i - 1]], {s[j - 1]})
      BY <2>1, <3>1 DEF k
    <3> QED BY <2>1, <3>1, <3>2
  <2> QED BY <2>2, <2>3
<1>6. Ordered(H, f, V \cup {n}, t)
  BY <1>1, <1>4, <1>5 DEF Ordered
<1> QED BY <1>6 DEF t, k, Before

\* LiveNodes is the ordered listing of the live nodes.
Listing == Ordered(heap, next, Live, LiveNodes)

\* Whatever lists the live nodes in order is LiveNodes.
Unambiguous == \A s : Ordered(heap, next, Live, s) => LiveNodes = s

\* The pointers next lead through the chain.
LEMMA NextLeads ==
  ASSUME IInv
  PROVE  Leads(heap, next) /\ IsFiniteSet(Live) /\ Live \in SUBSET heap
<1>1. NULL \notin heap /\ Live \subseteq heap /\ heap \subseteq Node
  BY NullNotObject DEF IInv, TypeOK, Live
<1>2. IsFiniteSet(Live)
  BY <1>1, NodeFinite, FS_Subset
<1> QED BY <1>1, <1>2 DEF IInv, Links, NoCycle, Leads

\* The definition of LiveNodes picks the ordered listing, if there is one.
LEMMA ListingUnique == IInv => Unambiguous
<1> SUFFICES ASSUME IInv, NEW s, Ordered(heap, next, Live, s) PROVE LiveNodes = s
  BY DEF Unambiguous
<1> DEFINE k == Cardinality(Live)
           V == {n \in Live : \A S \in Tails : (start # NULL => start \in S) => n \in S}
           P(x) == \A i, j \in DOMAIN x : i < j =>
                     \A S \in Tails : (next[x[i]] # NULL => next[x[i]] \in S) => x[j] \in S
<1>1. V = Live
  <2>1. Live \subseteq heap
    BY NextLeads
  <2>2. \A S \in Tails : (start # NULL => start \in S) => heap \subseteq S
    BY WholeAhead DEF Reaches, Tails
  <2> QED BY <2>1, <2>2
<1>2. \A x \in [1..k -> Live] : P(x) <=> Ordered(heap, next, Live, x)
  <2> SUFFICES ASSUME NEW x \in [1..k -> Live]
               PROVE  P(x) <=> Ordered(heap, next, Live, x)
    OBVIOUS
  <2>1. DOMAIN x = 1..k
    OBVIOUS
  <2>2. ASSUME NEW i, NEW j
        PROVE  (\A S \in Tails : (next[x[i]] # NULL => next[x[i]] \in S) => x[j] \in S)
                 <=> Reaches(heap, next, next[x[i]], {x[j]})
    BY DEF Reaches, Tails
  <2> HIDE DEF k
  <2>3. P(x) <=> \A i, j \in 1..k : i < j => Reaches(heap, next, next[x[i]], {x[j]})
    BY <2>1, <2>2
  <2> QED BY <2>3 DEF Ordered, k
<1>3. s \in [1..k -> Live] /\ P(s)
  <2>1. s \in [1..k -> Live]
    BY DEF Ordered
  <2> QED BY <1>2, <2>1
<1>4. LiveNodes = CHOOSE x \in [1..Cardinality(V) -> V] : P(x)
  BY DEF LiveNodes
<1> HIDE DEF P, k, V
<1>5. LiveNodes = CHOOSE x \in [1..k -> Live] : P(x)
  BY <1>1, <1>4 DEF k
<1>6. LiveNodes \in [1..k -> Live] /\ P(LiveNodes)
  BY <1>3, <1>5
<1>7. Ordered(heap, next, Live, LiveNodes)
  BY <1>2, <1>6
<1> QED BY <1>7, NextLeads, OrderedUnique

\* The same after a step.
LEMMA ListingUniqueNext == IInv' => Unambiguous'
BY ListingUnique, PTL

\* The abstract sequence, read from the listing.
LEMMA LiveDataIs ==
  ASSUME IInv, Listing
  PROVE  /\ LiveData = [i \in 1..Cardinality(Live) |-> data[LiveNodes[i]]]
         /\ LiveData \in Seq(Data) /\ Len(LiveData) = Cardinality(Live)
<1>1. LiveNodes \in [1..Cardinality(Live) -> Live] /\ Cardinality(Live) \in Nat
  BY NextLeads, FS_CardinalityType DEF Listing, Ordered
<1>2. LiveData = [i \in 1..Cardinality(Live) |-> data[LiveNodes[i]]]
  BY <1>1 DEF LiveData
<1>3. \A i \in 1..Cardinality(Live) : data[LiveNodes[i]] \in Data
  BY <1>1 DEF Live, IInv, HasData
<1> QED BY <1>1, <1>2, <1>3, IsASeq

\* Where a step leaves the abstract sequence.
LEMMA ListingNext ==
  ASSUME IInv', NEW s, Ordered(heap', next', Live', s)
  PROVE  Listing' /\ LiveData' = [i \in 1..Cardinality(Live') |-> data'[s[i]]]
<1>1. LiveNodes' = s
  BY ListingUniqueNext DEF Unambiguous
<1>2. Listing'
  BY <1>1 DEF Listing
<1>3. DOMAIN s = 1..Cardinality(Live')
  BY DEF Ordered
<1> QED BY <1>1, <1>2, <1>3 DEF LiveData

\* A step of the abstract list, or none.
Mapped == Listing' /\ [Abstract!Next]_LiveData

\* A datum is added at the end.
LEMMA MappedAppend ==
  ASSUME NEW d \in Data, LiveData' = Append(LiveData, d) PROVE Abstract!Next
BY DEF Abstract!Next, Abstract!Grown

\* A datum is added at the front.
LEMMA MappedPrepend ==
  ASSUME NEW d \in Data, LiveData' = <<d>> \o LiveData PROVE Abstract!Next
BY DEF Abstract!Next, Abstract!Grown

\* A datum is taken out.
LEMMA MappedRemoveAt ==
  ASSUME NEW i \in DOMAIN LiveData, LiveData' = RemoveAt(LiveData, i) PROVE Abstract!Next
BY DEF Abstract!Next, Abstract!Shrunk, Abstract!RemoveAt, RemoveAt

\* The chain shrinks by a node that is not live, or not at all: the abstract list does not
\* change.
LEMMA MappedDrop ==
  ASSUME IInv, IInv', Listing, NEW c, Dropped(c)
  PROVE  Mapped
<1> DEFINE s == LiveNodes
<1>0. TypeOK /\ Links /\ NULL \notin heap /\ heap \subseteq Node
  BY NullNotObject DEF IInv, TypeOK
<1>1. /\ \A m \in heap' : m \in heap /\ data'[m] = data[m]
      /\ Live' = Live
  BY <1>0, DroppedKeeps
<1>2. Ordered(heap', next', Live, s)
  <2>1. CASE UNCHANGED <<heap, next>>
    BY <2>1 DEF Listing
  <2>2. CASE c \in heap /\ removed[c] # 0 /\ Spliced(c)
    <3>1. /\ c # NULL /\ c \notin Live /\ heap' = heap \ {c}
          /\ \A m \in heap \ {c} : next'[m] = IF next[m] = c THEN next[c] ELSE next[m]
      BY <1>0, <2>2 DEF Live, Spliced, Splice, Links
    <3>2. Ordered(heap \ {c}, next', Live, s)
      BY <2>2, <3>1, NextLeads, OrderedSplice DEF Listing
    <3> QED BY <3>1, <3>2
  <2> QED BY <2>1, <2>2 DEF Dropped
<1>3. Listing' /\ LiveData' = [i \in 1..Cardinality(Live') |-> data'[s[i]]]
  BY <1>1, <1>2, ListingNext
<1>4. \A i \in 1..Cardinality(Live) : data'[s[i]] = data[s[i]]
  <2>1. Live' \subseteq heap'
    BY DEF Live
  <2>2. s \in [1..Cardinality(Live) -> Live]
    BY DEF Listing, Ordered
  <2> QED BY <1>1, <2>1, <2>2
<1>5. LiveData' = LiveData
  BY <1>1, <1>3, <1>4, LiveDataIs
<1> QED BY <1>3, <1>5 DEF Mapped

\* The chain keeps its order and loses a live node: the abstract list loses its datum.
LEMMA MappedDelete ==
  ASSUME IInv, IInv', Listing, NEW n \in Live,
         \A m \in heap' : m \in heap /\ data'[m] = data[m],
         Live' = Live \ {n},
         \A s : Ordered(heap, next, Live', s) => Ordered(heap', next', Live', s)
  PROVE  Mapped
<1> DEFINE k == Cardinality(Live)
           s == LiveNodes
<1>1. /\ Leads(heap, next) /\ IsFiniteSet(Live) /\ Live \in SUBSET heap
      /\ k \in Nat /\ s \in [1..k -> Live]
  BY NextLeads, FS_CardinalityType DEF Listing, Ordered
<1>2. PICK i \in 1..k : s[i] = n
  <2>1. \E i \in 1..k : s[i] = n
    BY <1>1, OrderedListsAll DEF Listing
  <2> QED BY <2>1
<1> DEFINE t == Without(k, s, i)
<1>3. Ordered(heap, next, Live', t)
  BY <1>1, <1>2, OrderedDelete DEF Listing
<1>4. Ordered(heap', next', Live', t)
  BY <1>3
<1>5. Listing' /\ LiveData' = [j \in 1..Cardinality(Live') |-> data'[t[j]]]
  BY <1>4, ListingNext
<1>6. Cardinality(Live') = k - 1 /\ t \in [1..(k - 1) -> Live']
  <2>1. Cardinality(Live \ {n}) = k - 1
    BY <1>1, FS_RemoveElement
  <2> QED BY <1>4, <2>1 DEF Ordered
<1> DEFINE a == LiveData
<1>7. /\ a \in Seq(Data) /\ Len(a) = k
      /\ \A j \in 1..k : a[j] = data[s[j]]
  BY LiveDataIs
<1>8. /\ RemoveAt(a, i) \in Seq(Data) /\ Len(RemoveAt(a, i)) = k - 1
      /\ \A j \in 1..(k - 1) : RemoveAt(a, i)[j] = IF j < i THEN a[j] ELSE a[j + 1]
  <2> HIDE DEF a
  <2> QED BY <1>2, <1>7, RemoveAtProperties
<1>9. ASSUME NEW j \in 1..(k - 1) PROVE data'[t[j]] = RemoveAt(a, i)[j]
  <2>1. data'[t[j]] = data[t[j]]
    <3>1. Live' \subseteq heap'
      BY DEF Live
    <3> HIDE DEF t
    <3> QED BY <1>6, <3>1
  <2>2. t[j] = IF j < i THEN s[j] ELSE s[j + 1]
    BY DEF Without
  <2>3. j \in 1..k /\ j + 1 \in 1..k
    BY <1>1
  <2> HIDE DEF t, a, s, k
  <2> QED BY <1>7, <1>8, <2>1, <2>2, <2>3
<1>10. LiveData' = [j \in 1..(k - 1) |-> RemoveAt(a, i)[j]]
  <2> HIDE DEF a, t, k
  <2> QED BY <1>5, <1>6, <1>9
<1>11. LiveData' = RemoveAt(LiveData, i)
  <2>1. RemoveAt(a, i) = [j \in 1..(k - 1) |-> RemoveAt(a, i)[j]]
    <3> HIDE DEF a, k
    <3> QED BY <1>1, <1>8, SeqEqual, LenProperties
  <2> QED BY <1>10, <2>1
<1>12. i \in DOMAIN LiveData
  <2> HIDE DEF k
  <2> QED BY <1>2, <1>7, LenProperties
<1>13. Abstract!Next
  BY <1>11, <1>12, MappedRemoveAt
<1> QED BY <1>5, <1>13 DEF Mapped

\* list_remove takes the datum of its node out, unless the node was already marked.
LEMMA RemoveMapped ==
  ASSUME IInv, IInv', Listing, NEW t \in Thread, list_remove(t)
  PROVE  Mapped
<1> DEFINE n == cur[t]
<1>0. TypeOK /\ n \in heap /\ n \in Node /\ removed[n] \in Nat
  BY RemoveEffect DEF IInv, TypeOK
<1>1. /\ removed' = [removed EXCEPT ![n] = @ + 1]
      /\ UNCHANGED <<heap, data, next>>
  BY RemoveEffect
<1>2. /\ removed'[n] # 0
      /\ \A m \in heap : m # n => removed'[m] = removed[m]
  BY <1>0, <1>1 DEF TypeOK
<1>3. Live' = Live \ {n}
  BY <1>1, <1>2 DEF Live
<1>4. CASE n \in Live
  <2> HIDE DEF n
  <2>1. \A m \in heap' : m \in heap /\ data'[m] = data[m]
    BY <1>1
  <2>2. \A s : Ordered(heap, next, Live', s) => Ordered(heap', next', Live', s)
    BY <1>1
  <2> QED BY <1>3, <1>4, <2>1, <2>2, MappedDelete
<1>5. CASE n \notin Live
  <2>1. Live' = Live
    BY <1>3, <1>5
  <2>2. Listing' /\ LiveData' = [i \in 1..Cardinality(Live') |-> data'[LiveNodes[i]]]
    BY <1>1, <2>1, ListingNext DEF Listing
  <2>3. LiveData' = LiveData
    BY <1>1, <2>1, <2>2, LiveDataIs
  <2> QED BY <2>2, <2>3 DEF Mapped
<1> QED BY <1>4, <1>5

\* list_destroy takes the datum of the first node out, unless the node was marked.
LEMMA DestroyMapped ==
  ASSUME IInv, IInv', Listing, NEW t \in Thread, list_destroy(t)
  PROVE  Mapped
<1>0. TypeOK /\ Links /\ NULL \notin heap /\ heap \subseteq Node
  BY NullNotObject DEF IInv, TypeOK
<1>1. CASE start # NULL
  <2>1. list_unlink(start, rc, ic, removed, deleted) /\ start \in heap
    BY <1>0, <1>1 DEF list_destroy, Links
  <2>2. /\ heap' = heap \ {start} /\ Spliced(start)
        /\ data' = [data EXCEPT ![start] = NULL]
        /\ removed' = [removed EXCEPT ![start] = 0]
    BY <2>1 DEF list_unlink, Spliced
  <2>3. \A m \in heap' : m \in heap /\ data'[m] = data[m] /\ removed'[m] = removed[m]
    BY <1>0, <2>2 DEF TypeOK
  <2>4. Live' = Live \ {start}
    BY <2>2, <2>3 DEF Live
  <2>5. \A m \in heap \ {start} :
          next'[m] = IF next[m] = start THEN next[start] ELSE next[m]
    BY <1>0, <2>1, <2>2 DEF Spliced, Splice, Links
  <2>6. \A s : Ordered(heap, next, Live', s) => Ordered(heap', next', Live', s)
    <3> SUFFICES ASSUME NEW s, Ordered(heap, next, Live', s)
                 PROVE  Ordered(heap', next', Live', s)
      OBVIOUS
    <3>1. Live' \in SUBSET heap /\ start \notin Live'
      BY <2>4 DEF Live
    <3>2. PICK V : V = Live'
      OBVIOUS
    <3>3. V \in SUBSET heap /\ start \notin V /\ Ordered(heap, next, V, s)
      BY <3>1, <3>2
    <3>4. Ordered(heap \ {start}, next', V, s)
      BY <1>1, <2>1, <2>5, <3>3, OrderedSplice
    <3> QED BY <2>2, <3>2, <3>4
  <2>7. CASE start \in Live
    BY <2>3, <2>4, <2>6, <2>7, MappedDelete
  <2>8. CASE start \notin Live
    <3>1. Live' = Live
      BY <2>4, <2>8
    <3>2. Ordered(heap', next', Live', LiveNodes)
      BY <2>6, <3>1 DEF Listing
    <3>3. Listing' /\ LiveData' = [i \in 1..Cardinality(Live') |-> data'[LiveNodes[i]]]
      BY <3>2, ListingNext
    <3>4. \A i \in 1..Cardinality(Live) : data'[LiveNodes[i]] = data[LiveNodes[i]]
      <4>1. Live' \subseteq heap'
        BY DEF Live
      <4>2. LiveNodes \in [1..Cardinality(Live) -> Live]
        BY DEF Listing, Ordered
      <4> QED BY <2>3, <3>1, <4>1, <4>2
    <3>5. LiveData' = LiveData
      BY <3>1, <3>3, <3>4, LiveDataIs
    <3> QED BY <3>3, <3>5 DEF Mapped
  <2> QED BY <2>7, <2>8
<1>2. CASE start = NULL
  <2>1. UNCHANGED <<heap, data, next, removed, start>>
    BY <1>2 DEF list_destroy, nodeVars
  <2>2. Listing' /\ LiveData' = LiveData
    BY <2>1 DEF Listing, LiveData, LiveNodes, Tails, Live
  <2> QED BY <2>2 DEF Mapped
<1> QED BY <1>1, <1>2

\* list_push adds its datum at the end.
LEMMA PushMapped ==
  ASSUME IInv, IInv', Listing, NEW t \in Thread, NEW d \in Data, list_push(t, d)
  PROVE  Mapped
<1> DEFINE k == Cardinality(Live)
           s == LiveNodes
<1>0. /\ TypeOK /\ Links /\ Links' /\ NoCycle' /\ NULL \notin Node /\ heap \subseteq Node
      /\ Leads(heap, next) /\ IsFiniteSet(Live) /\ Live \in SUBSET heap
      /\ k \in Nat /\ s \in [1..k -> Live] /\ Ordered(heap, next, Live, s)
  BY NullNotObject, NextLeads, FS_CardinalityType DEF IInv, TypeOK, Listing, Ordered
<1>1. PICK n \in Node : /\ n \notin heap
                        /\ heap' = heap \cup {n}
                        /\ end' = n
                        /\ data' = [data EXCEPT ![n] = d]
                        /\ removed' = [removed EXCEPT ![n] = 0]
                        /\ next' = IF start = NULL THEN [next EXCEPT ![n] = NULL]
                                   ELSE [next EXCEPT ![end] = n, ![n] = NULL]
  BY DEF list_push, node_new
<1>2. /\ data'[n] = d /\ removed'[n] = 0
      /\ \A m \in heap : m # n /\ data'[m] = data[m] /\ removed'[m] = removed[m]
  BY <1>0, <1>1 DEF TypeOK
<1>3. Live' = Live \cup {n} /\ n \notin Live
  BY <1>1, <1>2 DEF Live
<1>4. \A m \in heap : next[m] # NULL => next[m] \in heap /\ next'[m] = next[m]
  BY <1>0, <1>1 DEF Links, TypeOK
<1>5. \A i, j \in 1..k : i < j => Reaches(heap', next', next'[s[i]], {s[j]})
  <2>1. n # NULL
    BY <1>0
  <2>2. \A i, j \in 1..Cardinality(Live) : i < j =>
          Reaches(heap \cup {n}, next', next'[LiveNodes[i]], {LiveNodes[j]})
    <3>1. Ordered(heap, next, Live, LiveNodes) /\ Live \in SUBSET heap /\ n \notin heap
      BY <1>0, <1>1
    <3> QED BY ONLY <1>4, <2>1, <3>1, OrderedExtend
  <2> HIDE DEF s
  <2> QED BY <1>1, <2>2 DEF s
<1>6. \A v \in Live : Reaches(heap', next', next'[v], {n})
  <2> SUFFICES ASSUME NEW v \in Live, NEW S \in SUBSET heap',
                      next'[v] # NULL => next'[v] \in S,
                      \A m \in S : next'[m] # NULL => next'[m] \in S
               PROVE  n \in S
    BY DEF Reaches
  <2>1. v \in heap' /\ v # n
    BY <1>0, <1>1
  <2>2. next'[v] # NULL
    BY <1>0, <1>1, <2>1 DEF Links
  <2>3. PICK m \in S : next'[m] \notin S
    BY <1>0, <2>2 DEF NoCycle
  <2> QED BY <1>0, <1>1, <2>3 DEF Links
<1> DEFINE r == After(k, s, n)
<1>7. Ordered(heap', next', Live', r)
  <2>1. Ordered(heap', next', Live \cup {n}, r)
    <3>1. /\ IsFiniteSet(Live) /\ n \notin Live /\ LiveNodes \in [1..Cardinality(Live) -> Live]
          /\ \A i, j \in 1..Cardinality(Live) :
               i < j => Reaches(heap', next', next'[LiveNodes[i]], {LiveNodes[j]})
          /\ \A v \in Live : Reaches(heap', next', next'[v], {n})
      BY <1>0, <1>3, <1>5, <1>6
    <3> QED BY ONLY <3>1, OrderedAppend
  <2> QED BY <1>3, <2>1
<1>8. Listing' /\ LiveData' = [j \in 1..Cardinality(Live') |-> data'[r[j]]]
  <2> HIDE DEF r
  <2> QED BY <1>7, ListingNext
<1>9. Cardinality(Live') = k + 1
  BY <1>0, <1>3, FS_AddElement
<1> DEFINE a == LiveData
<1>10. a \in Seq(Data) /\ Len(a) = k /\ \A j \in 1..k : a[j] = data[s[j]]
  BY LiveDataIs
<1>11. /\ Append(a, d) \in Seq(Data) /\ Len(Append(a, d)) = k + 1
       /\ \A j \in 1..k : Append(a, d)[j] = a[j]
       /\ Append(a, d)[k + 1] = d
  <2> HIDE DEF a, k
  <2> QED BY <1>10, AppendProperties
<1>12. ASSUME NEW j \in 1..(k + 1) PROVE data'[r[j]] = Append(a, d)[j]
  <2> HIDE DEF a
  <2>1. CASE j \in 1..k
    <3>1. r[j] = s[j] /\ s[j] \in Live
      BY <1>0, <2>1 DEF After
    <3> HIDE DEF r, k
    <3> QED BY <1>0, <1>2, <1>10, <1>11, <2>1, <3>1
  <2>2. CASE j = k + 1
    <3>1. r[j] = n
      BY <1>0, <2>2 DEF After
    <3>2. data'[r[j]] = d
      BY <1>2, <3>1
    <3>3. Append(a, d)[j] = d
      BY <1>11, <2>2
    <3> QED BY <3>2, <3>3
  <2>3. j \in 1..k \/ j = k + 1
    BY <1>0
  <2> HIDE DEF r, k
  <2> QED BY <2>1, <2>2, <2>3
<1>13. LiveData' = Append(LiveData, d)
  <2> HIDE DEF a, r, k
  <2>1. Append(a, d) = [j \in 1..(k + 1) |-> Append(a, d)[j]]
    BY <1>0, <1>11, LenProperties
  <2>2. LiveData' = [j \in 1..(k + 1) |-> Append(a, d)[j]]
    BY <1>8, <1>9, <1>12
  <2> QED BY <2>1, <2>2 DEF a
<1> QED BY <1>8, <1>13, MappedAppend DEF Mapped

\* list_unshift adds its datum at the front.
LEMMA UnshiftMapped ==
  ASSUME IInv, IInv', Listing, NEW t \in Thread, NEW d \in Data, list_unshift(t, d)
  PROVE  Mapped
<1> DEFINE k == Cardinality(Live)
           s == LiveNodes
<1>0. /\ TypeOK /\ Links /\ NULL \notin Node /\ heap \subseteq Node
      /\ Leads(heap, next) /\ IsFiniteSet(Live) /\ Live \in SUBSET heap
      /\ k \in Nat /\ s \in [1..k -> Live] /\ Ordered(heap, next, Live, s)
  BY NullNotObject, NextLeads, FS_CardinalityType DEF IInv, TypeOK, Listing, Ordered
<1>1. PICK n \in Node : /\ n \notin heap
                        /\ heap' = heap \cup {n}
                        /\ data' = [data EXCEPT ![n] = d]
                        /\ removed' = [removed EXCEPT ![n] = 0]
                        /\ next' = IF start = NULL THEN [next EXCEPT ![n] = NULL]
                                   ELSE [next EXCEPT ![n] = start]
  BY DEF list_unshift, node_new
<1>2. /\ data'[n] = d /\ removed'[n] = 0
      /\ \A m \in heap : m # n /\ data'[m] = data[m] /\ removed'[m] = removed[m]
  BY <1>0, <1>1 DEF TypeOK
<1>3. Live' = Live \cup {n} /\ n \notin Live
  BY <1>1, <1>2 DEF Live
<1>4. /\ \A m \in heap : next[m] # NULL => next[m] \in heap /\ next'[m] = next[m]
      /\ next'[n] = start /\ (start # NULL => start \in heap)
  BY <1>0, <1>1 DEF Links, TypeOK
<1>5. /\ IsFiniteSet(Live) /\ n \notin Live /\ LiveNodes \in [1..Cardinality(Live) -> Live]
      /\ \A i, j \in 1..Cardinality(Live) :
           i < j => Reaches(heap', next', next'[LiveNodes[i]], {LiveNodes[j]})
      /\ \A v \in Live : Reaches(heap', next', next'[n], {v})
  <2>1. n # NULL /\ n \notin heap /\ Live \in SUBSET heap
        /\ Ordered(heap, next, Live, LiveNodes)
    BY <1>0, <1>1
  <2>2. \A i, j \in 1..Cardinality(Live) : i < j =>
          Reaches(heap \cup {n}, next', next'[LiveNodes[i]], {LiveNodes[j]})
    BY ONLY <1>4, <2>1, OrderedExtend
  <2>3. Reaches(heap, next, start, heap)
    BY WholeAhead
  <2>4. Reaches(heap \cup {n}, next', start, heap)
    BY ONLY <1>4, <2>1, <2>3, ExtendReaches
  <2>5. \A v \in Live : Reaches(heap \cup {n}, next', next'[n], {v})
    BY ONLY <1>4, <2>1, <2>4 DEF Reaches
  <2>6. heap' = heap \cup {n}
    BY <1>1
  <2>7. IsFiniteSet(Live) /\ n \notin Live /\ LiveNodes \in [1..Cardinality(Live) -> Live]
    BY <1>0, <1>3
  <2> QED BY ONLY <2>2, <2>5, <2>6, <2>7
<1> DEFINE r == Before(k, s, n)
<1>7. Ordered(heap', next', Live', r)
  <2>1. Ordered(heap', next', Live \cup {n}, r)
    BY ONLY <1>5, OrderedPrepend
  <2> QED BY <1>3, <2>1
<1>8. Listing' /\ LiveData' = [j \in 1..Cardinality(Live') |-> data'[r[j]]]
  <2> HIDE DEF r
  <2> QED BY <1>7, ListingNext
<1>9. Cardinality(Live') = k + 1
  BY <1>0, <1>3, FS_AddElement
<1> DEFINE a == LiveData
<1>10. a \in Seq(Data) /\ Len(a) = k /\ \A j \in 1..k : a[j] = data[s[j]]
  BY LiveDataIs
<1>11. /\ <<d>> \o a \in Seq(Data) /\ Len(<<d>> \o a) = k + 1
       /\ (<<d>> \o a)[1] = d
       /\ \A j \in 1..(k + 1) : j # 1 => (<<d>> \o a)[j] = a[j - 1]
  <2>1. <<d>> \in Seq(Data) /\ Len(<<d>>) = 1 /\ <<d>>[1] = d
    OBVIOUS
  <2> DEFINE q == <<d>>
  <2> HIDE DEF a, k, q
  <2>2. q \in Seq(Data) /\ Len(q) = 1 /\ q[1] = d
    BY <2>1 DEF q
  <2>3. /\ q \o a \in Seq(Data) /\ Len(q \o a) = 1 + k
        /\ \A j \in 1..(1 + k) : (q \o a)[j] = IF j <= 1 THEN q[j] ELSE a[j - 1]
    <3>1. a \in Seq(Data) /\ Len(a) = k
      BY <1>10
    <3>2. /\ q \o a \in Seq(Data) /\ Len(q \o a) = Len(q) + Len(a)
          /\ \A j \in 1..(Len(q) + Len(a)) :
               (q \o a)[j] = IF j <= Len(q) THEN q[j] ELSE a[j - Len(q)]
      BY ONLY <2>2, <3>1, ConcatProperties
    <3> QED BY ONLY <2>2, <3>1, <3>2
  <2>4. k \in Nat
    BY <1>0
  <2>5. /\ q \o a \in Seq(Data) /\ Len(q \o a) = k + 1 /\ (q \o a)[1] = d
        /\ \A j \in 1..(k + 1) : j # 1 => (q \o a)[j] = a[j - 1]
    BY <2>2, <2>3, <2>4
  <2> QED BY <2>5 DEF q
<1>12. ASSUME NEW j \in 1..(k + 1) PROVE data'[r[j]] = (<<d>> \o a)[j]
  <2> HIDE DEF a
  <2>1. CASE j # 1
    <3>1. r[j] = s[j - 1] /\ s[j - 1] \in Live /\ j - 1 \in 1..k
      BY <1>0, <2>1 DEF Before
    <3>2. data'[r[j]] = data[s[j - 1]]
      BY <1>0, <1>2, <3>1
    <3>3. (<<d>> \o a)[j] = a[j - 1]
      BY <1>11, <2>1
    <3> QED BY <1>10, <3>1, <3>2, <3>3
  <2>2. CASE j = 1
    <3>1. r[j] = n
      BY <1>0, <2>2 DEF Before
    <3>2. data'[r[j]] = d
      BY <1>2, <3>1
    <3>3. (<<d>> \o a)[j] = d
      BY <1>11, <2>2
    <3> QED BY <3>2, <3>3
  <2> HIDE DEF r, k
  <2> QED BY <2>1, <2>2
<1>13. LiveData' = <<d>> \o LiveData
  <2> DEFINE q == <<d>> \o a
  <2>1. q \in Seq(Data) /\ Len(q) = k + 1 /\ \A j \in 1..(k + 1) : data'[r[j]] = q[j]
    BY <1>11, <1>12
  <2> HIDE DEF a, r, k, q
  <2>2. q = [j \in 1..(k + 1) |-> q[j]]
    BY <1>0, <2>1, LenProperties
  <2>3. LiveData' = [j \in 1..(k + 1) |-> q[j]]
    BY <1>8, <1>9, <2>1
  <2> QED BY <2>2, <2>3 DEF a, q
<1> QED BY <1>8, <1>13, MappedPrepend DEF Mapped

\* The list is empty to begin with, and every critical section is a step of LiveList.
LEMMA ListingInit == Init => Listing /\ LiveData = <<>>
<1> SUFFICES ASSUME Init PROVE Listing /\ LiveData = <<>>
  OBVIOUS
<1>1. Live = {} /\ Cardinality(Live) = 0
  BY FS_EmptySet DEF Init, Live
<1>2. Ordered(heap, next, Live, <<>>)
  BY <1>1 DEF Ordered
<1>3. LiveNodes = <<>>
  BY <1>2, InitInv, ListingUnique DEF Unambiguous
<1> QED BY <1>2, <1>3 DEF Listing, LiveData

\* Each step of the list is a step of LiveList, or none.
LEMMA ListingStep == IInv /\ IInv' /\ Listing /\ [Next]_vars => Mapped
<1> SUFFICES ASSUME IInv, IInv', Listing, [Next]_vars PROVE Mapped
  OBVIOUS
<1>1. ASSUME NEW t \in Thread, Iterate(t) PROVE Mapped
  BY <1>1, IterateEffect, MappedDrop
<1>2. ASSUME NEW t \in Thread, list_remove(t) PROVE Mapped
  BY <1>2, RemoveMapped
<1>3. ASSUME NEW t \in Thread, list_unlock_deref(t) PROVE Mapped
  BY <1>3, UnlockDerefEffect, MappedDrop
<1>4. ASSUME NEW t \in Thread, list_destroy(t) PROVE Mapped
  BY <1>4, DestroyMapped
<1>5. ASSUME NEW t \in Thread, NEW d \in Data, list_push(t, d) PROVE Mapped
  BY <1>5, PushMapped
<1>6. ASSUME NEW t \in Thread, NEW d \in Data, list_unshift(t, d) PROVE Mapped
  BY <1>6, UnshiftMapped
<1>7. ASSUME UNCHANGED <<heap, data, next, removed, start>> PROVE Mapped
  <2>1. Live' = Live /\ Tails' = Tails
    BY <1>7 DEF Live, Tails
  <2>2. LiveNodes' = LiveNodes
    BY <1>7, <2>1 DEF LiveNodes
  <2> QED BY <1>7, <2>1, <2>2 DEF Mapped, Listing, LiveData
<1>8. ASSUME NEW t \in Thread, NEW d \in Data,
             BeginDestroy(t, d) \/ \E o \in Walks : BeginWalk(t, o, d)
      PROVE  Mapped
  BY <1>7, <1>8 DEF BeginDestroy, BeginWalk, nodeVars, listVars
<1>9. ASSUME UNCHANGED vars PROVE Mapped
  BY <1>7, <1>9 DEF vars, nodeVars, listVars
<1> QED BY <1>1, <1>2, <1>3, <1>4, <1>5, <1>6, <1>8, <1>9 DEF Next, Step

\* Whatever the threads do, the live nodes read as a sequence that grows at its ends and
\* loses one element at a time: list_push, list_unshift and list_remove act at once, and
\* the deferred unlink and free of list_deref cannot be seen.
THEOREM ListImplementsLiveList == Spec => ImplementsLiveList
<1>1. Init => Listing /\ Abstract!Init
  BY ListingInit DEF Abstract!Init
<1>2. IInv /\ IInv' /\ Listing /\ [Next]_vars => Listing' /\ [Abstract!Next]_LiveData
  BY ListingStep DEF Mapped
<1> QED BY <1>1, <1>2, Invariance, PTL DEF Spec, ImplementsLiveList, Abstract!Spec
=============================================================================
