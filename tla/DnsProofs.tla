----------------------------- MODULE DnsProofs -----------------------------
(***************************************************************************)
(* Proofs about Dns, for any number of acceptors, addresses, entries and   *)
(* lookups and any width of an int.                                        *)
(***************************************************************************)
EXTENDS Dns, CommonLemmas, FiniteSetTheorems, TLAPS

\* No node is linked twice.
Distinct(s) == \A i, j \in 1..Len(s) : s[i] = s[j] => i = j

\* How far the threads are says which fields are filled: an entry has its address from the
\* start and its name before it is pushed, a search has its address while it runs, and only
\* a walk has a cursor.
Stages ==
  /\ Distinct(dns_list)
  /\ \A i \in 1..Len(dns_list) : rpc[dns_list[i]] = "done"
  /\ \A e \in Entry : rpc[e] = "none" <=> ip[e] = NULL
  /\ \A e \in Entry : rpc[e] = "copy" => hostent # NULL
  /\ \A e \in Entry : rpc[e] \in {"push", "done"} => dns[e] # NULL
  /\ \A t \in Thread : pc[t] = "idle" <=> want[t] = NULL
  /\ \A t \in Thread : pc[t] # "walk" => node[t] = 0

Name(e) == IF e \in failed THEN ip[e] ELSE Host[ip[e]]

\* The names of the entries whose copy nobody disturbed: the storage holds the answer until
\* it is copied, and the entry holds it from then on.
Copied ==
  \A e \in Entry \ raced :
    /\ rpc[e] \in {"none", "start", "inside", "copy"} => e \notin failed
    /\ rpc[e] = "copy" => hostent = Host[ip[e]]
    /\ rpc[e] \in {"push", "done"} => dns[e] = Name(e)

\* The searches that stand on node e.
Cursors(e) == {t \in Thread : node[t] = e}

\* The counters of a node that is linked, as long as they fit: the list, the searches that
\* found it and kept their reference, and those that stand on it.
Counters ==
  InRange =>
    /\ \A e \in Entry : rpc[e] = "done" => e \in Linked
    /\ \A t \in Thread : node[t] # 0 => node[t] \in Linked
    /\ \A e \in Linked : /\ rc[e] = 1 + hits[e] + Cardinality(Cursors(e))
                         /\ ic[e] = hits[e] + Cardinality(Cursors(e))

\* Only a node that was pushed is found.
Unhit == \A e \in Entry : rpc[e] # "done" => hits[e] = 0

\* The entries for address a, and the lookups that will not find one in what is left of
\* their walk and may still start another.
Entries(a) == {e \in Entry : ip[e] = a}
Unmatched(t) == \A j \in 1..Len(dns_list) : j > Position(node[t]) => ip[dns_list[j]] # want[t]
Missing(a) ==
  {t \in Thread : want[t] = a /\ (pc[t] = "spawn" \/ (pc[t] = "walk" /\ Unmatched(t)))}

\* Both together are no more than the lookups that began before an answer was cached.
Few ==
  InRange =>
    \A a \in Address : Cardinality(Entries(a)) + Cardinality(Missing(a)) <= early[a]

\* Behind its cursor a walk leaves nodes of other addresses, so that the node it finds is
\* the first for its address; and pushes are behind all of them.
Passed(t) == \A j \in 1..Len(dns_list) : j <= Position(node[t]) => ip[dns_list[j]] # want[t]
Foremost(e) == \A j \in 1..Len(dns_list) : ip[dns_list[j]] = ip[e] => Position(e) <= j
Firsts ==
  InRange =>
    /\ \A t \in Thread : pc[t] = "walk" => Passed(t)
    /\ \A e \in Entry : hits[e] > 0 => e \in Linked /\ Foremost(e)

\* The inductive invariant.
IInv == TypeOK /\ Stages /\ Copied /\ Unhit /\ Counters /\ Few /\ Firsts

-----------------------------------------------------------------------------
(* Sequences, positions and ints *)

\* The int values, and what adding or taking one gives.
Ints == (-IntMax - 1)..IntMax

\* Counting by one stays in the 32 bit integers, and is exact while it does.
LEMMA Int32Type ==
  ASSUME NEW x \in Ints, NEW k \in {-1, 1}
  PROVE  Int32(x + k) \in Ints /\ (x + k \in Ints => Int32(x + k) = x + k)
BY IntMaxNat DEF Ints, Int32

\* Counting at a node changes its counter and no other; the NULL node has none.
LEMMA CountFacts ==
  ASSUME NEW f \in [Entry -> Ints], NEW e \in Entry \cup {0}, NEW k \in {-1, 1}
  PROVE  /\ Count(f, e, k) \in [Entry -> Ints]
         /\ \A d \in Entry : Count(f, e, k)[d] = IF d = e THEN Int32(f[d] + k) ELSE f[d]
<1>1. CASE e = 0
  BY <1>1 DEF Count, Entry
<1>2. CASE e # 0
  <2>1. e \in Entry /\ Count(f, e, k) = [f EXCEPT ![e] = Int32(f[e] + k)]
    BY <1>2 DEF Count
  <2>2. Int32(f[e] + k) \in Ints
    BY <2>1, Int32Type
  <2> QED BY <2>1, <2>2
<1> QED BY <1>1, <1>2

\* The linked nodes are the elements of the list.
LEMMA LinkedFacts ==
  ASSUME TypeOK
  PROVE  /\ Len(dns_list) \in Nat
         /\ \A i \in 1..Len(dns_list) : dns_list[i] \in Entry /\ dns_list[i] \in Linked
         /\ \A e \in Linked : e \in Entry /\ \E i \in 1..Len(dns_list) : dns_list[i] = e
<1>1. dns_list \in Seq(Entry)
  BY DEF TypeOK
<1>2. \A i \in 1..Len(dns_list) : dns_list[i] \in Entry
  BY <1>1, ElementOfSeq
<1> QED BY <1>1, <1>2 DEF Linked, ToSet

\* Position is the place of a linked node.
LEMMA PositionFacts ==
  ASSUME TypeOK, Distinct(dns_list)
  PROVE  /\ Position(0) = 0
         /\ \A i \in 1..Len(dns_list) : Position(dns_list[i]) = i
         /\ \A e \in Linked : Position(e) \in 1..Len(dns_list) /\ dns_list[Position(e)] = e
<1>1. Position(0) = 0
  BY DEF Position
<1>2. ASSUME NEW e \in Linked PROVE Position(e) \in 1..Len(dns_list) /\ dns_list[Position(e)] = e
  <2>1. e # 0 /\ \E i \in 1..Len(dns_list) : dns_list[i] = e
    BY LinkedFacts DEF Entry
  <2> QED BY <2>1 DEF Position
<1>3. ASSUME NEW i \in 1..Len(dns_list) PROVE Position(dns_list[i]) = i
  <2>1. dns_list[i] \in Linked
    BY LinkedFacts
  <2> QED BY <1>2, <2>1 DEF Distinct
<1> QED BY <1>1, <1>2, <1>3

\* The node behind the cursor.
LEMMA AfterFacts ==
  ASSUME TypeOK, Distinct(dns_list), NEW c \in Linked \cup {0}
  PROVE  /\ Position(c) \in 0..Len(dns_list)
         /\ After(c) = 0 => Position(c) = Len(dns_list)
         /\ After(c) # 0 => /\ Position(c) + 1 \in 1..Len(dns_list)
                            /\ After(c) = dns_list[Position(c) + 1]
                            /\ Position(After(c)) = Position(c) + 1
                            /\ After(c) \in Linked /\ After(c) \in Entry
                            /\ After(c) # c
<1>1. Position(c) \in 0..Len(dns_list) /\ Len(dns_list) \in Nat
  BY PositionFacts, LinkedFacts
<1>2. CASE Position(c) = Len(dns_list)
  BY <1>1, <1>2 DEF After
<1>3. CASE Position(c) # Len(dns_list)
  <2>1. Position(c) + 1 \in 1..Len(dns_list) /\ After(c) = dns_list[Position(c) + 1]
    BY <1>1, <1>3 DEF After
  <2>2. After(c) \in Linked /\ After(c) \in Entry /\ Position(After(c)) = Position(c) + 1
    BY <2>1, PositionFacts, LinkedFacts
  <2>3. After(c) # c /\ After(c) # 0
    BY <1>1, <2>2 DEF Entry
  <2> QED BY <1>1, <2>1, <2>2, <2>3
<1> QED BY <1>2, <1>3

-----------------------------------------------------------------------------
(* Types and stages *)

\* What a call of list_next from a cursor does to the list and its counters.
LEMMA SearchFacts ==
  ASSUME TypeOK, Stages, NEW t \in Thread, Search(t)
  PROVE  /\ pc[t] = "walk" /\ want[t] \in Address
         /\ node[t] \in Linked \cup {0} /\ node[t] \in Entry \cup {0}
         /\ After(node[t]) \in Linked \cup {0} /\ After(node[t]) \in Entry \cup {0}
         /\ dns_list' \in Seq(Entry) /\ Distinct(dns_list')
         /\ \A i \in 1..Len(dns_list') : \E j \in 1..Len(dns_list) : dns_list'[i] = dns_list[j]
         /\ rc' \in [Entry -> Ints] /\ ic' \in [Entry -> Ints]
<1> DEFINE c == node[t]
           n == After(c)
           RC == Count(Count(rc, n, 1), c, -1)
           IC == Count(ic, c, -1)
<1>1. pc[t] = "walk" /\ want[t] \in Address /\ c \in Entry \cup {0} /\ c \in Linked \cup {0}
  BY DEF Search, TypeOK, Stages
<1>2. n \in Linked \cup {0} /\ n \in Entry \cup {0}
  BY <1>1, AfterFacts DEF Stages
<1>3. rc \in [Entry -> Ints] /\ ic \in [Entry -> Ints] /\ dns_list \in Seq(Entry)
  BY DEF TypeOK, Ints
<1> HIDE DEF n
<1>4. RC \in [Entry -> Ints] /\ IC \in [Entry -> Ints] /\ Count(IC, n, 1) \in [Entry -> Ints]
  BY <1>1, <1>2, <1>3, CountFacts
<1>5. /\ dns_list' = dns_list \/ (c # 0 /\ dns_list' = RemoveAt(dns_list, Position(c)))
      /\ rc' = RC /\ ic' = Count(IC, n, 1)
  BY DEF Search, list_next, n
<1> HIDE DEF c
<1>6. CASE dns_list' = dns_list
  BY <1>1, <1>2, <1>3, <1>4, <1>5, <1>6 DEF Stages, c, n
<1>7. CASE c # 0 /\ dns_list' = RemoveAt(dns_list, Position(c))
  <2>1. Position(c) \in 1..Len(dns_list)
    BY <1>1, <1>7, PositionFacts DEF Stages
  <2> DEFINE At(j) == IF j < Position(c) THEN j ELSE j + 1
  <2>2. /\ dns_list' \in Seq(Entry) /\ Len(dns_list') = Len(dns_list) - 1
        /\ \A j \in 1..Len(dns_list) - 1 : dns_list'[j] = dns_list[At(j)]
    BY <1>3, <1>7, <2>1, RemoveAtProperties
  <2>3. \A j \in 1..Len(dns_list') : dns_list'[j] = dns_list[At(j)] /\ At(j) \in 1..Len(dns_list)
    BY <1>3, <2>1, <2>2
  <2>4. Distinct(dns_list')
    <3> SUFFICES ASSUME NEW i \in 1..Len(dns_list'), NEW j \in 1..Len(dns_list'),
                        dns_list'[i] = dns_list'[j]
                 PROVE  i = j
      BY DEF Distinct
    <3>1. At(i) = At(j)
      BY <2>3 DEF Stages, Distinct
    <3> QED BY <2>1, <2>2, <3>1
  <2> HIDE DEF At
  <2> QED BY <1>1, <1>2, <1>3, <1>4, <1>5, <2>2, <2>3, <2>4 DEF c, n
<1> QED BY <1>5, <1>6, <1>7

\* A linked node has its address and its name.
LEMMA LinkedFilled ==
  ASSUME TypeOK, Stages, NEW i \in 1..Len(dns_list)
  PROVE  dns_list[i] \in Entry /\ ip[dns_list[i]] # NULL /\ dns[dns_list[i]] # NULL
BY LinkedFacts DEF TypeOK

\* Every step keeps the types.
LEMMA TypeStep ==
  ASSUME TypeOK, Stages, Next
  PROVE  TypeOK'
<1> DEFINE Filled == \A i \in 1..Len(dns_list) : ip[dns_list[i]] # NULL /\ dns[dns_list[i]] # NULL
<1>1. dns_list \in Seq(Entry) /\ Len(dns_list) \in Nat /\ Filled
      /\ \A i \in 1..Len(dns_list) : dns_list[i] \in Entry
  BY LinkedFacts DEF TypeOK
<1>2. ASSUME NEW t \in Thread, Search(t) PROVE TypeOK'
  <2>1. /\ dns_list' \in Seq(Entry)
        /\ \A i \in 1..Len(dns_list') : \E j \in 1..Len(dns_list) : dns_list'[i] = dns_list[j]
        /\ rc' \in [Entry -> Ints] /\ ic' \in [Entry -> Ints]
        /\ After(node[t]) \in Entry \cup {0}
    BY <1>2, SearchFacts
  <2>2. UNCHANGED <<ip, dns, lookups, rpc, hostent, raced, failed, early>>
    BY <1>2 DEF Search, resolverVars
  <2>3. Filled'
    BY <1>1, <2>1, <2>2
  <2>4. pc' \in [Thread -> {"idle", "walk", "spawn"}] /\ want' \in [Thread -> Address \cup {NULL}]
        /\ node' \in [Thread -> Entry \cup {0}] /\ hits' \in [Entry -> Nat]
    <3>1. CASE Found(t, After(node[t]))
      <4>1. /\ pc' = [pc EXCEPT ![t] = "idle"] /\ node' = [node EXCEPT ![t] = 0]
            /\ want' = [want EXCEPT ![t] = NULL]
            /\ hits' = [hits EXCEPT ![After(node[t])] = @ + 1]
        BY <1>2, <3>1 DEF Search
      <4>2. After(node[t]) \in Entry
        BY <2>1, <3>1 DEF Found
      <4> HIDE DEF After
      <4> QED BY <4>1, <4>2 DEF TypeOK
    <3>2. CASE ~Found(t, After(node[t]))
      <4>1. /\ pc' = [pc EXCEPT ![t] = IF After(node[t]) = 0 THEN "spawn" ELSE "walk"]
            /\ node' = [node EXCEPT ![t] = After(node[t])]
            /\ UNCHANGED <<want, hits>>
        BY <1>2, <3>2 DEF Search
      <4> QED BY <2>1, <4>1 DEF TypeOK
    <3> QED BY <3>1, <3>2
  <2> QED BY <2>1, <2>2, <2>3, <2>4 DEF TypeOK, Ints
<1>3. ASSUME NEW t \in Thread, NEW a \in Address, BeginLookup(t, a) PROVE TypeOK'
  BY <1>3, BoundsNat DEF BeginLookup, TypeOK, listVars, resolverVars
<1>4. ASSUME NEW t \in Thread, Resolve(t) PROVE TypeOK'
  <2> DEFINE Unused == {e \in Entry : rpc[e] = "none"}
             m == Min(Unused)
  <2>1. m \in Unused
    BY <1>4, MinIsLeast DEF Resolve, Entry
  <2>2. pc[t] = "spawn" /\ want[t] \in Address
    BY <1>4 DEF Resolve, ReturnAddress, TypeOK, Stages
  <2>3. /\ ip' = [ip EXCEPT ![m] = want[t]] /\ rpc' = [rpc EXCEPT ![m] = "start"]
        /\ pc' = [pc EXCEPT ![t] = "idle"] /\ want' = [want EXCEPT ![t] = NULL]
        /\ UNCHANGED <<dns_list, rc, ic, node, lookups, hostent, dns, raced, failed, hits, early>>
    BY <1>4 DEF Resolve, ReturnAddress, listVars, history
  <2> HIDE DEF m
  <2>4. m \in Entry
    BY <2>1
  <2>5. Filled'
    BY <1>1, <2>2, <2>3, <2>4, NullApart DEF TypeOK
  <2> QED BY <2>2, <2>3, <2>4, <2>5 DEF TypeOK
<1>5. ASSUME NEW t \in Thread, ResolveFails(t) PROVE TypeOK'
  BY <1>5 DEF ResolveFails, ReturnAddress, TypeOK, listVars, history
<1>6. ASSUME NEW e \in Entry, AskHost(e) PROVE TypeOK'
  BY <1>6 DEF AskHost, ResolverGoes, Touch, Uncopied, TypeOK, listVars, lookupVars
<1>7. ASSUME NEW e \in Entry, HostAnswers(e) \/ HostFails(e) PROVE TypeOK'
  <2>1. ip[e] \in Address /\ (Host[ip[e]] # NULL => Host[ip[e]] \in Names)
    BY <1>7 DEF HostAnswers, HostFails, ResolverGoes, TypeOK, Stages, Names
  <2>2. /\ dns' \in [Entry -> Names \cup Address \cup {Garbled, NULL}]
        /\ hostent' \in Names \cup {Garbled, NULL}
        /\ rpc' \in [Entry -> {"none", "start", "inside", "copy", "push", "done"}]
        /\ \A d \in Entry : dns[d] # NULL => dns'[d] # NULL
    <3>1. CASE HostAnswers(e)
      BY <2>1, <3>1 DEF HostAnswers, ResolverGoes, TypeOK
    <3>2. CASE HostFails(e)
      BY <2>1, <3>2, NullApart DEF HostFails, ResolverGoes, TypeOK
    <3> QED BY <1>7, <3>1, <3>2
  <2>3. UNCHANGED <<dns_list, rc, ic, pc, want, node, lookups, ip, hits, early>>
        /\ raced' \in SUBSET Entry /\ failed' \in SUBSET Entry
    BY <1>7 DEF HostAnswers, HostFails, listVars, lookupVars, Touch, Uncopied, TypeOK
  <2>4. Filled'
    BY <1>1, <2>2, <2>3
  <2> QED BY <2>2, <2>3, <2>4 DEF TypeOK
<1>8. ASSUME NEW e \in Entry, CopyName(e) PROVE TypeOK'
  <2>1. hostent # NULL /\ dns' = [dns EXCEPT ![e] = hostent]
    BY <1>8 DEF CopyName, ResolverGoes, Stages
  <2>2. dns' \in [Entry -> Names \cup Address \cup {Garbled, NULL}]
        /\ \A d \in Entry : dns[d] # NULL => dns'[d] # NULL
    BY <2>1 DEF TypeOK
  <2>3. UNCHANGED <<dns_list, rc, ic, pc, want, node, lookups, hostent, ip, raced, failed, hits, early>>
        /\ rpc' \in [Entry -> {"none", "start", "inside", "copy", "push", "done"}]
    BY <1>8 DEF CopyName, ResolverGoes, listVars, lookupVars, history, TypeOK
  <2>4. Filled'
    BY <1>1, <2>2, <2>3
  <2> QED BY <2>2, <2>3, <2>4 DEF TypeOK
<1>9. ASSUME NEW e \in Entry, PushEntry(e) PROVE TypeOK'
  <2>1. dns_list' = Append(dns_list, e) /\ ip[e] # NULL /\ dns[e] # NULL
        /\ UNCHANGED <<pc, want, node, lookups, hostent, ip, dns, raced, failed, hits, early>>
    BY <1>9 DEF PushEntry, ResolverGoes, Stages, lookupVars, history
  <2>2. dns_list' \in Seq(Entry) /\ Len(dns_list') = Len(dns_list) + 1
        /\ \A i \in 1..Len(dns_list') : dns_list'[i] = IF i = Len(dns_list) + 1 THEN e ELSE dns_list[i]
    BY <1>1, <2>1
  <2>3. Filled'
    BY <1>1, <2>1, <2>2
  <2>4. 1 \in Ints /\ 0 \in Ints
    BY IntMaxNat DEF Ints
  <2>5. rc' \in [Entry -> Ints] /\ ic' \in [Entry -> Ints]
        /\ rpc' \in [Entry -> {"none", "start", "inside", "copy", "push", "done"}]
    BY <1>9, <2>4 DEF PushEntry, ResolverGoes, TypeOK, Ints
  <2> QED BY <2>1, <2>2, <2>3, <2>5 DEF TypeOK, Ints
<1> QED BY <1>2, <1>3, <1>4, <1>5, <1>6, <1>7, <1>8, <1>9 DEF Next, Resolver

\* Every step keeps the stages.
LEMMA StagesStep ==
  ASSUME TypeOK, Stages, Next
  PROVE  Stages'
<1>1. dns_list \in Seq(Entry) /\ Len(dns_list) \in Nat
      /\ \A i \in 1..Len(dns_list) : dns_list[i] \in Entry
  BY LinkedFacts DEF TypeOK
<1>2. ASSUME NEW t \in Thread, Search(t) PROVE Stages'
  <2>1. /\ Distinct(dns_list')
        /\ \A i \in 1..Len(dns_list') : \E j \in 1..Len(dns_list) : dns_list'[i] = dns_list[j]
        /\ pc[t] = "walk" /\ want[t] \in Address
    BY <1>2, SearchFacts
  <2>2. UNCHANGED <<ip, dns, rpc, hostent>>
    BY <1>2 DEF Search, resolverVars
  <2>3. \A i \in 1..Len(dns_list') : rpc'[dns_list'[i]] = "done"
    BY <2>1, <2>2 DEF Stages
  <2>4. \/ pc' = [pc EXCEPT ![t] = "idle"] /\ node' = [node EXCEPT ![t] = 0] /\ want' = [want EXCEPT ![t] = NULL]
        \/ /\ pc' = [pc EXCEPT ![t] = IF After(node[t]) = 0 THEN "spawn" ELSE "walk"]
           /\ node' = [node EXCEPT ![t] = After(node[t])] /\ want' = want
    BY <1>2 DEF Search
  <2>5. /\ \A u \in Thread : pc'[u] = "idle" <=> want'[u] = NULL
        /\ \A u \in Thread : pc'[u] # "walk" => node'[u] = 0
    <3>1. /\ \A u \in Thread : pc[u] = "idle" <=> want[u] = NULL
          /\ \A u \in Thread : pc[u] # "walk" => node[u] = 0
      BY DEF Stages
    <3>2. ASSUME NEW u \in Thread, u # t
          PROVE  pc'[u] = pc[u] /\ want'[u] = want[u] /\ node'[u] = node[u]
      BY <2>4, <3>2 DEF TypeOK
    <3>3. (pc'[t] = "idle" <=> want'[t] = NULL) /\ (pc'[t] # "walk" => node'[t] = 0)
      BY <2>1, <2>4, NullApart DEF TypeOK
    <3> QED BY <3>1, <3>2, <3>3
  <2> QED BY <2>1, <2>2, <2>3, <2>5 DEF Stages
<1>3. ASSUME NEW t \in Thread, NEW a \in Address, BeginLookup(t, a) PROVE Stages'
  BY <1>3, NullApart DEF BeginLookup, Stages, TypeOK, listVars, resolverVars
<1>4. ASSUME NEW t \in Thread, Resolve(t) PROVE Stages'
  <2> DEFINE Unused == {e \in Entry : rpc[e] = "none"}
             m == Min(Unused)
  <2>1. m \in Unused
    BY <1>4, MinIsLeast DEF Resolve, Entry
  <2>2. pc[t] = "spawn" /\ want[t] \in Address
    BY <1>4 DEF Resolve, ReturnAddress, TypeOK, Stages
  <2>3. /\ ip' = [ip EXCEPT ![m] = want[t]] /\ rpc' = [rpc EXCEPT ![m] = "start"]
        /\ pc' = [pc EXCEPT ![t] = "idle"] /\ want' = [want EXCEPT ![t] = NULL]
        /\ UNCHANGED <<dns_list, node, hostent, dns>>
    BY <1>4 DEF Resolve, ReturnAddress, listVars
  <2> HIDE DEF m
  <2>4. m \in Entry /\ rpc[m] = "none"
    BY <2>1
  <2>5. \A i \in 1..Len(dns_list) : rpc'[dns_list[i]] = "done"
    BY <1>1, <2>3, <2>4 DEF Stages, TypeOK
  <2> QED BY <2>2, <2>3, <2>4, <2>5, NullApart DEF Stages, TypeOK
<1>5. ASSUME NEW t \in Thread, ResolveFails(t) PROVE Stages'
  BY <1>5 DEF ResolveFails, ReturnAddress, Stages, TypeOK, listVars
<1>6. ASSUME NEW e \in Entry, AskHost(e) PROVE Stages'
  BY <1>1, <1>6, NullApart DEF AskHost, ResolverGoes, Stages, TypeOK, listVars, lookupVars
<1>7. ASSUME NEW e \in Entry, HostAnswers(e) \/ HostFails(e) PROVE Stages'
  <2>1. ip[e] \in Address
    BY <1>7 DEF HostAnswers, HostFails, ResolverGoes, TypeOK, Stages
  <2>2. /\ rpc[e] = "inside" /\ UNCHANGED <<dns_list, pc, want, node, ip>>
        /\ \/ /\ rpc' = [rpc EXCEPT ![e] = "push"] /\ dns' = [dns EXCEPT ![e] = ip[e]]
              /\ hostent' = hostent
           \/ /\ rpc' = [rpc EXCEPT ![e] = "copy"] /\ dns' = dns
              /\ hostent' # NULL
    BY <1>7 DEF HostAnswers, HostFails, ResolverGoes, listVars, lookupVars
  <2>3. \A i \in 1..Len(dns_list) : rpc'[dns_list[i]] = "done"
    BY <1>1, <2>2 DEF Stages, TypeOK
  <2>4. \A d \in Entry : rpc'[d] = "none" <=> ip[d] = NULL
    BY <2>2 DEF Stages, TypeOK
  <2>5. \A d \in Entry : rpc'[d] = "copy" => hostent' # NULL
    BY <2>2 DEF Stages, TypeOK
  <2>6. \A d \in Entry : rpc'[d] \in {"push", "done"} => dns'[d] # NULL
    BY <2>1, <2>2, NullApart DEF Stages, TypeOK
  <2> QED BY <2>2, <2>3, <2>4, <2>5, <2>6 DEF Stages
<1>8. ASSUME NEW e \in Entry, CopyName(e) PROVE Stages'
  BY <1>1, <1>8 DEF CopyName, ResolverGoes, Stages, TypeOK, listVars, lookupVars
<1>9. ASSUME NEW e \in Entry, PushEntry(e) PROVE Stages'
  <2>1. dns_list' = Append(dns_list, e) /\ rpc[e] = "push" /\ rpc' = [rpc EXCEPT ![e] = "done"]
        /\ UNCHANGED <<pc, want, node, hostent, ip, dns>>
    BY <1>9 DEF PushEntry, ResolverGoes, lookupVars
  <2>2. dns_list' \in Seq(Entry) /\ Len(dns_list') = Len(dns_list) + 1
        /\ \A i \in 1..Len(dns_list') : dns_list'[i] = IF i = Len(dns_list) + 1 THEN e ELSE dns_list[i]
    BY <1>1, <2>1
  <2>3. \A i \in 1..Len(dns_list) : dns_list[i] # e
    BY <2>1 DEF Stages
  <2>4. Distinct(dns_list')
    BY <1>1, <2>2, <2>3 DEF Stages, Distinct
  <2>5. ASSUME NEW i \in 1..Len(dns_list') PROVE rpc'[dns_list'[i]] = "done"
    <3>1. i = Len(dns_list) + 1 \/ (i \in 1..Len(dns_list) /\ dns_list'[i] = dns_list[i])
      BY <1>1, <2>2
    <3>2. i \in 1..Len(dns_list) => rpc[dns_list[i]] = "done" /\ dns_list[i] \in Entry
      BY <1>1 DEF Stages
    <3> QED BY <2>1, <2>2, <3>1, <3>2 DEF TypeOK
  <2> QED BY <2>1, <2>4, <2>5 DEF Stages, TypeOK
<1> QED BY <1>2, <1>3, <1>4, <1>5, <1>6, <1>7, <1>8, <1>9 DEF Next, Resolver

-----------------------------------------------------------------------------
(* Names *)

\* Every step keeps the names of the entries whose copy is undisturbed.
LEMMA CopiedStep ==
  ASSUME TypeOK, Stages, Copied, Next
  PROVE  Copied'
<1>1. ASSUME NEW t \in Thread, Search(t) PROVE Copied'
  BY <1>1 DEF Search, Copied, Name, resolverVars
<1>2. ASSUME NEW t \in Thread, NEW a \in Address, BeginLookup(t, a) PROVE Copied'
  BY <1>2 DEF BeginLookup, Copied, Name, resolverVars
<1>3. ASSUME NEW t \in Thread, Resolve(t) PROVE Copied'
  <2> DEFINE Unused == {e \in Entry : rpc[e] = "none"}
             m == Min(Unused)
  <2>1. m \in Unused
    BY <1>3, MinIsLeast DEF Resolve, Entry
  <2>2. /\ ip' = [ip EXCEPT ![m] = want[t]] /\ rpc' = [rpc EXCEPT ![m] = "start"]
        /\ UNCHANGED <<hostent, dns, raced, failed>>
    BY <1>3 DEF Resolve, ReturnAddress, history
  <2> HIDE DEF m
  <2> QED BY <2>1, <2>2 DEF Copied, Name, TypeOK
<1>4. ASSUME NEW t \in Thread, ResolveFails(t) PROVE Copied'
  BY <1>4 DEF ResolveFails, ReturnAddress, Copied, Name, history
<1>5. ASSUME NEW e \in Entry, AskHost(e) PROVE Copied'
  BY <1>5 DEF AskHost, ResolverGoes, Touch, Uncopied, Copied, Name, TypeOK
<1>6. ASSUME NEW e \in Entry, HostAnswers(e) PROVE Copied'
  <2>1. /\ raced' = raced \cup {d \in Entry : rpc[d] = "copy"} /\ rpc[e] = "inside"
        /\ rpc' = [rpc EXCEPT ![e] = "copy"] /\ hostent' = Host[ip[e]]
        /\ UNCHANGED <<ip, dns, failed>>
    BY <1>6 DEF HostAnswers, ResolverGoes, Touch, Uncopied
  <2> QED BY <2>1 DEF Copied, Name, TypeOK
<1>9. ASSUME NEW e \in Entry, HostFails(e) PROVE Copied'
  <2>1. /\ raced' = raced \cup {d \in Entry : rpc[d] = "copy"} /\ rpc[e] = "inside"
        /\ rpc' = [rpc EXCEPT ![e] = "push"] /\ dns' = [dns EXCEPT ![e] = ip[e]]
        /\ failed' = failed \cup {e} /\ UNCHANGED <<ip, hostent>>
    BY <1>9 DEF HostFails, ResolverGoes, Touch, Uncopied
  <2> QED BY <2>1 DEF Copied, Name, TypeOK
<1>7. ASSUME NEW e \in Entry, CopyName(e) PROVE Copied'
  BY <1>7 DEF CopyName, ResolverGoes, Copied, Name, TypeOK, history
<1>8. ASSUME NEW e \in Entry, PushEntry(e) PROVE Copied'
  BY <1>8 DEF PushEntry, ResolverGoes, Copied, Name, TypeOK, history
<1> QED BY <1>1, <1>2, <1>3, <1>4, <1>5, <1>6, <1>7, <1>8, <1>9 DEF Next, Resolver

-----------------------------------------------------------------------------
(* Counters *)

\* Every step finds only nodes that were pushed.
LEMMA UnhitStep ==
  ASSUME TypeOK, Stages, Unhit, Next
  PROVE  Unhit'
<1>1. ASSUME NEW t \in Thread, Search(t) PROVE Unhit'
  <2> DEFINE n == After(node[t])
  <2>1. n \in Linked \cup {0} /\ n \in Entry \cup {0}
    BY <1>1, SearchFacts
  <2>2. rpc' = rpc /\ (hits' = hits \/ (n # 0 /\ hits' = [hits EXCEPT ![n] = @ + 1]))
    BY <1>1 DEF Search, Found, resolverVars
  <2> HIDE DEF n
  <2>3. n # 0 => rpc[n] = "done"
    BY <2>1, LinkedFacts DEF Stages
  <2> QED BY <2>1, <2>2, <2>3 DEF Unhit, TypeOK
<1>2. ASSUME NEW t \in Thread, Resolve(t) PROVE Unhit'
  <2> DEFINE m == Min({e \in Entry : rpc[e] = "none"})
  <2>1. m \in {e \in Entry : rpc[e] = "none"}
    BY <1>2, MinIsLeast DEF Resolve, Entry
  <2>2. rpc' = [rpc EXCEPT ![m] = "start"] /\ hits' = hits
    BY <1>2 DEF Resolve, ReturnAddress, history
  <2> HIDE DEF m
  <2> QED BY <2>1, <2>2 DEF Unhit, TypeOK
<1>3. CASE UNCHANGED <<rpc, hits>>
  BY <1>3 DEF Unhit
<1>4. ASSUME NEW e \in Entry, Resolver(e) PROVE Unhit'
  <2>1. hits' = hits /\ \A d \in Entry : rpc'[d] # "done" /\ d # e => rpc'[d] = rpc[d]
BY <1>4
DEF Resolver, AskHost, HostAnswers, HostFails, CopyName, PushEntry, ResolverGoes, history,
       TypeOK
  <2>2. rpc[e] # "done"
    BY <1>4 DEF Resolver, AskHost, HostAnswers, HostFails, CopyName, PushEntry, ResolverGoes
  <2> QED BY <2>1, <2>2 DEF Unhit
<1> QED BY <1>1, <1>2, <1>3, <1>4
DEF Next, BeginLookup, ResolveFails, ReturnAddress, resolverVars, history

\* The references that hits leave behind are never given back.
LEMMA RangeBack ==
  ASSUME TypeOK, Stages, Next, InRange'
  PROVE  InRange
<1>1. Cardinality(Thread) \in Nat
  BY ThreadsFinite, FS_CardinalityType
<1>2. hits \in [Entry -> Nat]
  BY DEF TypeOK
<1>3. ASSUME NEW t \in Thread, Search(t) PROVE \A e \in Entry : hits'[e] \in Nat /\ hits[e] <= hits'[e]
  <2> DEFINE n == After(node[t])
  <2>1. n \in Entry \cup {0}
    BY <1>3, SearchFacts
  <2>2. hits' = hits \/ (n # 0 /\ hits' = [hits EXCEPT ![n] = @ + 1])
    BY <1>3 DEF Search, Found
  <2> HIDE DEF n
  <2> QED BY <1>2, <2>1, <2>2
<1>4. (\E t \in Thread : Search(t)) \/ hits' = hits
  BY DEF Next, BeginLookup, Resolve, ResolveFails, ReturnAddress, Resolver, AskHost,
     HostAnswers, HostFails, CopyName, PushEntry, history
<1>5. \A e \in Entry : hits'[e] \in Nat /\ hits[e] <= hits'[e]
  BY <1>2, <1>3, <1>4
<1> QED BY <1>1, <1>2, <1>5, IntMaxNat DEF InRange

\* The threads that stand somewhere are finitely many.
LEMMA ThreadSets ==
  ASSUME NEW T, T \subseteq Thread
  PROVE  IsFiniteSet(T) /\ Cardinality(T) \in Nat /\ Cardinality(T) <= Cardinality(Thread)
         /\ Cardinality(Thread) \in Nat
BY ThreadsFinite, FS_Subset, FS_CardinalityType

\* While the counters fit, list_next frees nothing and counts exactly.
LEMMA SearchKeeps ==
  ASSUME TypeOK, Stages, Counters, InRange, NEW t \in Thread, Search(t)
  PROVE  /\ dns_list' = dns_list
         /\ \A e \in Linked : rc'[e] = rc[e] + (IF e = After(node[t]) THEN 1 ELSE 0)
                                             - (IF e = node[t] THEN 1 ELSE 0)
         /\ \A e \in Linked : ic'[e] = ic[e] + (IF e = After(node[t]) THEN 1 ELSE 0)
                                             - (IF e = node[t] THEN 1 ELSE 0)
<1> DEFINE c == node[t]
           n == After(c)
           RC == Count(Count(rc, n, 1), c, -1)
           IC == Count(ic, c, -1)
<1>1. c \in Linked \cup {0} /\ c \in Entry \cup {0} /\ n \in Linked \cup {0} /\ n \in Entry \cup {0}
  BY SearchFacts
<1>2. c # 0 => n # c
  BY <1>1, AfterFacts DEF Stages, Entry
<1>3. rc \in [Entry -> Ints] /\ ic \in [Entry -> Ints] /\ hits \in [Entry -> Nat]
  BY DEF TypeOK, Ints
<1>4. /\ dns_list' = IF c # 0 /\ RC[c] <= 0 /\ IC[c] <= 0
                     THEN RemoveAt(dns_list, Position(c)) ELSE dns_list
      /\ rc' = RC /\ ic' = Count(IC, n, 1)
  BY DEF Search, list_next
<1> HIDE DEF n
<1>5. \A e \in Linked : /\ e \in Entry
                        /\ rc[e] = 1 + hits[e] + Cardinality(Cursors(e))
                        /\ ic[e] = hits[e] + Cardinality(Cursors(e))
                        /\ 1 + hits[e] + Cardinality(Thread) <= IntMax
  BY LinkedFacts DEF Counters, InRange
<1>6. c # 0 => Cardinality(Cursors(c)) >= 1 /\ Cardinality(Cursors(c)) <= Cardinality(Thread)
               /\ Cardinality(Cursors(c)) \in Nat
  <2>1. Cursors(c) \subseteq Thread /\ t \in Cursors(c)
    BY DEF Cursors
  <2>2. IsFiniteSet(Cursors(c)) /\ Cardinality(Cursors(c)) \in Nat
        /\ Cardinality(Cursors(c)) <= Cardinality(Thread)
    BY <2>1, ThreadSets
  <2>3. Cardinality(Cursors(c)) # 0
    BY <2>1, <2>2, FS_EmptySet
  <2> QED BY <2>2, <2>3
<1>7. n # 0 => Cardinality(Cursors(n)) + 1 <= Cardinality(Thread) /\ Cardinality(Cursors(n)) \in Nat
  <2> SUFFICES ASSUME n # 0
               PROVE  Cardinality(Cursors(n)) + 1 <= Cardinality(Thread) /\ Cardinality(Cursors(n)) \in Nat
    OBVIOUS
  <2>1. Cursors(n) \subseteq Thread /\ t \notin Cursors(n)
    BY <1>2 DEF Cursors
  <2>2. IsFiniteSet(Cursors(n)) /\ Cardinality(Cursors(n)) \in Nat
    BY <2>1, ThreadSets
  <2>3. Cardinality(Cursors(n) \cup {t}) = Cardinality(Cursors(n)) + 1
    BY <2>1, <2>2, FS_AddElement
  <2>4. Cardinality(Cursors(n) \cup {t}) <= Cardinality(Thread)
    BY <2>1, ThreadSets
  <2> QED BY <2>2, <2>3, <2>4
<1>8. Cardinality(Thread) \in Nat
  BY ThreadsFinite, FS_CardinalityType
<1> HIDE DEF c
<1>9. c # 0 => Int32(rc[c] + -1) = rc[c] - 1 /\ Int32(ic[c] + -1) = ic[c] - 1
  <2>1. c # 0 => rc[c] + -1 \in Ints /\ ic[c] + -1 \in Ints /\ rc[c] \in Ints /\ ic[c] \in Ints
    BY <1>1, <1>3, <1>5, <1>6, <1>8, IntMaxNat DEF Ints
  <2>2. c # 0 => Int32(rc[c] + -1) = rc[c] + -1 /\ Int32(ic[c] + -1) = ic[c] + -1
    BY <2>1, Int32Type
  <2> QED BY <2>1, <2>2 DEF Ints
<1>10. n # 0 => Int32(rc[n] + 1) = rc[n] + 1 /\ Int32(ic[n] + 1) = ic[n] + 1
  <2>1. n # 0 => rc[n] + 1 \in Ints /\ ic[n] + 1 \in Ints /\ rc[n] \in Ints /\ ic[n] \in Ints
    BY <1>1, <1>3, <1>5, <1>7, <1>8, IntMaxNat DEF Ints
  <2> QED BY <2>1, Int32Type
<1> DEFINE RN == Count(rc, n, 1)
<1>11. RN \in [Entry -> Ints] /\ \A e \in Entry : RN[e] = IF e = n THEN Int32(rc[e] + 1) ELSE rc[e]
  BY <1>1, <1>3, CountFacts
<1>12. IC \in [Entry -> Ints] /\ \A e \in Entry : IC[e] = IF e = c THEN Int32(ic[e] + -1) ELSE ic[e]
  BY <1>1, <1>3, CountFacts
<1> HIDE DEF RN, IC
<1>13. \A e \in Entry : Count(RN, c, -1)[e] = IF e = c THEN Int32(RN[e] + -1) ELSE RN[e]
  BY <1>1, <1>11, CountFacts
<1>14. \A e \in Entry : Count(IC, n, 1)[e] = IF e = n THEN Int32(IC[e] + 1) ELSE IC[e]
  BY <1>1, <1>12, CountFacts
<1>15. RC = Count(RN, c, -1)
  BY DEF RN
<1> HIDE DEF RC
<1>16. c # 0 => RC[c] = rc[c] - 1 /\ IC[c] = ic[c] - 1
  BY <1>1, <1>2, <1>9, <1>11, <1>12, <1>13, <1>15
<1>17. dns_list' = dns_list
  <2>1. c # 0 => rc[c] - 1 > 0
    BY <1>1, <1>3, <1>5, <1>6
  <2> QED BY <1>4, <1>16, <2>1, <1>1, <1>3 DEF Ints
<1>18. ASSUME NEW e \in Linked
       PROVE  /\ rc'[e] = rc[e] + (IF e = n THEN 1 ELSE 0) - (IF e = c THEN 1 ELSE 0)
              /\ ic'[e] = ic[e] + (IF e = n THEN 1 ELSE 0) - (IF e = c THEN 1 ELSE 0)
  <2>1. e \in Entry /\ e # 0 /\ rc[e] \in Int /\ ic[e] \in Int
    BY <1>3, <1>5 DEF Ints, Entry
  <2>2. CASE e = n
    BY <1>2, <1>4, <1>10, <1>11, <1>12, <1>13, <1>14, <1>15, <2>1, <2>2
  <2>3. CASE e = c
    BY <1>2, <1>4, <1>9, <1>11, <1>12, <1>13, <1>14, <1>15, <2>1, <2>3
  <2>4. CASE e # n /\ e # c
    BY <1>4, <1>11, <1>12, <1>13, <1>14, <1>15, <2>1, <2>4
  <2> QED BY <2>2, <2>3, <2>4
<1> QED BY <1>17, <1>18 DEF n, c

\* A search moves its cursor and no other.
LEMMA CursorMoves ==
  ASSUME TypeOK, Stages, NEW t \in Thread, Search(t), NEW e \in Entry
  PROVE  Cardinality(Cursors(e)') =
           Cardinality(Cursors(e)) + (IF e = node'[t] THEN 1 ELSE 0) - (IF e = node[t] THEN 1 ELSE 0)
<1>1. node' = [node EXCEPT ![t] = node'[t]] /\ node \in [Thread -> Entry \cup {0}]
  BY DEF Search, TypeOK
<1>2. Cursors(e) \subseteq Thread /\ IsFiniteSet(Cursors(e)) /\ Cardinality(Cursors(e)) \in Nat
  <2>1. Cursors(e) \subseteq Thread
    BY DEF Cursors
  <2> QED BY <2>1, ThreadSets
<1>3. Cursors(e)' = {u \in Thread : node'[u] = e}
  BY DEF Cursors
<1>4. CASE e = node[t] /\ e = node'[t]
  <2>1. Cursors(e)' = Cursors(e)
    BY <1>1, <1>3, <1>4 DEF Cursors
  <2> QED BY <1>2, <1>4, <2>1
<1>5. CASE e = node[t] /\ e # node'[t]
  <2>1. Cursors(e)' = Cursors(e) \ {t} /\ t \in Cursors(e)
    BY <1>1, <1>3, <1>5 DEF Cursors
  <2>2. Cardinality(Cursors(e) \ {t}) = Cardinality(Cursors(e)) - 1
    BY <1>2, <2>1, FS_RemoveElement
  <2> QED BY <1>2, <1>5, <2>1, <2>2
<1>6. CASE e # node[t] /\ e = node'[t]
  <2>1. Cursors(e)' = Cursors(e) \cup {t} /\ t \notin Cursors(e)
    BY <1>1, <1>3, <1>6 DEF Cursors
  <2>2. Cardinality(Cursors(e) \cup {t}) = Cardinality(Cursors(e)) + 1
    BY <1>2, <2>1, FS_AddElement
  <2> QED BY <1>2, <1>6, <2>1, <2>2
<1>7. CASE e # node[t] /\ e # node'[t]
  <2>1. Cursors(e)' = Cursors(e)
    BY <1>1, <1>3, <1>7 DEF Cursors
  <2> QED BY <1>2, <1>7, <2>1
<1> QED BY <1>4, <1>5, <1>6, <1>7

\* Every step keeps the counters exact while they fit.
LEMMA CountersStep ==
  ASSUME TypeOK, Stages, Unhit, Counters, Next
  PROVE  Counters'
<1> DEFINE Exact == /\ \A e \in Entry : rpc[e] = "done" => e \in Linked
                    /\ \A t \in Thread : node[t] # 0 => node[t] \in Linked
                    /\ \A e \in Linked : /\ rc[e] = 1 + hits[e] + Cardinality(Cursors(e))
                                         /\ ic[e] = hits[e] + Cardinality(Cursors(e))
<1> SUFFICES ASSUME InRange' PROVE Exact'
  BY DEF Counters
<1>1. InRange
  BY RangeBack
<1>2. /\ \A e \in Entry : rpc[e] = "done" => e \in Linked
      /\ \A t \in Thread : node[t] # 0 => node[t] \in Linked
      /\ \A e \in Linked : /\ rc[e] = 1 + hits[e] + Cardinality(Cursors(e))
                           /\ ic[e] = hits[e] + Cardinality(Cursors(e))
                           /\ e \in Entry /\ rpc[e] = "done"
  BY <1>1, LinkedFacts DEF Counters, Stages
<1>3. \A e \in Entry : Cardinality(Cursors(e)) \in Nat
  <2>1. \A e \in Entry : Cursors(e) \subseteq Thread
    BY DEF Cursors
  <2> QED BY <2>1, ThreadSets
<1>4. ASSUME NEW t \in Thread, Search(t) PROVE Exact'
  <2> DEFINE c == node[t]
             n == After(c)
  <2>1. /\ dns_list' = dns_list
        /\ \A e \in Linked : rc'[e] = rc[e] + (IF e = n THEN 1 ELSE 0) - (IF e = c THEN 1 ELSE 0)
        /\ \A e \in Linked : ic'[e] = ic[e] + (IF e = n THEN 1 ELSE 0) - (IF e = c THEN 1 ELSE 0)
    BY <1>1, <1>4, SearchKeeps
  <2>2. /\ rpc' = rpc
        /\ \/ n # 0 /\ node' = [node EXCEPT ![t] = 0] /\ hits' = [hits EXCEPT ![n] = @ + 1]
           \/ node' = [node EXCEPT ![t] = n] /\ hits' = hits
    BY <1>4 DEF Search, Found, resolverVars
  <2>3. n \in Linked \cup {0} /\ n \in Entry \cup {0} /\ c \in Linked \cup {0}
    BY <1>4, SearchFacts
  <2>4. \A e \in Entry : Cardinality(Cursors(e)') =
           Cardinality(Cursors(e)) + (IF e = node'[t] THEN 1 ELSE 0) - (IF e = c THEN 1 ELSE 0)
    BY <1>4, CursorMoves
  <2> HIDE DEF n
  <2>5. Linked' = Linked
    BY <2>1 DEF Linked
  <2>6. node \in [Thread -> Entry \cup {0}] /\ hits \in [Entry -> Nat]
    BY DEF TypeOK
  <2>7. \A u \in Thread : node'[u] # 0 => node'[u] \in Linked
    BY <1>2, <2>2, <2>3, <2>6
  <2>8. ASSUME NEW e \in Linked
        PROVE  rc'[e] = 1 + hits'[e] + Cardinality(Cursors(e)') /\ ic'[e] = hits'[e] + Cardinality(Cursors(e)')
    <3>1. e \in Entry /\ e # 0 /\ hits[e] \in Nat /\ Cardinality(Cursors(e)) \in Nat
      BY <1>2, <1>3, <2>6 DEF Entry
    <3>2. hits'[e] + (IF e = node'[t] THEN 1 ELSE 0) = hits[e] + (IF e = n THEN 1 ELSE 0)
      BY <2>2, <2>3, <2>6, <3>1
    <3>3. hits'[e] \in Nat
      BY <2>2, <2>3, <2>6, <3>1
    <3> QED BY <1>2, <2>1, <2>4, <3>1, <3>2, <3>3
  <2> QED BY <1>2, <2>2, <2>5, <2>7, <2>8
<1>5. ASSUME UNCHANGED <<dns_list, rc, ic, node, hits>>,
             \A e \in Entry : rpc'[e] = "done" => rpc[e] = "done"
      PROVE  Exact'
  <2>1. Linked' = Linked /\ \A e \in Entry : Cursors(e)' = Cursors(e)
    BY <1>5 DEF Linked, Cursors
  <2> QED BY <1>2, <1>5, <2>1
<1>6. ASSUME NEW e \in Entry, PushEntry(e) PROVE Exact'
  <2>1. /\ dns_list' = Append(dns_list, e) /\ rpc[e] = "push" /\ rpc' = [rpc EXCEPT ![e] = "done"]
        /\ rc' = [rc EXCEPT ![e] = 1] /\ ic' = [ic EXCEPT ![e] = 0] /\ UNCHANGED <<node, hits>>
    BY <1>6 DEF PushEntry, ResolverGoes, lookupVars, history
  <2>2. Linked' = Linked \cup {e}
    <3>1. dns_list \in Seq(Entry) /\ Len(dns_list) \in Nat
      BY DEF TypeOK
    <3>2. Len(dns_list') = Len(dns_list) + 1 /\ dns_list' \in Seq(Entry)
          /\ \A i \in 1..Len(dns_list') : dns_list'[i] = IF i = Len(dns_list) + 1 THEN e ELSE dns_list[i]
      BY <2>1, <3>1
    <3>3. Linked' = {dns_list'[i] : i \in 1..Len(dns_list')} /\ Linked = {dns_list[i] : i \in 1..Len(dns_list)}
      BY <3>1, <3>2 DEF Linked, ToSet
    <3> QED BY <3>1, <3>2, <3>3
  <2>3. e \notin Linked /\ hits[e] = 0
    BY <1>2, <2>1 DEF Unhit
  <2>4. \A d \in Entry : Cursors(d)' = Cursors(d)
    BY <2>1 DEF Cursors
  <2>5. Cursors(e) = {} /\ Cardinality(Cursors(e)) = 0
    <3>1. Cursors(e) = {}
      BY <1>2, <2>3 DEF Cursors, Entry
    <3> QED BY <3>1, FS_EmptySet
  <2>6. rpc \in [Entry -> {"none", "start", "inside", "copy", "push", "done"}]
        /\ rc \in [Entry -> Ints] /\ ic \in [Entry -> Ints]
    BY DEF TypeOK, Ints
  <2>7. rc'[e] = 1 /\ ic'[e] = 0 /\ \A d \in Linked : rc'[d] = rc[d] /\ ic'[d] = ic[d] /\ d \in Entry
    BY <1>2, <2>1, <2>3, <2>6
  <2>8. \A d \in Entry : rpc'[d] = "done" => rpc[d] = "done" \/ d = e
    BY <2>1, <2>6
  <2>9. \A d \in Entry : rpc'[d] = "done" => d \in Linked'
    BY <1>2, <2>2, <2>8
  <2>10. \A t \in Thread : node'[t] # 0 => node'[t] \in Linked'
    BY <1>2, <2>1, <2>2
  <2>11. ASSUME NEW d \in Linked'
         PROVE  rc'[d] = 1 + hits'[d] + Cardinality(Cursors(d)') /\ ic'[d] = hits'[d] + Cardinality(Cursors(d)')
    <3>1. CASE d = e
      <4>1. Cursors(d)' = {}
        BY <2>4, <2>5, <3>1
      <4> QED BY <2>1, <2>3, <2>5, <2>7, <3>1, <4>1
    <3>2. CASE d # e
      <4>1. d \in Linked /\ Cursors(d)' = Cursors(d)
        BY <1>2, <2>2, <2>4, <3>2
      <4> QED BY <1>2, <2>1, <2>7, <4>1
    <3> QED BY <3>1, <3>2
  <2> QED BY <2>9, <2>10, <2>11
<1>7. ASSUME NEW t \in Thread, Resolve(t) \/ ResolveFails(t) PROVE Exact'
  <2>1. UNCHANGED <<dns_list, rc, ic, node, hits>>
    BY <1>7 DEF Resolve, ResolveFails, ReturnAddress, listVars, history
  <2>2. \A e \in Entry : rpc'[e] = "done" => rpc[e] = "done"
    BY <1>7 DEF Resolve, ResolveFails, TypeOK
  <2> QED BY <1>5, <2>1, <2>2
<1>8. ASSUME NEW t \in Thread, NEW a \in Address, BeginLookup(t, a) PROVE Exact'
  BY <1>5, <1>8 DEF BeginLookup, listVars, resolverVars
<1>9. ASSUME NEW e \in Entry, AskHost(e) \/ HostAnswers(e) \/ HostFails(e) \/ CopyName(e) PROVE Exact'
  <2>1. UNCHANGED <<dns_list, rc, ic, node, hits>>
    BY <1>9 DEF AskHost, HostAnswers, HostFails, CopyName, listVars, lookupVars, history
  <2>2. \A d \in Entry : rpc'[d] = "done" => rpc[d] = "done"
    BY <1>9 DEF AskHost, HostAnswers, HostFails, CopyName, ResolverGoes, TypeOK
  <2> QED BY <1>5, <2>1, <2>2
<1>10. Exact'
  BY <1>4, <1>6, <1>7, <1>8, <1>9 DEF Next, Resolver
<1> QED BY <1>10

-----------------------------------------------------------------------------
(* How often an address is resolved *)

\* The sets that are counted are finite.
LEMMA CountedSets ==
  ASSUME NEW E, E \subseteq Entry, NEW T, T \subseteq Thread
  PROVE  IsFiniteSet(E) /\ IsFiniteSet(T) /\ Cardinality(E) \in Nat /\ Cardinality(T) \in Nat
<1>1. IsFiniteSet(Entry)
  BY BoundsNat, FS_Interval DEF Entry
<1> QED BY <1>1, ThreadsFinite, FS_Subset, FS_CardinalityType

\* A step after which no lookup is missing that was not missing before.
LEMMA FewerMissing ==
  ASSUME TypeOK, Few, InRange, early' = early,
         \A a \in Address : Entries(a)' = Entries(a) /\ Missing(a)' \subseteq Missing(a)
  PROVE  Few'
<1> SUFFICES ASSUME InRange', NEW a \in Address
             PROVE  Cardinality(Entries(a)') + Cardinality(Missing(a)') <= early'[a]
  BY DEF Few
<1>1. Entries(a) \subseteq Entry /\ Missing(a) \subseteq Thread
  BY DEF Entries, Missing
<1>2. IsFiniteSet(Missing(a)) /\ Cardinality(Missing(a)) \in Nat /\ Cardinality(Entries(a)) \in Nat
  BY <1>1, CountedSets
<1>3. Cardinality(Missing(a)') <= Cardinality(Missing(a)) /\ Cardinality(Missing(a)') \in Nat
  BY <1>2, FS_Subset, FS_CardinalityType
<1>4. Cardinality(Entries(a)) + Cardinality(Missing(a)) <= early[a]
  BY DEF Few
<1>5. Cardinality(Entries(a)') = Cardinality(Entries(a))
  OBVIOUS
<1> DEFINE x == Cardinality(Missing(a))
           y == Cardinality(Missing(a)')
           z == Cardinality(Entries(a))
<1>6. x \in Nat /\ y \in Nat /\ z \in Nat /\ y <= x /\ z + x <= early[a] /\ early[a] \in Nat
  BY <1>2, <1>3, <1>4 DEF TypeOK
<1> HIDE DEF x, y, z
<1>7. z + y <= early[a]
  <2>1. z + y <= z + x
    BY <1>6
  <2> QED BY <1>6, <2>1
<1> QED BY <1>5, <1>7 DEF y, z

\* A push moves no node.
LEMMA PositionKept ==
  ASSUME TypeOK, Distinct(dns_list), Distinct(dns_list'), NEW e \in Entry,
         dns_list' = Append(dns_list, e), NEW c \in Linked \cup {0}
  PROVE  Position(c)' = Position(c)
<1>1. CASE c = 0
  BY <1>1 DEF Position
<1>2. CASE c # 0
  <2>1. dns_list \in Seq(Entry) /\ Len(dns_list) \in Nat
    BY DEF TypeOK
  <2>2. Len(dns_list') = Len(dns_list) + 1
        /\ \A i \in 1..Len(dns_list) : dns_list'[i] = dns_list[i] /\ i \in 1..Len(dns_list')
    BY <2>1
  <2> DEFINE i == Position(c)
  <2>3. i \in 1..Len(dns_list) /\ dns_list[i] = c
    BY <1>2, PositionFacts
  <2>4. i \in 1..Len(dns_list') /\ dns_list'[i] = c
    BY <2>2, <2>3
  <2>5. \A j \in 1..Len(dns_list') : dns_list'[j] = c => j = i
    BY <2>4 DEF Distinct
  <2>6. Position(c)' = CHOOSE j \in 1..Len(dns_list') : dns_list'[j] = c
    BY <1>2 DEF Position
  <2> HIDE DEF i
  <2>7. (CHOOSE j \in 1..Len(dns_list') : dns_list'[j] = c) = i
    BY <2>4, <2>5
  <2> QED BY <2>6, <2>7 DEF i
<1> QED BY <1>1, <1>2

\* Every step keeps the entries for an address within the lookups that missed it.
LEMMA FewStep ==
  ASSUME TypeOK, Stages, Counters, Few, Next
  PROVE  Few'
<1> SUFFICES ASSUME InRange' PROVE Few'
  BY DEF Few
<1>1. InRange
  BY RangeBack
<1>2. TypeOK' /\ Stages'
  BY TypeStep, StagesStep
<1>3. \A t \in Thread : node[t] # 0 => node[t] \in Linked
  BY <1>1 DEF Counters
<1>4. dns_list \in Seq(Entry) /\ Len(dns_list) \in Nat
      /\ \A i \in 1..Len(dns_list) : dns_list[i] \in Entry /\ rpc[dns_list[i]] = "done"
  BY LinkedFacts DEF TypeOK, Stages
<1>5. ASSUME NEW t \in Thread, Search(t) PROVE Few'
  <2> DEFINE c == node[t]
             n == After(c)
  <2>1. dns_list' = dns_list
    BY <1>1, <1>5, SearchKeeps
  <2>2. UNCHANGED <<ip, early>>
    BY <1>5 DEF Search, resolverVars
  <2>3. pc[t] = "walk" /\ want[t] \in Address /\ c \in Linked \cup {0}
        /\ n \in Linked \cup {0} /\ n \in Entry \cup {0}
    BY <1>5, SearchFacts
  <2>4. /\ Position(c) \in 0..Len(dns_list)
        /\ n = 0 => Position(c) = Len(dns_list)
        /\ n # 0 => /\ Position(c) + 1 \in 1..Len(dns_list)
                    /\ n = dns_list[Position(c) + 1]
                    /\ Position(n) = Position(c) + 1
    BY <2>3, AfterFacts DEF Stages
  <2>5. \/ /\ pc' = [pc EXCEPT ![t] = "idle"] /\ node' = [node EXCEPT ![t] = 0]
           /\ want' = [want EXCEPT ![t] = NULL]
        \/ /\ ~Found(t, n) /\ pc' = [pc EXCEPT ![t] = IF n = 0 THEN "spawn" ELSE "walk"]
           /\ node' = [node EXCEPT ![t] = n] /\ want' = want
    BY <1>5 DEF Search
  <2>6. \A x \in Entry \cup {0} : Position(x)' = Position(x)
    BY <2>1 DEF Position
  <2> HIDE DEF n
  <2>7. \A a \in Address : Entries(a)' = Entries(a)
    BY <2>2 DEF Entries
  <2>8. ASSUME NEW a \in Address, NEW u \in Missing(a)' PROVE u \in Missing(a)
    <3>1. u \in Thread /\ want'[u] = a
      BY DEF Missing
    <3>2. CASE u # t
      <4>1. pc'[u] = pc[u] /\ want'[u] = want[u] /\ node'[u] = node[u]
        BY <2>5, <3>1, <3>2 DEF TypeOK
      <4>2. Position(node[u])' = Position(node[u])
        BY <2>6, <3>1, <4>1 DEF TypeOK
      <4>3. Unmatched(u)' => Unmatched(u)
        BY <2>1, <2>2, <4>1, <4>2 DEF Unmatched
      <4> QED BY <3>1, <4>1, <4>3 DEF Missing
    <3>3. CASE u = t
      <4>1. ~Found(t, n) /\ pc' = [pc EXCEPT ![t] = IF n = 0 THEN "spawn" ELSE "walk"]
            /\ node' = [node EXCEPT ![t] = n] /\ want' = want
        BY <2>5, <3>1, <3>3, NullApart DEF TypeOK
      <4>2. CASE n = 0
        <5>1. Unmatched(t)
          BY <1>4, <2>4, <4>2 DEF Unmatched
        <5> QED BY <2>3, <3>1, <3>3, <4>1, <5>1 DEF Missing
      <4>3. CASE n # 0
        <5>1. pc'[t] = "walk" /\ node'[t] = n /\ want'[t] = want[t] /\ ip[n] # want[t]
          BY <4>1, <4>3 DEF Found, TypeOK
        <5>2. Unmatched(t)'
          BY <3>3, <5>1 DEF Missing
        <5>3. Position(node[t])' = Position(c) + 1
          BY <2>3, <2>4, <2>6, <4>3, <5>1
        <5>4. \A j \in 1..Len(dns_list) : j > Position(c) + 1 => ip[dns_list[j]] # want[t]
          BY <2>1, <2>2, <5>1, <5>2, <5>3 DEF Unmatched
        <5>5. Unmatched(t)
          BY <1>4, <2>4, <4>3, <5>1, <5>4 DEF Unmatched
        <5> QED BY <2>3, <3>1, <3>3, <5>1, <5>5 DEF Missing
      <4> QED BY <4>2, <4>3
    <3> QED BY <3>2, <3>3
  <2> QED BY <1>1, <2>2, <2>7, <2>8, FewerMissing
<1>6. ASSUME NEW t \in Thread, NEW b \in Address, BeginLookup(t, b) PROVE Few'
  <2>1. /\ pc[t] = "idle" /\ pc' = [pc EXCEPT ![t] = "walk"] /\ want' = [want EXCEPT ![t] = b]
        /\ early' = IF Cached(b) THEN early ELSE [early EXCEPT ![b] = @ + 1]
        /\ UNCHANGED <<dns_list, node, ip>>
    BY <1>6 DEF BeginLookup, listVars, resolverVars
  <2>2. node[t] = 0
    BY <2>1 DEF Stages
  <2>3. \A x \in Entry \cup {0} : Position(x)' = Position(x)
    BY <2>1 DEF Position
  <2>4. ASSUME NEW a \in Address, NEW u \in Missing(a)', u # t PROVE u \in Missing(a)
    <3>1. u \in Thread /\ pc'[u] = pc[u] /\ want'[u] = want[u] /\ node'[u] = node[u]
      BY <2>1, <2>4 DEF Missing, TypeOK
    <3>2. Position(node[u])' = Position(node[u])
      BY <2>3, <3>1 DEF TypeOK
    <3>3. Unmatched(u)' => Unmatched(u)
      BY <2>1, <3>1, <3>2 DEF Unmatched
    <3> QED BY <3>1, <3>3 DEF Missing
  <2>5. ASSUME NEW a \in Address, t \in Missing(a)' PROVE a = b /\ ~Cached(b)
    <3>1. want'[t] = b /\ pc'[t] = "walk" /\ node'[t] = 0
      BY <2>1, <2>2 DEF TypeOK
    <3>2. a = b /\ Unmatched(t)'
      BY <2>5, <3>1 DEF Missing
    <3>3. Position(node[t])' = 0
      BY <3>1 DEF Position
    <3>4. \A j \in 1..Len(dns_list) : ip[dns_list[j]] # b
      BY <1>4, <2>1, <3>1, <3>2, <3>3 DEF Unmatched
    <3> QED BY <3>2, <3>4, LinkedFacts DEF Cached
  <2>6. \A a \in Address : Entries(a)' = Entries(a)
    BY <2>1 DEF Entries
  <2>7. CASE Cached(b)
    <3>1. \A a \in Address : Missing(a)' \subseteq Missing(a)
      BY <2>4, <2>5, <2>7
    <3> QED BY <1>1, <2>1, <2>6, <2>7, <3>1, FewerMissing
  <2>8. CASE ~Cached(b)
    <3> SUFFICES ASSUME NEW a \in Address
                 PROVE  Cardinality(Entries(a)') + Cardinality(Missing(a)') <= early'[a]
      BY DEF Few
    <3> DEFINE M == Missing(a)
               N == IF a = b THEN M \cup {t} ELSE M
    <3>1. Missing(a)' \subseteq N
      BY <2>4, <2>5
    <3>2. Entries(a) \subseteq Entry /\ M \subseteq Thread
      BY DEF Entries, Missing
    <3>3. IsFiniteSet(M) /\ Cardinality(M) \in Nat /\ Cardinality(Entries(a)) \in Nat
      BY <3>2, CountedSets
    <3> HIDE DEF M
    <3>4. IsFiniteSet(N) /\ Cardinality(N) \in Nat
          /\ Cardinality(N) <= Cardinality(M) + IF a = b THEN 1 ELSE 0
      <4>1. IsFiniteSet(M \cup {t}) /\ Cardinality(M \cup {t}) \in Nat
            /\ Cardinality(M \cup {t}) <= Cardinality(M) + 1
        <5>1. /\ IsFiniteSet(M \cup {t})
              /\ Cardinality(M \cup {t}) = IF t \in M THEN Cardinality(M) ELSE Cardinality(M) + 1
          BY <3>3, FS_AddElement
        <5> QED BY <3>3, <5>1
      <4>2. CASE a = b
        BY <4>1, <4>2
      <4>3. CASE a # b
        BY <3>3, <4>3
      <4> QED BY <4>2, <4>3
    <3> HIDE DEF N
    <3>5. Cardinality(Missing(a)') <= Cardinality(N) /\ Cardinality(Missing(a)') \in Nat
      BY <3>1, <3>4, FS_Subset, FS_CardinalityType
    <3>6. Cardinality(Entries(a)) + Cardinality(M) <= early[a]
      BY <1>1 DEF Few, M
    <3>7. early[a] \in Nat /\ early'[a] = early[a] + IF a = b THEN 1 ELSE 0
      BY <2>1, <2>8 DEF TypeOK
    <3>8. Cardinality(Entries(a)') = Cardinality(Entries(a))
      BY <2>6
    <3> DEFINE x == Cardinality(M)
               y == Cardinality(Missing(a)')
               z == Cardinality(Entries(a))
               k == IF a = b THEN 1 ELSE 0
    <3>9. x \in Nat /\ y \in Nat /\ z \in Nat /\ k \in Nat /\ y <= x + k /\ z + x <= early[a]
      BY <3>3, <3>4, <3>5, <3>6
    <3>10. early'[a] = early[a] + k
      BY <3>7
    <3> HIDE DEF x, y, z, k
    <3>11. z + y <= early[a] + k
      BY <3>7, <3>9
    <3> QED BY <3>8, <3>10, <3>11 DEF y, z
  <2> QED BY <2>7, <2>8
<1>7. ASSUME NEW t \in Thread, Resolve(t) PROVE Few'
  <2> DEFINE m == Min({e \in Entry : rpc[e] = "none"})
  <2>1. m \in {e \in Entry : rpc[e] = "none"}
    BY <1>7, MinIsLeast DEF Resolve, Entry
  <2>2. pc[t] = "spawn" /\ want[t] \in Address
    BY <1>7 DEF Resolve, ReturnAddress, TypeOK, Stages
  <2>3. /\ ip' = [ip EXCEPT ![m] = want[t]]
        /\ pc' = [pc EXCEPT ![t] = "idle"] /\ want' = [want EXCEPT ![t] = NULL]
        /\ UNCHANGED <<dns_list, node, early>>
    BY <1>7 DEF Resolve, ReturnAddress, listVars, history
  <2> HIDE DEF m
  <2>4. m \in Entry /\ ip[m] = NULL /\ \A i \in 1..Len(dns_list) : dns_list[i] # m
    BY <1>4, <2>1 DEF Stages
  <2>5. \A i \in 1..Len(dns_list) : ip'[dns_list[i]] = ip[dns_list[i]]
    BY <1>4, <2>3, <2>4 DEF TypeOK
  <2>6. \A x \in Entry \cup {0} : Position(x)' = Position(x)
    BY <2>3 DEF Position
  <2>7. ASSUME NEW a \in Address, NEW u \in Missing(a)' PROVE u # t /\ u \in Missing(a)
    <3>1. u \in Thread /\ want'[u] = a
      BY DEF Missing
    <3>2. u # t
      BY <2>3, <3>1, NullApart DEF TypeOK
    <3>3. pc'[u] = pc[u] /\ want'[u] = want[u] /\ node'[u] = node[u]
      BY <2>3, <3>1, <3>2 DEF TypeOK
    <3>4. Position(node[u])' = Position(node[u])
      BY <2>6, <3>1, <3>3 DEF TypeOK
    <3>5. Unmatched(u)' => Unmatched(u)
      BY <2>3, <2>5, <3>3, <3>4 DEF Unmatched
    <3> QED BY <3>1, <3>2, <3>3, <3>5 DEF Missing
  <2> SUFFICES ASSUME NEW a \in Address
               PROVE  Cardinality(Entries(a)') + Cardinality(Missing(a)') <= early'[a]
    BY DEF Few
  <2>8. Entries(a) \subseteq Entry /\ Missing(a) \subseteq Thread
    BY DEF Entries, Missing
  <2> DEFINE E == Entries(a)
             M == Missing(a)
             y == Cardinality(Missing(a)')
  <2>9. IsFiniteSet(E) /\ IsFiniteSet(M) /\ Cardinality(E) \in Nat /\ Cardinality(M) \in Nat
    BY <2>8, CountedSets
  <2>10. Cardinality(E) + Cardinality(M) <= early[a] /\ early[a] \in Nat
    BY <1>1 DEF Few, TypeOK
  <2>11. CASE a = want[t]
    <3>1. t \in M /\ m \notin E
      BY <2>2, <2>4, <2>11, NullApart DEF Missing, Entries
    <3>2. Entries(a)' = E \cup {m}
      BY <2>3, <2>4, <2>11 DEF Entries, TypeOK
    <3>3. Missing(a)' \subseteq M \ {t}
      BY <2>7
    <3> HIDE DEF E, M
    <3>4. Cardinality(E \cup {m}) = Cardinality(E) + 1
      BY <2>9, <3>1, FS_AddElement
    <3>5. IsFiniteSet(M \ {t}) /\ Cardinality(M \ {t}) = Cardinality(M) - 1
      BY <2>9, <3>1, FS_RemoveElement
    <3>6. y <= Cardinality(M) - 1 /\ y \in Nat
      BY <3>3, <3>5, FS_Subset, FS_CardinalityType
    <3> HIDE DEF y
    <3>7. Cardinality(E) + 1 + y <= early[a]
      BY <2>9, <2>10, <3>6
    <3>8. Cardinality(Entries(a)') = Cardinality(E) + 1
      BY <3>2, <3>4
    <3> QED BY <2>3, <3>7, <3>8 DEF y
  <2>12. CASE a # want[t]
    <3>1. Entries(a)' = E
      BY <2>3, <2>4, <2>12, NullApart DEF Entries, TypeOK
    <3>2. Missing(a)' \subseteq M
      BY <2>7
    <3> HIDE DEF E, M
    <3>3. y <= Cardinality(M) /\ y \in Nat
      BY <2>9, <3>2, FS_Subset, FS_CardinalityType
    <3>4. Cardinality(Entries(a)') = Cardinality(E)
      BY <3>1
    <3> HIDE DEF y
    <3>5. Cardinality(E) + y <= early[a]
      BY <2>9, <2>10, <3>3
    <3> QED BY <2>3, <3>4, <3>5 DEF y
  <2> QED BY <2>11, <2>12
<1>8. ASSUME NEW t \in Thread, ResolveFails(t) PROVE Few'
  <2>1. /\ pc' = [pc EXCEPT ![t] = "idle"] /\ want' = [want EXCEPT ![t] = NULL]
        /\ UNCHANGED <<dns_list, node, ip, early>>
    BY <1>8 DEF ResolveFails, ReturnAddress, listVars, history
  <2>2. \A x \in Entry \cup {0} : Position(x)' = Position(x)
    BY <2>1 DEF Position
  <2>3. ASSUME NEW a \in Address, NEW u \in Missing(a)' PROVE u \in Missing(a)
    <3>1. u \in Thread /\ want'[u] = a
      BY DEF Missing
    <3>2. u # t
      BY <2>1, <3>1, NullApart DEF TypeOK
    <3>3. pc'[u] = pc[u] /\ want'[u] = want[u] /\ node'[u] = node[u]
      BY <2>1, <3>1, <3>2 DEF TypeOK
    <3>4. Position(node[u])' = Position(node[u])
      BY <2>2, <3>1, <3>3 DEF TypeOK
    <3>5. Unmatched(u)' => Unmatched(u)
      BY <2>1, <3>3, <3>4 DEF Unmatched
    <3> QED BY <3>1, <3>3, <3>5 DEF Missing
  <2>4. \A a \in Address : Entries(a)' = Entries(a)
    BY <2>1 DEF Entries
  <2> QED BY <1>1, <2>1, <2>3, <2>4, FewerMissing
<1>9. ASSUME NEW e \in Entry, AskHost(e) \/ HostAnswers(e) \/ HostFails(e) \/ CopyName(e) PROVE Few'
  <2>1. UNCHANGED <<dns_list, ip, pc, want, node, early>>
    BY <1>9 DEF AskHost, HostAnswers, HostFails, CopyName, listVars, lookupVars, history
  <2>2. \A a \in Address : Entries(a)' = Entries(a) /\ Missing(a)' = Missing(a)
    BY <2>1 DEF Entries, Missing, Unmatched, Position
  <2> QED BY <1>1, <2>1, <2>2, FewerMissing
<1>10. ASSUME NEW e \in Entry, PushEntry(e) PROVE Few'
  <2>1. dns_list' = Append(dns_list, e) /\ UNCHANGED <<ip, pc, want, node, early>>
    BY <1>10 DEF PushEntry, lookupVars, history
  <2>2. Len(dns_list') = Len(dns_list) + 1
        /\ \A i \in 1..Len(dns_list) : dns_list'[i] = dns_list[i] /\ i \in 1..Len(dns_list')
    BY <1>4, <2>1
  <2>3. ASSUME NEW u \in Thread PROVE Position(node[u])' = Position(node[u])
    BY <1>2, <1>3, <2>1, PositionKept DEF Stages
  <2>4. ASSUME NEW a \in Address, NEW u \in Missing(a)' PROVE u \in Missing(a)
    <3>1. u \in Thread /\ Position(node[u])' = Position(node[u])
      BY <2>3 DEF Missing
    <3>2. Unmatched(u)' => Unmatched(u)
      BY <2>1, <2>2, <3>1 DEF Unmatched
    <3> QED BY <2>1, <3>1, <3>2 DEF Missing
  <2>5. \A a \in Address : Entries(a)' = Entries(a)
    BY <2>1 DEF Entries
  <2> QED BY <1>1, <2>1, <2>4, <2>5, FewerMissing
<1> QED BY <1>5, <1>6, <1>7, <1>8, <1>9, <1>10 DEF Next, Resolver

-----------------------------------------------------------------------------
(* Which entry a lookup finds *)

\* Every step keeps the hits on the first entry for their address.
LEMMA FirstsStep ==
  ASSUME TypeOK, Stages, Unhit, Counters, Firsts, Next
  PROVE  Firsts'
<1> DEFINE InOrder == /\ \A t \in Thread : pc[t] = "walk" => Passed(t)
                      /\ \A e \in Entry : hits[e] > 0 => e \in Linked /\ Foremost(e)
<1> SUFFICES ASSUME InRange' PROVE InOrder'
  BY DEF Firsts
<1>1. InRange
  BY RangeBack
<1>2. TypeOK' /\ Stages'
  BY TypeStep, StagesStep
<1>3. /\ \A t \in Thread : node[t] # 0 => node[t] \in Linked
      /\ \A t \in Thread : pc[t] = "walk" => Passed(t)
      /\ \A e \in Entry : hits[e] > 0 => e \in Linked /\ Foremost(e)
      /\ \A e \in Entry : rpc[e] = "done" => e \in Linked
  BY <1>1 DEF Counters, Firsts
<1>4. dns_list \in Seq(Entry) /\ Len(dns_list) \in Nat
      /\ \A i \in 1..Len(dns_list) : dns_list[i] \in Entry /\ rpc[dns_list[i]] = "done"
  BY LinkedFacts DEF TypeOK, Stages
<1>5. ASSUME NEW t \in Thread, Search(t) PROVE InOrder'
  <2> DEFINE c == node[t]
             n == After(c)
  <2>1. dns_list' = dns_list /\ ip' = ip
    BY <1>1, <1>5, SearchKeeps DEF Search, resolverVars
  <2>2. pc[t] = "walk" /\ c \in Linked \cup {0}
        /\ n \in Linked \cup {0} /\ n \in Entry \cup {0}
    BY <1>5, SearchFacts
  <2>3. /\ Position(c) \in 0..Len(dns_list)
        /\ n # 0 => /\ Position(c) + 1 \in 1..Len(dns_list)
                    /\ n = dns_list[Position(c) + 1]
                    /\ Position(n) = Position(c) + 1
    BY <2>2, AfterFacts DEF Stages
  <2>4. \/ /\ Found(t, n) /\ pc' = [pc EXCEPT ![t] = "idle"] /\ node' = [node EXCEPT ![t] = 0]
           /\ want' = [want EXCEPT ![t] = NULL] /\ hits' = [hits EXCEPT ![n] = @ + 1]
        \/ /\ ~Found(t, n) /\ pc' = [pc EXCEPT ![t] = IF n = 0 THEN "spawn" ELSE "walk"]
           /\ node' = [node EXCEPT ![t] = n] /\ want' = want /\ hits' = hits
    BY <1>5 DEF Search
  <2>5. Linked' = Linked /\ \A x \in Entry \cup {0} : Position(x)' = Position(x)
    BY <2>1 DEF Linked, Position
  <2>6. \A x \in Entry : Foremost(x)' = Foremost(x)
    BY <2>1, <2>5 DEF Foremost
  <2>7. \A j \in 1..Len(dns_list) : j <= Position(c) => ip[dns_list[j]] # want[t]
    BY <1>3, <2>2 DEF Passed
  <2> HIDE DEF n
  <2>8. ASSUME NEW u \in Thread, pc'[u] = "walk" PROVE Passed(u)'
    <3>1. CASE u # t
      <4>1. pc'[u] = pc[u] /\ want'[u] = want[u] /\ node'[u] = node[u]
        BY <2>4, <3>1 DEF TypeOK
      <4>2. Passed(u) /\ Position(node[u])' = Position(node[u])
        BY <1>3, <2>5, <2>8, <4>1 DEF TypeOK
      <4> QED BY <2>1, <4>1, <4>2 DEF Passed
    <3>2. CASE u = t
      <4>1. n # 0 /\ ip[n] # want[t] /\ node'[t] = n /\ want'[t] = want[t]
        BY <2>4, <2>8, <3>2 DEF Found, TypeOK
      <4>2. Position(node[t])' = Position(c) + 1
        BY <2>2, <2>3, <2>5, <4>1
      <4>3. \A j \in 1..Len(dns_list) : j <= Position(c) + 1 => ip[dns_list[j]] # want[t]
        BY <1>4, <2>3, <2>7, <4>1
      <4> QED BY <2>1, <3>2, <4>1, <4>2, <4>3 DEF Passed
    <3> QED BY <3>1, <3>2
  <2>9. ASSUME NEW e \in Entry, hits'[e] > 0 PROVE e \in Linked /\ Foremost(e)
    <3>1. CASE hits'[e] = hits[e]
      BY <1>3, <2>9, <3>1
    <3>2. CASE hits'[e] # hits[e]
      <4>1. e = n /\ n # 0 /\ ip[n] = want[t]
        BY <2>2, <2>4, <3>2 DEF Found, TypeOK
      <4>2. \A j \in 1..Len(dns_list) : ip[dns_list[j]] = ip[n] => Position(c) + 1 <= j
        BY <1>4, <2>3, <2>7, <4>1
      <4> QED BY <2>2, <2>3, <4>1, <4>2 DEF Foremost
    <3> QED BY <3>1, <3>2
  <2> QED BY <2>5, <2>6, <2>8, <2>9
<1>6. ASSUME UNCHANGED <<dns_list, node, hits>>,
             \A i \in 1..Len(dns_list) : ip'[dns_list[i]] = ip[dns_list[i]],
             \A t \in Thread : pc'[t] = "walk" => node[t] = 0 \/ (pc[t] = "walk" /\ want'[t] = want[t])
      PROVE  InOrder'
  <2>1. Linked' = Linked /\ \A x \in Entry \cup {0} : Position(x)' = Position(x)
    BY <1>6 DEF Linked, Position
  <2>2. ASSUME NEW t \in Thread, pc'[t] = "walk" PROVE Passed(t)'
    <3>1. Position(node[t])' = Position(node[t]) /\ node'[t] = node[t]
      BY <1>6, <2>1 DEF TypeOK
    <3>2. CASE node[t] = 0
      <4>1. Position(node[t])' = 0
        BY <3>1, <3>2 DEF Position
      <4> QED BY <1>4, <1>6, <4>1 DEF Passed
    <3>3. CASE pc[t] = "walk" /\ want'[t] = want[t]
      BY <1>3, <1>6, <3>1, <3>3 DEF Passed
    <3> QED BY <1>6, <2>2, <3>2, <3>3
  <2>3. ASSUME NEW e \in Entry, hits'[e] > 0 PROVE e \in Linked' /\ Foremost(e)'
    <3>1. e \in Linked /\ Foremost(e)
      BY <1>3, <1>6, <2>3
    <3>2. ip'[e] = ip[e]
      BY <1>6, <3>1, LinkedFacts
    <3> QED BY <1>6, <2>1, <3>1, <3>2 DEF Foremost
  <2> QED BY <2>2, <2>3
<1>7. ASSUME NEW t \in Thread, NEW a \in Address, BeginLookup(t, a) PROVE InOrder'
  <2>1. pc[t] = "idle" /\ pc' = [pc EXCEPT ![t] = "walk"] /\ want' = [want EXCEPT ![t] = a]
        /\ UNCHANGED <<dns_list, node, hits, ip>>
    BY <1>7 DEF BeginLookup, listVars, resolverVars
  <2>2. node[t] = 0
    BY <2>1 DEF Stages
  <2> QED BY <1>6, <2>1, <2>2 DEF TypeOK
<1>8. ASSUME NEW t \in Thread, Resolve(t) \/ ResolveFails(t) PROVE InOrder'
  <2>1. pc[t] = "spawn" /\ pc' = [pc EXCEPT ![t] = "idle"] /\ want' = [want EXCEPT ![t] = NULL]
        /\ UNCHANGED <<dns_list, node, hits>>
    BY <1>8 DEF Resolve, ResolveFails, ReturnAddress, listVars, history
  <2>2. \A i \in 1..Len(dns_list) : ip'[dns_list[i]] = ip[dns_list[i]]
    <3>1. CASE Resolve(t)
      <4> DEFINE m == Min({e \in Entry : rpc[e] = "none"})
      <4>1. m \in {e \in Entry : rpc[e] = "none"} /\ ip' = [ip EXCEPT ![m] = want[t]]
        BY <3>1, MinIsLeast DEF Resolve, Entry
      <4> HIDE DEF m
      <4> QED BY <1>4, <4>1 DEF TypeOK
    <3>2. CASE ResolveFails(t)
      BY <3>2 DEF ResolveFails
    <3> QED BY <1>8, <3>1, <3>2
  <2> QED BY <1>6, <2>1, <2>2 DEF TypeOK
<1>9. ASSUME NEW e \in Entry, AskHost(e) \/ HostAnswers(e) \/ HostFails(e) \/ CopyName(e) PROVE InOrder'
  <2>1. UNCHANGED <<dns_list, node, hits, ip, pc, want>>
    BY <1>9 DEF AskHost, HostAnswers, HostFails, CopyName, listVars, lookupVars, history
  <2> QED BY <1>6, <2>1
<1>10. ASSUME NEW e \in Entry, PushEntry(e) PROVE InOrder'
  <2>1. dns_list' = Append(dns_list, e) /\ rpc[e] = "push" /\ UNCHANGED <<ip, pc, want, node, hits>>
    BY <1>10 DEF PushEntry, ResolverGoes, lookupVars, history
  <2>2. Len(dns_list') = Len(dns_list) + 1
        /\ \A i \in 1..Len(dns_list) : dns_list'[i] = dns_list[i] /\ i \in 1..Len(dns_list')
    BY <1>4, <2>1
  <2>3. ASSUME NEW x \in Linked \cup {0} PROVE Position(x)' = Position(x) /\ Position(x) \in 0..Len(dns_list)
    BY <1>2, <1>4, <2>1, PositionKept, PositionFacts DEF Stages
  <2>4. \A x \in Linked : x \in Linked'
    BY <1>2, <2>2, LinkedFacts DEF Linked, ToSet
  <2>5. ASSUME NEW t \in Thread, pc'[t] = "walk" PROVE Passed(t)'
    <3>1. Position(node[t])' = Position(node[t]) /\ Position(node[t]) \in 0..Len(dns_list)
      BY <1>2, <1>3, <1>4, <2>1, PositionKept, PositionFacts DEF Stages
    <3>2. Passed(t)
      BY <1>3, <2>1, <2>5
    <3> QED BY <1>4, <2>1, <2>2, <3>1, <3>2 DEF Passed
  <2>6. ASSUME NEW d \in Entry, hits'[d] > 0 PROVE d \in Linked' /\ Foremost(d)'
    <3>1. d \in Linked /\ Foremost(d)
      BY <1>3, <2>1, <2>6
    <3>2. Position(d)' = Position(d) /\ Position(d) \in 0..Len(dns_list) /\ d \in Linked'
      BY <2>3, <2>4, <3>1
    <3>3. \A j \in 1..Len(dns_list') : j \in 1..Len(dns_list) \/ j = Len(dns_list) + 1
      BY <1>4, <2>2
    <3> QED BY <1>4, <2>1, <2>2, <3>1, <3>2, <3>3 DEF Foremost
  <2> QED BY <2>5, <2>6
<1> QED BY <1>5, <1>7, <1>8, <1>9, <1>10 DEF Next, Resolver

-----------------------------------------------------------------------------
(* The invariant and what it says *)

\* The cache starts empty.
LEMMA IInvInit == Init => IInv
<1> SUFFICES ASSUME Init PROVE IInv
  OBVIOUS
<1>1. TypeOK
  BY IntMaxNat, BoundsNat DEF Init, TypeOK
<1>2. Stages /\ Copied /\ Unhit
  BY NullApart DEF Init, Stages, Copied, Unhit, Distinct
<1>3. Counters
  BY DEF Init, Counters, Linked, ToSet
<1>4. \A a \in Address : Entries(a) = {} /\ Missing(a) = {}
  BY NullApart DEF Init, Entries, Missing
<1>5. Few
  <2>1. \A a \in Address : early[a] = 0
    BY DEF Init
  <2>2. \A a \in Address : Cardinality(Entries(a)) = 0 /\ Cardinality(Missing(a)) = 0
    BY <1>4, FS_EmptySet
  <2> QED BY <2>1, <2>2 DEF Few
<1>6. Firsts
  BY DEF Init, Firsts
<1> QED BY <1>1, <1>2, <1>3, <1>5, <1>6 DEF IInv

\* Every step keeps it.
LEMMA IInvStep == IInv /\ [Next]_vars => IInv'
<1> SUFFICES ASSUME IInv, [Next]_vars PROVE IInv'
  OBVIOUS
<1>1. CASE Next
BY <1>1, TypeStep, StagesStep, CopiedStep, UnhitStep, CountersStep, FewStep, FirstsStep DEF IInv
<1>2. CASE UNCHANGED vars
  <2>1. UNCHANGED <<dns_list, rc, ic, ip, dns, pc, want, node, rpc, hostent, lookups, raced, failed, hits, early>>
    BY <1>2 DEF vars, listVars, lookupVars, resolverVars, history
  <2>2. TypeOK' /\ Stages' /\ Unhit'
    BY <2>1 DEF IInv, TypeOK, Stages, Unhit, Distinct
  <2>3. Copied'
    BY <2>1 DEF IInv, Copied, Name
  <2>4. Counters'
    BY <2>1 DEF IInv, Counters, InRange, Linked, Cursors
  <2>5. Few'
    BY <2>1 DEF IInv, Few, InRange, Entries, Missing, Unmatched, Position
  <2>6. Firsts'
    BY <2>1 DEF IInv, Firsts, InRange, Passed, Foremost, Linked, Position
  <2> QED BY <2>2, <2>3, <2>4, <2>5, <2>6 DEF IInv
<1> QED BY <1>1, <1>2

\* The invariant holds in every reachable state.
THEOREM Invariance == Spec => []IInv
BY IInvInit, IInvStep, PTL DEF Spec

\* While the counters fit, no search stands on a freed node, every pushed entry stays in the
\* cache, and an address is resolved again only for lookups that began before its answer.
THEOREM CacheKept == Spec => []EntriesKept
<1>1. IInv => EntriesKept
  <2> SUFFICES ASSUME IInv PROVE EntriesKept
    OBVIOUS
  <2>1. TypeOK
    BY DEF IInv
  <2>2. InRange => /\ \A t \in Thread : node[t] # 0 => node[t] \in Linked
                   /\ \A e \in Entry : rpc[e] = "done" => e \in Linked
    BY DEF IInv, Counters
  <2>3. ASSUME InRange, NEW a \in Address PROVE Cardinality({e \in Entry : ip[e] = a}) <= early[a]
    <3>1. Entries(a) \subseteq Entry /\ Missing(a) \subseteq Thread
      BY DEF Entries, Missing
    <3>2. Cardinality(Entries(a)) \in Nat /\ Cardinality(Missing(a)) \in Nat
      BY <3>1, CountedSets
    <3>3. Cardinality(Entries(a)) + Cardinality(Missing(a)) <= early[a] /\ early[a] \in Nat
      BY <2>1, <2>3 DEF IInv, Few, TypeOK
    <3>4. Cardinality(Entries(a)) <= early[a]
      BY <3>2, <3>3
    <3> QED BY <3>4 DEF Entries
  <2> QED BY <2>1, <2>2, <2>3 DEF EntriesKept
<1> QED BY <1>1, Invariance, PTL

\* While the counters fit, all lookups that find an address in the cache are answered from
\* the same entry.
THEOREM AnswersSame == Spec => []SameAnswer
<1>1. IInv => SameAnswer
  <2> SUFFICES ASSUME IInv, InRange, NEW d \in Entry, NEW e \in Entry,
                      hits[d] > 0, hits[e] > 0, ip[d] = ip[e]
               PROVE  d = e
    BY DEF SameAnswer
  <2>1. d \in Linked /\ Foremost(d) /\ e \in Linked /\ Foremost(e) /\ TypeOK /\ Distinct(dns_list)
    BY DEF IInv, Firsts, Stages
  <2>2. /\ Position(d) \in 1..Len(dns_list) /\ dns_list[Position(d)] = d
        /\ Position(e) \in 1..Len(dns_list) /\ dns_list[Position(e)] = e
    BY <2>1, PositionFacts
  <2>3. Position(d) <= Position(e) /\ Position(e) <= Position(d)
    BY <2>1, <2>2 DEF Foremost
  <2>4. Position(d) = Position(e)
    BY <2>2, <2>3
  <2> QED BY <2>2, <2>4
<1> QED BY <1>1, Invariance, PTL

\* The name of a cached address is what its own resolver was told, its host's name or
\* nothing, unless gethostbyaddr's storage was touched between the answer and the copy.
THEOREM NamesSound == Spec => []NameSound
<1>1. IInv => NameSound
  <2> SUFFICES ASSUME IInv, NEW e \in Linked \ raced PROVE dns[e] = Name(e)
    BY DEF NameSound, Name
  <2>1. TypeOK /\ Stages /\ Copied
    BY DEF IInv
  <2>2. e \in Entry /\ rpc[e] = "done"
    BY <2>1, LinkedFacts DEF Stages
  <2> QED BY <2>1, <2>2 DEF Copied
<1> QED BY <1>1, Invariance, PTL
=============================================================================
