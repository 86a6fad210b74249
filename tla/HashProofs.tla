----------------------------- MODULE HashProofs -----------------------------
(***************************************************************************)
(* Proofs about Hash, for every set of threads, keys and data, every hash  *)
(* function, every choice of thresholds and every set of calls.            *)
(***************************************************************************)
EXTENDS Hash, CommonLemmas, FiniteSetTheorems, TLAPS

\* What a setter carries from its test to its writes.
Args ==
  \A t \in Thread :
    /\ pc[t] = "hash_func" => \E f \in 1..Len(HashFunc) : arg[t] = <<f>>
    /\ pc[t] \in {"high_mark", "low_mark"} => \E l, h \in 1..20 : arg[t] = <<l, h>> /\ l <= h

\* No entry is lost track of: ht->entries is 0 only when the table is empty.
Counted == IsFiniteSet(table) /\ Cardinality(table) <= entries

\* The hash function is replaced in an empty table.
Replaceable == "hash_func" \notin raced /\ Setting({"hash_func"}) => table = {}

\* A hash_setthresholds that ran alone leaves the marks that it had compared.
MarksWritten ==
  "marks" \notin raced =>
    /\ \A t, u \in Thread : /\ pc[t] \in {"high_mark", "low_mark"}
                            /\ pc[u] \in {"high_mark", "low_mark"}
                            => t = u
    /\ \A t \in Thread : pc[t] = "low_mark" => high_mark = arg[t][2]
    /\ ~Setting({"high_mark", "low_mark"}) => low_mark <= high_mark

\* The thread t will see a load that is over high_mark, or makes it fit.
WillResize(t) ==
  /\ mark[t] = "high"
  /\ \/ pc[t] \in {"flags", "entries", "rehash"}
     \/ pc[t] = "size" /\ entries <= seen[t]

\* A load over high_mark is some thread's business: who adds an entry looks at the
\* counters afterwards, and the counts it may miss belong to others that look later.
Load ==
  ~tuned =>
    /\ ~frozen /\ low_mark = 6 /\ high_mark = 14
    /\ ~Setting({"high_mark", "low_mark"})
    /\ 20 * entries <= 14 * size \/ \E t \in Thread : WillResize(t)

-----------------------------------------------------------------------------
(* Sizes *)

\* The powers of two from 1 to 2^30.
LEMMA SizesType == 1 \in Sizes /\ 2^30 \in Sizes /\ \A p \in Sizes : p \in Nat \ {0}
<1> DEFINE N == Nat \ {0}
<1>1. \A i \in 0..30 :
        \/ i = 0 \/ i = 1 \/ i = 2 \/ i = 3 \/ i = 4 \/ i = 5 \/ i = 6 \/ i = 7 \/ i = 8
        \/ i = 9 \/ i = 10 \/ i = 11 \/ i = 12 \/ i = 13 \/ i = 14 \/ i = 15 \/ i = 16
        \/ i = 17 \/ i = 18 \/ i = 19 \/ i = 20 \/ i = 21 \/ i = 22 \/ i = 23 \/ i = 24
        \/ i = 25 \/ i = 26 \/ i = 27 \/ i = 28 \/ i = 29 \/ i = 30
  OBVIOUS
<1>2. /\ 2^0 \in N /\ 2^1 \in N /\ 2^2 \in N /\ 2^3 \in N /\ 2^4 \in N /\ 2^5 \in N /\ 2^6 \in N /\ 2^7 \in N
      /\ 2^8 \in N /\ 2^9 \in N /\ 2^10 \in N /\ 2^11 \in N /\ 2^12 \in N /\ 2^13 \in N /\ 2^14 \in N /\ 2^15 \in N
      /\ 2^16 \in N /\ 2^17 \in N /\ 2^18 \in N /\ 2^19 \in N /\ 2^20 \in N /\ 2^21 \in N /\ 2^22 \in N /\ 2^23 \in N
      /\ 2^24 \in N /\ 2^25 \in N /\ 2^26 \in N /\ 2^27 \in N /\ 2^28 \in N /\ 2^29 \in N /\ 2^30 \in N
  OBVIOUS
<1>4. \A i \in 0..30 : 2^i \in N
  BY <1>1, <1>2
<1>3. 2^0 = 1
  OBVIOUS
<1> QED BY <1>3, <1>4 DEF Sizes

\* hash_size gives a size of the table, large enough.
LEMMA SizeSuffices ==
  ASSUME NEW s \in Nat, s <= 2^30
  PROVE  hash_size(s) \in Sizes /\ hash_size(s) >= s
<1> DEFINE S == {p \in Sizes : p >= s}
<1>1. 2^30 \in Nat
  OBVIOUS
<1>2. S \in SUBSET Nat /\ 2^30 \in S
  BY <1>1, SizesType
<1>3. Min(S) \in S
  BY <1>2, MinIsLeast
<1> QED BY <1>3 DEF hash_size

\* hash_rehash asks for a size that exists, and with the marks of hash_new for two
\* buckets an entry.
LEMMA NewSizeFits ==
  ASSUME TypeOK
  PROVE  /\ NewSize(entries) \in Sizes
         /\ low_mark = 6 /\ high_mark = 14 => NewSize(entries) >= 2 * entries
<1> DEFINE n == (40 * entries) \div (high_mark + low_mark)
<1>0. entries \in Nat /\ entries <= MaxEntries /\ MaxEntries \in Nat /\ 20 * MaxEntries <= 2^30
  BY SizesSuffice DEF TypeOK
<1>1. high_mark \in 1..20 /\ low_mark \in 1..20
  BY DEF TypeOK
<1>2. n \in Nat /\ n * (high_mark + low_mark) <= 40 * entries
  BY <1>0, <1>1
<1>3. 2 * n <= n * (high_mark + low_mark)
  BY <1>1, <1>2
<1>4. n <= 20 * entries
  BY <1>0, <1>1, <1>2, <1>3
<1>5. 2^30 \in Nat
  OBVIOUS
<1>6. n <= 2^30
  BY <1>0, <1>2, <1>4, <1>5
<1>7. NewSize(entries) = hash_size(n)
  BY DEF NewSize
<1>8. low_mark = 6 /\ high_mark = 14 => n = 2 * entries
  BY <1>0
<1> HIDE DEF n
<1>9. hash_size(n) \in Sizes /\ hash_size(n) >= n
  BY <1>2, <1>6, SizeSuffices
<1> QED BY <1>7, <1>8, <1>9

-----------------------------------------------------------------------------
(* The steps *)

USE DEF tableVars, configVars

\* What one thread does next.
Next1(t) ==
  \/ Step(t)
  \/ hash_rehash(t)
  \/ hash_keys(t)
  \/ \E on \in BOOLEAN : SetFrozen(t, on)
  \/ \E f \in 1..Len(HashFunc) : hash_sethashfunction(t, f)
  \/ \E l, h \in Marks \cup {0} : hash_setthresholds(t, l, h)
  \/ \E k \in Key : hash_find(t, k) \/ hash_delete(t, k)
  \/ \E k \in Key, d \in Data : hash_search(t, k, d) \/ hash_replace(t, k, d)

\* A key has a bucket in a table of any size.
LEMMA BucketNat ==
  ASSUME TypeOK, NEW k \in Key, NEW s \in Sizes
  PROVE  hash_value(k, s) \in Nat
<1>1. HashFunc[func] \in [Key -> Nat]
  BY HashFuncType DEF TypeOK
<1>2. s \in Nat \ {0}
  BY SizesType
<1> QED BY <1>1, <1>2 DEF hash_value

\* A call uses up one of the thread's calls.
LEMMA CallingType ==
  ASSUME TypeOK, NEW t \in Thread, NEW o, Calling(t, o)
  PROVE  left' \in [Thread -> 0..MaxCalls]
BY MaxCallsNat DEF Calling, TypeOK

\* What a lookup finds is an entry of the key.
LEMMA HitIsEntry ==
  ASSUME TypeOK, NEW k \in Key, Hits(k) # {}
  PROVE  /\ Hit(k) \in table /\ Hit(k) \in Entry
         /\ Hit(k).key = k /\ Hit(k).slot = hash_value(k, size)
<1>1. Hit(k) \in Hits(k)
  BY DEF Hit
<1> QED BY <1>1 DEF Hits, TypeOK

\* The types are preserved; every size is a power of two.
LEMMA TypeStep == TypeOK /\ Args /\ Counted /\ Next => TypeOK'
<1> SUFFICES ASSUME TypeOK /\ Args /\ Counted, NEW t \in Thread, Next1(t) PROVE TypeOK'
  BY DEF Next, Next1
<1>1. ASSUME ReadFlags(t) PROVE TypeOK'
  BY <1>1 DEF ReadFlags, TypeOK
<1>2. ASSUME ReadEntries(t) PROVE TypeOK'
  BY <1>2, SizesSuffice DEF ReadEntries, TypeOK
<1>3. ASSUME ReadSize(t) PROVE TypeOK'
  BY <1>3 DEF ReadSize, TypeOK
<1>4. ASSUME AutoRehash(t) PROVE TypeOK'
  <2>1. \A e \in table : [e EXCEPT !.slot = hash_value(e.key, NewSize(entries))] \in Entry
    BY NewSizeFits, BucketNat DEF TypeOK, Entry
  <2>2. table' \in SUBSET Entry /\ size' \in Sizes
    BY <1>4, <2>1, NewSizeFits DEF AutoRehash, Rehash, TypeOK
  <2> QED BY <1>4, <2>2 DEF AutoRehash, TypeOK
<1>5. ASSUME CopyKeys(t) PROVE TypeOK'
  BY <1>5 DEF CopyKeys, Return, TypeOK
<1>6. ASSUME WriteHashFunc(t) PROVE TypeOK'
  <2>1. arg[t][1] \in 1..Len(HashFunc)
    BY <1>6 DEF WriteHashFunc, Args
  <2> QED BY <1>6, <2>1 DEF WriteHashFunc, TypeOK
<1>7. ASSUME WriteHighMark(t) PROVE TypeOK'
  <2>1. arg[t][2] \in 1..20
    BY <1>7 DEF WriteHighMark, Args
  <2> QED BY <1>7, <2>1 DEF WriteHighMark, TypeOK
<1>8. ASSUME WriteLowMark(t) PROVE TypeOK'
  <2>1. arg[t][1] \in 1..20
    BY <1>8 DEF WriteLowMark, Args
  <2> QED BY <1>8, <2>1 DEF WriteLowMark, TypeOK
<1>9. ASSUME hash_rehash(t) PROVE TypeOK'
  <2>1. \A e \in table : [e EXCEPT !.slot = hash_value(e.key, NewSize(entries))] \in Entry
    BY NewSizeFits, BucketNat DEF TypeOK, Entry
  <2>2. table' \in SUBSET Entry /\ size' \in Sizes
    BY <1>9, <2>1, NewSizeFits DEF hash_rehash, Rehash, TypeOK
  <2> QED BY <1>9, <2>2, CallingType DEF hash_rehash, TypeOK
<1>10. ASSUME hash_keys(t) PROVE TypeOK'
  BY <1>10, CallingType DEF hash_keys, TypeOK
<1>11. ASSUME NEW on \in BOOLEAN, SetFrozen(t, on) PROVE TypeOK'
  BY <1>11, CallingType DEF SetFrozen, TypeOK
<1>12. ASSUME NEW f \in 1..Len(HashFunc), hash_sethashfunction(t, f) PROVE TypeOK'
  <2>1. <<f>> \in Seq(Nat)
    OBVIOUS
  <2> QED BY <1>12, <2>1, CallingType DEF hash_sethashfunction, TypeOK
<1>13. ASSUME NEW l \in Marks \cup {0}, NEW h \in Marks \cup {0}, hash_setthresholds(t, l, h) PROVE TypeOK'
  <2>1. <<Given(l, low_mark), Given(h, high_mark)>> \in Seq(Nat)
    BY MarksType DEF Given, TypeOK
  <2> QED BY <1>13, <2>1, CallingType DEF hash_setthresholds, Outdates, TypeOK
<1>14. ASSUME NEW k \in Key, hash_find(t, k) PROVE TypeOK'
  BY <1>14, CallingType DEF hash_find, TypeOK
<1>15. ASSUME NEW k \in Key, hash_delete(t, k) PROVE TypeOK'
  <2>1. Hits(k) # {} => entries - 1 \in 0..MaxEntries
    <3> SUFFICES ASSUME Hits(k) # {} PROVE entries - 1 \in 0..MaxEntries
      OBVIOUS
    <3>1. table # {}
      BY HitIsEntry
    <3>2. Cardinality(table) \in Nat /\ Cardinality(table) # 0
      BY <3>1, FS_CardinalityType, FS_EmptySet DEF Counted
    <3> QED BY <3>2, SizesSuffice DEF Counted, TypeOK
  <2> QED BY <1>15, <2>1, CallingType DEF hash_delete, DecideResize, TypeOK
<1>16. ASSUME NEW k \in Key, NEW d \in Data, hash_search(t, k, d) PROVE TypeOK'
  <2>1. table' \in SUBSET Entry
    <3>1. [key |-> k, data |-> d, slot |-> hash_value(k, size)] \in Entry
      BY BucketNat DEF Entry, TypeOK
    <3>2. Hits(k) # {} => [Hit(k) EXCEPT !.data = d] \in Entry
      BY HitIsEntry DEF Entry
    <3> QED BY <1>16, <3>1, <3>2 DEF hash_search, hash_addentry, TypeOK
  <2>2. entries' \in 0..MaxEntries
    BY <1>16, SizesSuffice DEF hash_search, hash_addentry, TypeOK
  <2> QED BY <1>16, <2>1, <2>2, CallingType
          DEF hash_search, DecideResize, hash_addentry, Outdates, TypeOK
<1>17. ASSUME NEW k \in Key, NEW d \in Data, hash_replace(t, k, d) PROVE TypeOK'
  <2>1. table' \in SUBSET Entry
    <3>1. [key |-> k, data |-> d, slot |-> hash_value(k, size)] \in Entry
      BY BucketNat DEF Entry, TypeOK
    <3>2. Hits(k) # {} => [Hit(k) EXCEPT !.data = d] \in Entry
      BY HitIsEntry DEF Entry
    <3> QED BY <1>17, <3>1, <3>2 DEF hash_replace, hash_addentry, TypeOK
  <2>2. entries' \in 0..MaxEntries
    BY <1>17, SizesSuffice DEF hash_replace, hash_addentry, TypeOK
  <2> QED BY <1>17, <2>1, <2>2, CallingType
          DEF hash_replace, DecideResize, hash_addentry, Outdates, TypeOK
<1> QED BY <1>1, <1>2, <1>3, <1>4, <1>5, <1>6, <1>7, <1>8, <1>9, <1>10, <1>11, <1>12, <1>13,
           <1>14, <1>15, <1>16, <1>17 DEF Next1, Step

\* What the setters carry is preserved.
LEMMA ArgsStep == TypeOK /\ Args /\ Next => Args'
<1> SUFFICES ASSUME TypeOK /\ Args, NEW t \in Thread, Next1(t) PROVE Args'
  BY DEF Next, Next1
<1>1. ASSUME ReadFlags(t) PROVE Args'
  BY <1>1 DEF ReadFlags, TypeOK, Args
<1>2. ASSUME ReadEntries(t) PROVE Args'
  BY <1>2 DEF ReadEntries, TypeOK, Args
<1>3. ASSUME ReadSize(t) PROVE Args'
  BY <1>3 DEF ReadSize, TypeOK, Args
<1>4. ASSUME AutoRehash(t) PROVE Args'
  BY <1>4 DEF AutoRehash, TypeOK, Args
<1>5. ASSUME CopyKeys(t) PROVE Args'
  BY <1>5 DEF CopyKeys, TypeOK, Args
<1>6. ASSUME WriteHashFunc(t) PROVE Args'
  BY <1>6 DEF WriteHashFunc, TypeOK, Args
<1>7. ASSUME WriteHighMark(t) PROVE Args'
  BY <1>7 DEF WriteHighMark, TypeOK, Args
<1>8. ASSUME WriteLowMark(t) PROVE Args'
  BY <1>8 DEF WriteLowMark, TypeOK, Args
<1>9. ASSUME hash_rehash(t) PROVE Args'
  BY <1>9 DEF hash_rehash, TypeOK, Args
<1>10. ASSUME hash_keys(t) PROVE Args'
  BY <1>10 DEF hash_keys, TypeOK, Args
<1>11. ASSUME NEW on \in BOOLEAN, SetFrozen(t, on) PROVE Args'
  BY <1>11 DEF SetFrozen, TypeOK, Args
<1>12. ASSUME NEW f \in 1..Len(HashFunc), hash_sethashfunction(t, f) PROVE Args'
  BY <1>12 DEF hash_sethashfunction, TypeOK, Args
<1>13. ASSUME NEW l \in Marks \cup {0}, NEW h \in Marks \cup {0}, hash_setthresholds(t, l, h) PROVE Args'
  <2>1. ~BadMarks(l, h) => \E x, y \in 1..20 : <<Given(l, low_mark), Given(h, high_mark)>> = <<x, y>> /\ x <= y
    BY MarksType DEF BadMarks, Given, TypeOK
  <2> QED BY <1>13, <2>1 DEF hash_setthresholds, TypeOK, Args
<1>14. ASSUME NEW k \in Key, hash_find(t, k) PROVE Args'
  BY <1>14 DEF hash_find, TypeOK, Args
<1>15. ASSUME NEW k \in Key, hash_delete(t, k) PROVE Args'
  BY <1>15 DEF hash_delete, DecideResize, TypeOK, Args
<1>16. ASSUME NEW k \in Key, NEW d \in Data, hash_search(t, k, d) PROVE Args'
  BY <1>16 DEF hash_search, DecideResize, TypeOK, Args
<1>17. ASSUME NEW k \in Key, NEW d \in Data, hash_replace(t, k, d) PROVE Args'
  BY <1>17 DEF hash_replace, DecideResize, TypeOK, Args
<1> QED BY <1>1, <1>2, <1>3, <1>4, <1>5, <1>6, <1>7, <1>8, <1>9, <1>10, <1>11, <1>12, <1>13,
           <1>14, <1>15, <1>16, <1>17 DEF Next1, Step

\* hash_rehash gives every entry its bucket; entries of different keys stay different.
LEMMA RehashMoves ==
  ASSUME TypeOK, Rehash, IsFiniteSet(table)
  PROVE  /\ IsFiniteSet(table') /\ Cardinality(table') <= Cardinality(table)
         /\ \A e \in table' : \E g \in table : e.key = g.key /\ e.data = g.data
         /\ \A g \in table : \E e \in table' : e.key = g.key /\ e.data = g.data
         /\ (\A e, g \in table : e.key = g.key => e = g) =>
              /\ Cardinality(table') = Cardinality(table)
              /\ \A e, g \in table' : e.key = g.key => e = g
<1>0. Cardinality(table) \in Nat
  BY FS_CardinalityType
<1>1. CASE UNCHANGED table
  BY <1>0, <1>1
<1>2. CASE table' = {[e EXCEPT !.slot = hash_value(e.key, NewSize(entries))] : e \in table}
  <2> DEFINE Moved(e) == [e EXCEPT !.slot = hash_value(e.key, NewSize(entries))]
             F == [e \in table |-> Moved(e)]
  <2>1. \A e \in table : Moved(e).key = e.key /\ Moved(e).data = e.data
    BY DEF TypeOK, Entry
  <2>2. F \in Surjection(table, table')
    BY <1>2 DEF Surjection
  <2>3. IsFiniteSet(table') /\ Cardinality(table') <= Cardinality(table)
    BY <2>2, FS_Surjection
  <2>4. Cardinality(table') = Cardinality(table) <=> F \in Injection(table, table')
    BY <2>2, FS_Surjection
  <2>9. \A e \in table : F[e].key = e.key
    BY <2>1
  <2>10. \A e \in table' : \E x \in table : e = F[x] /\ e.key = x.key
    BY <1>2, <2>1
  <2>7. \A e \in table' : \E g \in table : e.key = g.key /\ e.data = g.data
    BY <1>2, <2>1
  <2>8. \A g \in table : \E e \in table' : e.key = g.key /\ e.data = g.data
    BY <1>2, <2>1
  <2> HIDE DEF F, Moved
  <2>5. ASSUME \A e, g \in table : e.key = g.key => e = g
        PROVE  F \in Injection(table, table')
    <3>1. \A e, g \in table : F[e] = F[g] => e = g
      BY <2>5, <2>9
    <3> QED BY <2>2, <3>1 DEF Injection, IsInjective, Surjection
  <2>6. ASSUME \A e, g \in table : e.key = g.key => e = g
        PROVE  \A e, g \in table' : e.key = g.key => e = g
    BY <2>6, <2>10
  <2> QED BY <2>3, <2>4, <2>5, <2>6, <2>7, <2>8
<1> QED BY <1>1, <1>2 DEF Rehash

\* A new entry was not there before.
LEMMA NewEntry ==
  ASSUME TypeOK, NEW k \in Key, NEW d \in Data, Hits(k) = {}
  PROVE  LET e == [key |-> k, data |-> d, slot |-> hash_value(k, size)]
         IN  e \notin table /\ e.key = k /\ e.data = d /\ e.slot = hash_value(k, size)
BY DEF Hits

\* An entry whose data is replaced keeps its key and its place.
LEMMA Replaced ==
  ASSUME TypeOK, NEW k \in Key, NEW d \in Data, Hits(k) # {}
  PROVE  LET e == [Hit(k) EXCEPT !.data = d]
         IN  e.key = k /\ e.data = d /\ e.slot = Hit(k).slot
<1>1. Hit(k) \in Entry /\ Hit(k).key = k
  BY HitIsEntry
<1> QED BY <1>1 DEF Entry

\* No entry is lost track of.
LEMMA CountedStep == TypeOK /\ Counted /\ Next => Counted'
<1> SUFFICES ASSUME TypeOK /\ Counted, NEW t \in Thread, Next1(t) PROVE Counted'
  BY DEF Next, Next1
<1>1. ASSUME ReadFlags(t) PROVE Counted'
  BY <1>1 DEF ReadFlags, Counted
<1>2. ASSUME ReadEntries(t) PROVE Counted'
  BY <1>2 DEF ReadEntries, Counted
<1>3. ASSUME ReadSize(t) PROVE Counted'
  BY <1>3 DEF ReadSize, Counted
<1>4. ASSUME AutoRehash(t) PROVE Counted'
  <2>1. Rehash /\ entries' = entries
    BY <1>4 DEF AutoRehash
  <2>2. IsFiniteSet(table') /\ Cardinality(table') <= Cardinality(table)
    BY <2>1, RehashMoves DEF Counted
  <2>3. Cardinality(table) \in Nat /\ Cardinality(table') \in Nat /\ entries \in Nat
    BY <2>2, FS_CardinalityType DEF Counted, TypeOK
  <2> QED BY <2>1, <2>2, <2>3 DEF Counted
<1>5. ASSUME CopyKeys(t) PROVE Counted'
  BY <1>5 DEF CopyKeys, Counted
<1>6. ASSUME WriteHashFunc(t) PROVE Counted'
  BY <1>6 DEF WriteHashFunc, Counted
<1>7. ASSUME WriteHighMark(t) PROVE Counted'
  BY <1>7 DEF WriteHighMark, Counted
<1>8. ASSUME WriteLowMark(t) PROVE Counted'
  BY <1>8 DEF WriteLowMark, Counted
<1>9. ASSUME hash_rehash(t) PROVE Counted'
  <2>1. Rehash /\ entries' = entries
    BY <1>9 DEF hash_rehash
  <2>2. IsFiniteSet(table') /\ Cardinality(table') <= Cardinality(table)
    BY <2>1, RehashMoves DEF Counted
  <2>3. Cardinality(table) \in Nat /\ Cardinality(table') \in Nat /\ entries \in Nat
    BY <2>2, FS_CardinalityType DEF Counted, TypeOK
  <2> QED BY <2>1, <2>2, <2>3 DEF Counted
<1>10. ASSUME hash_keys(t) PROVE Counted'
  BY <1>10 DEF hash_keys, Counted
<1>11. ASSUME NEW on \in BOOLEAN, SetFrozen(t, on) PROVE Counted'
  BY <1>11 DEF SetFrozen, Counted
<1>12. ASSUME NEW f \in 1..Len(HashFunc), hash_sethashfunction(t, f) PROVE Counted'
  BY <1>12 DEF hash_sethashfunction, Counted
<1>13. ASSUME NEW l \in Marks \cup {0}, NEW h \in Marks \cup {0}, hash_setthresholds(t, l, h) PROVE Counted'
  BY <1>13 DEF hash_setthresholds, Outdates, Counted
<1>14. ASSUME NEW k \in Key, hash_find(t, k) PROVE Counted'
  BY <1>14 DEF hash_find, Counted
<1>15. ASSUME NEW k \in Key, hash_delete(t, k) PROVE Counted'
  <2>0. Cardinality(table) \in Nat /\ entries \in Nat
    BY FS_CardinalityType DEF Counted, TypeOK
  <2>1. CASE Hits(k) = {}
    BY <1>15, <2>1 DEF hash_delete, Counted
  <2>2. CASE Hits(k) # {}
    <3>1. Hit(k) \in table /\ table' = table \ {Hit(k)} /\ entries' = entries - 1
      BY <1>15, <2>2, HitIsEntry DEF hash_delete
    <3>2. IsFiniteSet(table') /\ Cardinality(table') = Cardinality(table) - 1
      BY <3>1, FS_RemoveElement DEF Counted
    <3> QED BY <2>0, <3>1, <3>2 DEF Counted
  <2> QED BY <2>1, <2>2
<1>16. ASSUME NEW k \in Key, NEW d \in Data, hash_search(t, k, d) PROVE Counted'
  <2>0. Cardinality(table) \in Nat /\ entries \in Nat
    BY FS_CardinalityType DEF Counted, TypeOK
  <2>1. CASE Hits(k) = {}
    <3> DEFINE e == [key |-> k, data |-> d, slot |-> hash_value(k, size)]
    <3>1. e \notin table /\ table' = table \cup {e} /\ entries' = entries + 1
      BY <1>16, <2>1, NewEntry DEF hash_search, hash_addentry
    <3> HIDE DEF e
    <3>2. IsFiniteSet(table') /\ Cardinality(table') = Cardinality(table) + 1
      BY <3>1, FS_AddElement DEF Counted
    <3> QED BY <2>0, <3>1, <3>2 DEF Counted
  <2>2. CASE Hits(k) # {}
    BY <1>16, <2>2 DEF hash_search, Counted
  <2> QED BY <2>1, <2>2
<1>17. ASSUME NEW k \in Key, NEW d \in Data, hash_replace(t, k, d) PROVE Counted'
  <2>0. Cardinality(table) \in Nat /\ entries \in Nat
    BY FS_CardinalityType DEF Counted, TypeOK
  <2>1. CASE Hits(k) = {}
    <3> DEFINE e == [key |-> k, data |-> d, slot |-> hash_value(k, size)]
    <3>1. e \notin table /\ table' = table \cup {e} /\ entries' = entries + 1
      BY <1>17, <2>1, NewEntry DEF hash_replace, hash_addentry
    <3> HIDE DEF e
    <3>2. IsFiniteSet(table') /\ Cardinality(table') = Cardinality(table) + 1
      BY <3>1, FS_AddElement DEF Counted
    <3> QED BY <2>0, <3>1, <3>2 DEF Counted
  <2>2. CASE Hits(k) # {}
    <3> DEFINE e == [Hit(k) EXCEPT !.data = d]
    <3>1. Hit(k) \in table /\ table' = (table \ {Hit(k)}) \cup {e} /\ entries' = entries
      BY <1>17, <2>2, HitIsEntry DEF hash_replace
    <3> HIDE DEF e
    <3>2. IsFiniteSet(table \ {Hit(k)}) /\ Cardinality(table \ {Hit(k)}) = Cardinality(table) - 1
      BY <3>1, FS_RemoveElement DEF Counted
    <3>3. IsFiniteSet(table') /\ Cardinality(table') <= Cardinality(table)
      <4>1. /\ IsFiniteSet((table \ {Hit(k)}) \cup {e})
            /\ Cardinality((table \ {Hit(k)}) \cup {e}) =
                 IF e \in table \ {Hit(k)} THEN Cardinality(table \ {Hit(k)})
                                           ELSE Cardinality(table \ {Hit(k)}) + 1
        BY <3>2, FS_AddElement
      <4> QED BY <2>0, <3>1, <3>2, <4>1
    <3> QED BY <2>0, <3>1, <3>3, FS_CardinalityType DEF Counted
  <2> QED BY <2>1, <2>2
<1> QED BY <1>1, <1>2, <1>3, <1>4, <1>5, <1>6, <1>7, <1>8, <1>9, <1>10, <1>11, <1>12, <1>13,
           <1>14, <1>15, <1>16, <1>17 DEF Next1, Step

\* While a setter is about to replace the hash function the table stays empty.
LEMMA ReplaceableStep == TypeOK /\ Counted /\ Replaceable /\ Next => Replaceable'
<1> SUFFICES ASSUME TypeOK /\ Counted /\ Replaceable, NEW t \in Thread, Next1(t) PROVE Replaceable'
  BY DEF Next, Next1
<1>1. ASSUME ReadFlags(t) PROVE Replaceable'
  BY <1>1 DEF ReadFlags, Replaceable, Setting, TypeOK
<1>2. ASSUME ReadEntries(t) PROVE Replaceable'
  BY <1>2 DEF ReadEntries, Replaceable, Setting, TypeOK
<1>3. ASSUME ReadSize(t) PROVE Replaceable'
  BY <1>3 DEF ReadSize, Replaceable, Setting, TypeOK
<1>4. ASSUME AutoRehash(t) PROVE Replaceable'
  BY <1>4 DEF AutoRehash, Rehash, Replaceable, Setting, TypeOK
<1>5. ASSUME CopyKeys(t) PROVE Replaceable'
  BY <1>5 DEF CopyKeys, Replaceable, Setting, TypeOK
<1>6. ASSUME WriteHashFunc(t) PROVE Replaceable'
  BY <1>6 DEF WriteHashFunc, Replaceable, Setting, TypeOK
<1>7. ASSUME WriteHighMark(t) PROVE Replaceable'
  BY <1>7 DEF WriteHighMark, Replaceable, Setting, TypeOK
<1>8. ASSUME WriteLowMark(t) PROVE Replaceable'
  BY <1>8 DEF WriteLowMark, Replaceable, Setting, TypeOK
<1>9. ASSUME hash_rehash(t) PROVE Replaceable'
  BY <1>9 DEF hash_rehash, Rehash, Replaceable, Setting, TypeOK
<1>10. ASSUME hash_keys(t) PROVE Replaceable'
  BY <1>10 DEF hash_keys, Replaceable, Setting, TypeOK
<1>11. ASSUME NEW on \in BOOLEAN, SetFrozen(t, on) PROVE Replaceable'
  BY <1>11 DEF SetFrozen, Replaceable, Setting, TypeOK
<1>12. ASSUME NEW f \in 1..Len(HashFunc), hash_sethashfunction(t, f) PROVE Replaceable'
  <2>1. entries = 0 => table = {}
    <3> SUFFICES ASSUME entries = 0 PROVE table = {}
      OBVIOUS
    <3>1. Cardinality(table) \in Nat /\ Cardinality(table) <= 0
      BY FS_CardinalityType DEF Counted
    <3> QED BY <3>1, FS_EmptySet DEF Counted
  <2> QED BY <1>12, <2>1 DEF hash_sethashfunction, Replaceable, Setting, TypeOK
<1>13. ASSUME NEW l \in Marks \cup {0}, NEW h \in Marks \cup {0}, hash_setthresholds(t, l, h) PROVE Replaceable'
  BY <1>13 DEF hash_setthresholds, Outdates, Replaceable, Setting, TypeOK
<1>14. ASSUME NEW k \in Key, hash_find(t, k) PROVE Replaceable'
  BY <1>14 DEF hash_find, Replaceable, Setting, TypeOK
<1>15. ASSUME NEW k \in Key, hash_delete(t, k) PROVE Replaceable'
  BY <1>15 DEF hash_delete, DecideResize, Replaceable, Setting, TypeOK
<1>16. ASSUME NEW k \in Key, NEW d \in Data, hash_search(t, k, d) PROVE Replaceable'
  <2>1. CASE Hits(k) = {}
BY <1>16, <2>1
DEF hash_search, hash_addentry, Outdates, Replaceable, Setting, DecideResize, TypeOK
  <2>2. CASE Hits(k) # {}
    <3>1. table # {}
      BY <2>2, HitIsEntry
    <3> QED BY <1>16, <2>2, <3>1 DEF hash_search, Replaceable, Setting
  <2> QED BY <2>1, <2>2
<1>17. ASSUME NEW k \in Key, NEW d \in Data, hash_replace(t, k, d) PROVE Replaceable'
  <2>1. CASE Hits(k) = {}
BY <1>17, <2>1
DEF hash_replace, hash_addentry, Outdates, Replaceable, Setting, DecideResize, TypeOK
  <2>2. CASE Hits(k) # {}
    <3>1. table # {}
      BY <2>2, HitIsEntry
    <3> QED BY <1>17, <2>2, <3>1 DEF hash_replace, Replaceable, Setting
  <2> QED BY <2>1, <2>2
<1> QED BY <1>1, <1>2, <1>3, <1>4, <1>5, <1>6, <1>7, <1>8, <1>9, <1>10, <1>11, <1>12, <1>13,
           <1>14, <1>15, <1>16, <1>17 DEF Next1, Step

\* Every entry stays where a lookup searches for it.
LEMMA PlacedStep == TypeOK /\ Replaceable /\ Placed /\ Next => Placed'
<1> SUFFICES ASSUME TypeOK /\ Replaceable /\ Placed, NEW t \in Thread, Next1(t) PROVE Placed'
  BY DEF Next, Next1
<1>1. ASSUME ReadFlags(t) PROVE Placed'
  BY <1>1 DEF ReadFlags, Placed, hash_value
<1>2. ASSUME ReadEntries(t) PROVE Placed'
  BY <1>2 DEF ReadEntries, Placed, hash_value
<1>3. ASSUME ReadSize(t) PROVE Placed'
  BY <1>3 DEF ReadSize, Placed, hash_value
<1>4. ASSUME AutoRehash(t) PROVE Placed'
  <2>1. Rehash /\ UNCHANGED <<func, raced>>
    BY <1>4 DEF AutoRehash
  <2>2. CASE UNCHANGED <<size, table>>
    BY <2>1, <2>2 DEF Placed, hash_value
  <2>3. CASE /\ size' = NewSize(entries)
             /\ table' = {[e EXCEPT !.slot = hash_value(e.key, NewSize(entries))] : e \in table}
    <3>1. \A e \in table' : e.slot = hash_value(e.key, NewSize(entries))
      BY <2>3 DEF TypeOK, Entry
    <3> QED BY <2>1, <2>3, <3>1 DEF Placed, hash_value
  <2> QED BY <2>1, <2>2, <2>3 DEF Rehash
<1>5. ASSUME CopyKeys(t) PROVE Placed'
  BY <1>5 DEF CopyKeys, Placed, hash_value
<1>6. ASSUME WriteHashFunc(t) PROVE Placed'
  <2>1. "hash_func" \notin raced => table = {}
    BY <1>6 DEF WriteHashFunc, Replaceable, Setting
  <2> QED BY <1>6, <2>1 DEF WriteHashFunc, Placed
<1>7. ASSUME WriteHighMark(t) PROVE Placed'
  BY <1>7 DEF WriteHighMark, Placed, hash_value
<1>8. ASSUME WriteLowMark(t) PROVE Placed'
  BY <1>8 DEF WriteLowMark, Placed, hash_value
<1>9. ASSUME hash_rehash(t) PROVE Placed'
  <2>1. Rehash /\ UNCHANGED <<func, raced>>
    BY <1>9 DEF hash_rehash
  <2>2. CASE UNCHANGED <<size, table>>
    BY <2>1, <2>2 DEF Placed, hash_value
  <2>3. CASE /\ size' = NewSize(entries)
             /\ table' = {[e EXCEPT !.slot = hash_value(e.key, NewSize(entries))] : e \in table}
    <3>1. \A e \in table' : e.slot = hash_value(e.key, NewSize(entries))
      BY <2>3 DEF TypeOK, Entry
    <3> QED BY <2>1, <2>3, <3>1 DEF Placed, hash_value
  <2> QED BY <2>1, <2>2, <2>3 DEF Rehash
<1>10. ASSUME hash_keys(t) PROVE Placed'
  BY <1>10 DEF hash_keys, Placed, hash_value
<1>11. ASSUME NEW on \in BOOLEAN, SetFrozen(t, on) PROVE Placed'
  BY <1>11 DEF SetFrozen, Placed, hash_value
<1>12. ASSUME NEW f \in 1..Len(HashFunc), hash_sethashfunction(t, f) PROVE Placed'
  BY <1>12 DEF hash_sethashfunction, Placed, hash_value
<1>13. ASSUME NEW l \in Marks \cup {0}, NEW h \in Marks \cup {0}, hash_setthresholds(t, l, h) PROVE Placed'
  BY <1>13 DEF hash_setthresholds, Outdates, Placed, hash_value
<1>14. ASSUME NEW k \in Key, hash_find(t, k) PROVE Placed'
  BY <1>14 DEF hash_find, Placed, hash_value
<1>15. ASSUME NEW k \in Key, hash_delete(t, k) PROVE Placed'
  BY <1>15 DEF hash_delete, Placed, hash_value
<1>16. ASSUME NEW k \in Key, NEW d \in Data, hash_search(t, k, d) PROVE Placed'
  <2>1. CASE Hits(k) = {}
    BY <1>16, <2>1, NewEntry DEF hash_search, hash_addentry, Outdates, Placed, hash_value
  <2>2. CASE Hits(k) # {}
    BY <1>16, <2>2, HitIsEntry, Replaced DEF hash_search, Placed, hash_value
  <2> QED BY <2>1, <2>2
<1>17. ASSUME NEW k \in Key, NEW d \in Data, hash_replace(t, k, d) PROVE Placed'
  <2>1. CASE Hits(k) = {}
    BY <1>17, <2>1, NewEntry DEF hash_replace, hash_addentry, Outdates, Placed, hash_value
  <2>2. CASE Hits(k) # {}
    <3> DEFINE e == [Hit(k) EXCEPT !.data = d]
    <3>1. e.key = k /\ e.slot = hash_value(k, size)
      BY <2>2, HitIsEntry, Replaced
    <3> HIDE DEF e
    <3>2. /\ table' = (table \ {Hit(k)}) \cup {e}
          /\ UNCHANGED <<size, func, raced>>
      BY <1>17, <2>2 DEF hash_replace, e
    <3> QED BY <3>1, <3>2 DEF Placed, hash_value
  <2> QED BY <2>1, <2>2
<1> QED BY <1>1, <1>2, <1>3, <1>4, <1>5, <1>6, <1>7, <1>8, <1>9, <1>10, <1>11, <1>12, <1>13,
           <1>14, <1>15, <1>16, <1>17 DEF Next1, Step

\* ht->entries counts the entries, and no step adds a key that is there.
LEMMA EntriesExactStep == TypeOK /\ Counted /\ Replaceable /\ Placed /\ EntriesExact /\ Next => EntriesExact'
<1> SUFFICES ASSUME TypeOK /\ Counted /\ Replaceable /\ Placed /\ EntriesExact,
                    NEW t \in Thread, Next1(t)
             PROVE  EntriesExact'
  BY DEF Next, Next1
<1>1. ASSUME ReadFlags(t) PROVE EntriesExact'
  BY <1>1 DEF ReadFlags, EntriesExact
<1>2. ASSUME ReadEntries(t) PROVE EntriesExact'
  BY <1>2 DEF ReadEntries, EntriesExact
<1>3. ASSUME ReadSize(t) PROVE EntriesExact'
  BY <1>3 DEF ReadSize, EntriesExact
<1>4. ASSUME AutoRehash(t) PROVE EntriesExact'
  <2>1. Rehash /\ UNCHANGED <<entries, raced>>
    BY <1>4 DEF AutoRehash
  <2> QED BY <2>1, RehashMoves DEF Counted, EntriesExact
<1>5. ASSUME CopyKeys(t) PROVE EntriesExact'
  BY <1>5 DEF CopyKeys, EntriesExact
<1>6. ASSUME WriteHashFunc(t) PROVE EntriesExact'
  BY <1>6 DEF WriteHashFunc, EntriesExact
<1>7. ASSUME WriteHighMark(t) PROVE EntriesExact'
  BY <1>7 DEF WriteHighMark, EntriesExact
<1>8. ASSUME WriteLowMark(t) PROVE EntriesExact'
  BY <1>8 DEF WriteLowMark, EntriesExact
<1>9. ASSUME hash_rehash(t) PROVE EntriesExact'
  <2>1. Rehash /\ UNCHANGED <<entries, raced>>
    BY <1>9 DEF hash_rehash
  <2> QED BY <2>1, RehashMoves DEF Counted, EntriesExact
<1>10. ASSUME hash_keys(t) PROVE EntriesExact'
  BY <1>10 DEF hash_keys, EntriesExact
<1>11. ASSUME NEW on \in BOOLEAN, SetFrozen(t, on) PROVE EntriesExact'
  BY <1>11 DEF SetFrozen, EntriesExact
<1>12. ASSUME NEW f \in 1..Len(HashFunc), hash_sethashfunction(t, f) PROVE EntriesExact'
  BY <1>12 DEF hash_sethashfunction, EntriesExact
<1>13. ASSUME NEW l \in Marks \cup {0}, NEW h \in Marks \cup {0}, hash_setthresholds(t, l, h) PROVE EntriesExact'
  BY <1>13 DEF hash_setthresholds, Outdates, EntriesExact
<1>14. ASSUME NEW k \in Key, hash_find(t, k) PROVE EntriesExact'
  BY <1>14 DEF hash_find, EntriesExact
<1>15. ASSUME NEW k \in Key, hash_delete(t, k) PROVE EntriesExact'
  <2>0. Cardinality(table) \in Nat /\ IsFiniteSet(table)
    BY FS_CardinalityType DEF Counted
  <2>1. CASE Hits(k) = {}
    BY <1>15, <2>1 DEF hash_delete, EntriesExact
  <2>2. CASE Hits(k) # {}
    <3>1. Hit(k) \in table /\ table' = table \ {Hit(k)} /\ entries' = entries - 1 /\ raced' = raced
      BY <1>15, <2>2, HitIsEntry DEF hash_delete
    <3>2. Cardinality(table') = Cardinality(table) - 1
      BY <2>0, <3>1, FS_RemoveElement
    <3> QED BY <3>1, <3>2 DEF EntriesExact
  <2> QED BY <2>1, <2>2
<1>16. ASSUME NEW k \in Key, NEW d \in Data, hash_search(t, k, d) PROVE EntriesExact'
  <2>0. Cardinality(table) \in Nat /\ IsFiniteSet(table)
    BY FS_CardinalityType DEF Counted
  <2>1. CASE Hits(k) = {}
    <3> DEFINE e == [key |-> k, data |-> d, slot |-> hash_value(k, size)]
    <3>1. e \notin table /\ e.key = k
      BY <2>1, NewEntry
    <3>2. table' = table \cup {e} /\ entries' = entries + 1 /\ raced \subseteq raced'
      BY <1>16, <2>1 DEF hash_search, hash_addentry, Outdates
    <3>3. "hash_func" \notin raced => \A g \in table : g.key # k
      BY <2>1 DEF Hits, Placed
    <3> HIDE DEF e
    <3>4. Cardinality(table') = Cardinality(table) + 1
      BY <2>0, <3>1, <3>2, FS_AddElement
    <3> QED BY <3>1, <3>2, <3>3, <3>4 DEF EntriesExact
  <2>2. CASE Hits(k) # {}
    BY <1>16, <2>2 DEF hash_search, EntriesExact
  <2> QED BY <2>1, <2>2
<1>17. ASSUME NEW k \in Key, NEW d \in Data, hash_replace(t, k, d) PROVE EntriesExact'
  <2>0. Cardinality(table) \in Nat /\ IsFiniteSet(table)
    BY FS_CardinalityType DEF Counted
  <2>1. CASE Hits(k) = {}
    <3> DEFINE e == [key |-> k, data |-> d, slot |-> hash_value(k, size)]
    <3>1. e \notin table /\ e.key = k
      BY <2>1, NewEntry
    <3>2. table' = table \cup {e} /\ entries' = entries + 1 /\ raced \subseteq raced'
      BY <1>17, <2>1 DEF hash_replace, hash_addentry, Outdates
    <3>3. "hash_func" \notin raced => \A g \in table : g.key # k
      BY <2>1 DEF Hits, Placed
    <3> HIDE DEF e
    <3>4. Cardinality(table') = Cardinality(table) + 1
      BY <2>0, <3>1, <3>2, FS_AddElement
    <3> QED BY <3>1, <3>2, <3>3, <3>4 DEF EntriesExact
  <2>2. CASE Hits(k) # {}
    <3> DEFINE e == [Hit(k) EXCEPT !.data = d]
               rest == table \ {Hit(k)}
    <3>1. Hit(k) \in table /\ Hit(k).key = k /\ e.key = k
      BY <2>2, HitIsEntry, Replaced
    <3>2. table' = rest \cup {e} /\ UNCHANGED <<entries, raced>>
      BY <1>17, <2>2 DEF hash_replace
    <3> SUFFICES ASSUME "hash_func" \notin raced
                 PROVE  EntriesExact'
      BY <3>2 DEF EntriesExact
    <3>3. \A g \in rest : g.key # k
      BY <3>1 DEF EntriesExact
    <3>4. IsFiniteSet(rest) /\ Cardinality(rest) = Cardinality(table) - 1
      BY <2>0, <3>1, FS_RemoveElement
    <3> HIDE DEF e
    <3>5. e \notin rest
      BY <3>1, <3>3
    <3>6. Cardinality(rest \cup {e}) = Cardinality(rest) + 1
      BY <3>4, <3>5, FS_AddElement
    <3>7. Cardinality(table') = Cardinality(table)
      BY <2>0, <3>2, <3>4, <3>6
    <3>8. \A x, y \in table' : x.key = y.key => x = y
      BY <3>1, <3>2, <3>3 DEF EntriesExact
    <3> QED BY <3>2, <3>7, <3>8 DEF EntriesExact
  <2> QED BY <2>1, <2>2
<1> QED BY <1>1, <1>2, <1>3, <1>4, <1>5, <1>6, <1>7, <1>8, <1>9, <1>10, <1>11, <1>12, <1>13,
           <1>14, <1>15, <1>16, <1>17 DEF Next1, Step

\* A hash_setthresholds that no other overlaps writes the marks in order.
LEMMA MarksWrittenStep == TypeOK /\ Args /\ MarksWritten /\ Next => MarksWritten'
<1> SUFFICES ASSUME TypeOK /\ Args /\ MarksWritten, NEW t \in Thread, Next1(t) PROVE MarksWritten'
  BY DEF Next, Next1
<1>1. ASSUME ReadFlags(t) PROVE MarksWritten'
  BY <1>1 DEF ReadFlags, MarksWritten, Setting, TypeOK
<1>2. ASSUME ReadEntries(t) PROVE MarksWritten'
  BY <1>2 DEF ReadEntries, MarksWritten, Setting, TypeOK
<1>3. ASSUME ReadSize(t) PROVE MarksWritten'
  BY <1>3 DEF ReadSize, MarksWritten, Setting, TypeOK
<1>4. ASSUME AutoRehash(t) PROVE MarksWritten'
  BY <1>4 DEF AutoRehash, MarksWritten, Setting, TypeOK
<1>5. ASSUME CopyKeys(t) PROVE MarksWritten'
  BY <1>5 DEF CopyKeys, MarksWritten, Setting, TypeOK
<1>6. ASSUME WriteHashFunc(t) PROVE MarksWritten'
  BY <1>6 DEF WriteHashFunc, MarksWritten, Setting, TypeOK
<1>7. ASSUME WriteHighMark(t) PROVE MarksWritten'
  <2>1. /\ pc[t] = "high_mark" /\ pc' = [pc EXCEPT ![t] = "low_mark"]
        /\ high_mark' = arg[t][2] /\ UNCHANGED <<low_mark, arg, raced>>
    BY <1>7 DEF WriteHighMark
  <2>2. Setting({"high_mark", "low_mark"})'
    BY <2>1 DEF Setting, TypeOK
  <2> QED BY <2>1, <2>2 DEF MarksWritten, TypeOK
<1>8. ASSUME WriteLowMark(t) PROVE MarksWritten'
  <2>1. /\ pc[t] = "low_mark" /\ pc' = [pc EXCEPT ![t] = "idle"]
        /\ low_mark' = arg[t][1] /\ UNCHANGED <<high_mark, raced>>
        /\ \A u \in Thread \ {t} : arg'[u] = arg[u]
    BY <1>8 DEF WriteLowMark, TypeOK
  <2>2. PICK l, h \in 1..20 : arg[t] = <<l, h>> /\ l <= h
    BY <2>1 DEF Args
  <2>3. \A u \in Thread \ {t} : pc'[u] = pc[u]
    BY <2>1 DEF TypeOK
  <2>4. pc'[t] = "idle"
    BY <2>1 DEF TypeOK
  <2> QED BY <2>1, <2>2, <2>3, <2>4 DEF MarksWritten
<1>9. ASSUME hash_rehash(t) PROVE MarksWritten'
  BY <1>9 DEF hash_rehash, Calling, MarksWritten, Setting, TypeOK
<1>10. ASSUME hash_keys(t) PROVE MarksWritten'
  <2>1. /\ pc[t] = "idle" /\ pc'[t] \notin {"high_mark", "low_mark"}
        /\ \A u \in Thread \ {t} : pc'[u] = pc[u] /\ arg'[u] = arg[u]
        /\ UNCHANGED <<low_mark, high_mark, raced>>
    BY <1>10 DEF hash_keys, Calling, TypeOK
  <2> QED BY <2>1 DEF MarksWritten, Setting
<1>11. ASSUME NEW on \in BOOLEAN, SetFrozen(t, on) PROVE MarksWritten'
  BY <1>11 DEF SetFrozen, Calling, MarksWritten, Setting, TypeOK
<1>12. ASSUME NEW f \in 1..Len(HashFunc), hash_sethashfunction(t, f) PROVE MarksWritten'
  <2>1. /\ pc[t] = "idle" /\ pc'[t] \notin {"high_mark", "low_mark"}
        /\ \A u \in Thread \ {t} : pc'[u] = pc[u] /\ arg'[u] = arg[u]
        /\ UNCHANGED <<low_mark, high_mark, raced>>
    BY <1>12 DEF hash_sethashfunction, Calling, TypeOK
  <2> QED BY <2>1 DEF MarksWritten, Setting
<1>13. ASSUME NEW l \in Marks \cup {0}, NEW h \in Marks \cup {0}, hash_setthresholds(t, l, h) PROVE MarksWritten'
  <2>1. CASE BadMarks(l, h)
    BY <1>13, <2>1 DEF hash_setthresholds, MarksWritten, Setting
  <2>2. CASE ~BadMarks(l, h)
    <3>1. /\ pc' = [pc EXCEPT ![t] = "high_mark"] /\ UNCHANGED <<low_mark, high_mark>>
          /\ \A u \in Thread \ {t} : arg'[u] = arg[u]
          /\ Outdates("marks", {"high_mark", "low_mark"})
      BY <1>13, <2>2 DEF hash_setthresholds, TypeOK
    <3> QED BY <3>1 DEF MarksWritten, Outdates, Setting, TypeOK
  <2> QED BY <2>1, <2>2
<1>14. ASSUME NEW k \in Key, hash_find(t, k) PROVE MarksWritten'
  BY <1>14 DEF hash_find, Calling, MarksWritten, Setting, TypeOK
<1>15. ASSUME NEW k \in Key, hash_delete(t, k) PROVE MarksWritten'
  <2>1. /\ pc[t] = "idle" /\ pc'[t] \notin {"high_mark", "low_mark"}
        /\ \A u \in Thread \ {t} : pc'[u] = pc[u] /\ arg'[u] = arg[u]
        /\ UNCHANGED <<low_mark, high_mark, raced>>
    BY <1>15 DEF hash_delete, Calling, DecideResize, TypeOK
  <2> QED BY <2>1 DEF MarksWritten, Setting
<1>16. ASSUME NEW k \in Key, NEW d \in Data, hash_search(t, k, d) PROVE MarksWritten'
BY <1>16
DEF hash_search, Calling, DecideResize, hash_addentry, Outdates, MarksWritten, Setting, TypeOK
<1>17. ASSUME NEW k \in Key, NEW d \in Data, hash_replace(t, k, d) PROVE MarksWritten'
BY <1>17
DEF hash_replace, Calling, DecideResize, hash_addentry, Outdates, MarksWritten, Setting, TypeOK
<1> QED BY <1>1, <1>2, <1>3, <1>4, <1>5, <1>6, <1>7, <1>8, <1>9, <1>10, <1>11, <1>12, <1>13,
           <1>14, <1>15, <1>16, <1>17 DEF Next1, Step

\* A load over high_mark is never left to nobody.
LEMMA LoadStep == TypeOK /\ Load /\ Next => Load'
<1> SUFFICES ASSUME TypeOK /\ Load, NEW t \in Thread, Next1(t) PROVE Load'
  BY DEF Next, Next1
<1>1. ASSUME ReadFlags(t) PROVE Load'
  <2>1. \A u \in Thread \ {t} : WillResize(u) => WillResize(u)'
    BY <1>1 DEF ReadFlags, WillResize, TypeOK
  <2>2. ~tuned /\ WillResize(t) => WillResize(t)'
    BY <1>1 DEF ReadFlags, WillResize, Load, TypeOK
  <2> QED BY <1>1, <2>1, <2>2 DEF ReadFlags, Load, Setting, TypeOK
<1>2. ASSUME ReadEntries(t) PROVE Load'
  <2>1. \A u \in Thread \ {t} : WillResize(u) => WillResize(u)'
    BY <1>2 DEF ReadEntries, WillResize, TypeOK
  <2>2. entries \in Nat
    BY DEF TypeOK
  <2>3. WillResize(t) => WillResize(t)'
    BY <1>2, <2>2 DEF ReadEntries, WillResize, TypeOK
  <2> QED BY <1>2, <2>1, <2>3 DEF ReadEntries, Load, Setting, TypeOK
<1>3. ASSUME ReadSize(t) PROVE Load'
  <2>1. \A u \in Thread \ {t} : WillResize(u) => WillResize(u)'
    BY <1>3 DEF ReadSize, WillResize, TypeOK
  <2>2. entries \in Nat /\ seen[t] \in Nat /\ size \in Nat
    BY SizesType DEF TypeOK
  <2>3. ~tuned /\ WillResize(t) => WillResize(t)' \/ 20 * entries <= 14 * size
    BY <1>3, <2>2 DEF ReadSize, WillResize, Load, OverMark, TypeOK
  <2> QED BY <1>3, <2>1, <2>3 DEF ReadSize, Load, Setting, TypeOK
<1>4. ASSUME AutoRehash(t) PROVE Load'
  <2>1. Rehash /\ UNCHANGED <<entries, frozen, tuned, low_mark, high_mark>>
    BY <1>4 DEF AutoRehash
  <2>2. size' = NewSize(entries)
    BY <2>1 DEF Rehash
  <2>3. ~tuned => 20 * entries <= 14 * size'
    <3>1. ~tuned => NewSize(entries) >= 2 * entries
      BY NewSizeFits DEF Load
    <3>2. entries \in Nat /\ NewSize(entries) \in Nat
      BY NewSizeFits, SizesType DEF TypeOK
    <3> QED BY <2>2, <3>1, <3>2
  <2> QED BY <1>4, <2>1, <2>3 DEF AutoRehash, Load, Setting, TypeOK
<1>5. ASSUME CopyKeys(t) PROVE Load'
  BY <1>5 DEF CopyKeys, Load, Setting, WillResize, TypeOK
<1>6. ASSUME WriteHashFunc(t) PROVE Load'
  BY <1>6 DEF WriteHashFunc, Load, Setting, WillResize, TypeOK
<1>7. ASSUME WriteHighMark(t) PROVE Load'
  BY <1>7 DEF WriteHighMark, Load, Setting, WillResize, TypeOK
<1>8. ASSUME WriteLowMark(t) PROVE Load'
  BY <1>8 DEF WriteLowMark, Load, Setting, WillResize, TypeOK
<1>9. ASSUME hash_rehash(t) PROVE Load'
  <2>1. Rehash /\ UNCHANGED <<entries, frozen, tuned, low_mark, high_mark>>
    BY <1>9 DEF hash_rehash
  <2>2. size' = NewSize(entries)
    BY <2>1 DEF Rehash
  <2>3. ~tuned => 20 * entries <= 14 * size'
    <3>1. ~tuned => NewSize(entries) >= 2 * entries
      BY NewSizeFits DEF Load
    <3>2. entries \in Nat /\ NewSize(entries) \in Nat
      BY NewSizeFits, SizesType DEF TypeOK
    <3> QED BY <2>2, <3>1, <3>2
  <2> QED BY <1>9, <2>1, <2>3 DEF hash_rehash, Load, Setting, TypeOK
<1>10. ASSUME hash_keys(t) PROVE Load'
  BY <1>10 DEF hash_keys, Calling, Load, Setting, WillResize, TypeOK
<1>11. ASSUME NEW on \in BOOLEAN, SetFrozen(t, on) PROVE Load'
  BY <1>11 DEF SetFrozen, Calling, Load, Setting, WillResize, TypeOK
<1>12. ASSUME NEW f \in 1..Len(HashFunc), hash_sethashfunction(t, f) PROVE Load'
  BY <1>12 DEF hash_sethashfunction, Calling, Load, Setting, WillResize, TypeOK
<1>13. ASSUME NEW l \in Marks \cup {0}, NEW h \in Marks \cup {0}, hash_setthresholds(t, l, h) PROVE Load'
  BY <1>13 DEF hash_setthresholds, Load
<1>14. ASSUME NEW k \in Key, hash_find(t, k) PROVE Load'
  BY <1>14 DEF hash_find, Calling, Load, Setting, WillResize, TypeOK
<1>15. ASSUME NEW k \in Key, hash_delete(t, k) PROVE Load'
  <2>0. entries \in Nat /\ size \in Nat /\ \A u \in Thread : seen[u] \in Nat
    BY SizesType DEF TypeOK
  <2>1. entries' = entries \/ entries' = entries - 1
    BY <1>15, <2>0 DEF hash_delete
  <2>2. pc[t] = "idle"
    BY <1>15 DEF hash_delete, Calling
  <2>3. \A u \in Thread : WillResize(u) => WillResize(u)'
    BY <1>15, <2>0, <2>1, <2>2 DEF hash_delete, DecideResize, WillResize, TypeOK
  <2>4. 20 * entries <= 14 * size => 20 * entries' <= 14 * size
    BY <2>0, <2>1
  <2> QED BY <1>15, <2>3, <2>4 DEF hash_delete, DecideResize, Load, Setting, TypeOK
<1>16. ASSUME NEW k \in Key, NEW d \in Data, hash_search(t, k, d) PROVE Load'
  <2>1. CASE Hits(k) = {}
    <3>1. /\ pc' = [pc EXCEPT ![t] = "flags"] /\ mark' = [mark EXCEPT ![t] = "high"]
          /\ UNCHANGED <<frozen, tuned, low_mark, high_mark, size>>
      BY <1>16, <2>1 DEF hash_search, DecideResize
    <3>2. WillResize(t)'
      BY <3>1 DEF WillResize, TypeOK
    <3> QED BY <3>1, <3>2 DEF Load, Setting, TypeOK
  <2>2. CASE Hits(k) # {}
    BY <1>16, <2>2 DEF hash_search, Load, Setting, WillResize
  <2> QED BY <2>1, <2>2
<1>17. ASSUME NEW k \in Key, NEW d \in Data, hash_replace(t, k, d) PROVE Load'
  <2>1. CASE Hits(k) = {}
    <3>1. /\ pc' = [pc EXCEPT ![t] = "flags"] /\ mark' = [mark EXCEPT ![t] = "high"]
          /\ UNCHANGED <<frozen, tuned, low_mark, high_mark, size>>
      BY <1>17, <2>1 DEF hash_replace, DecideResize
    <3>2. WillResize(t)'
      BY <3>1 DEF WillResize, TypeOK
    <3> QED BY <3>1, <3>2 DEF Load, Setting, TypeOK
  <2>2. CASE Hits(k) # {}
    BY <1>17, <2>2 DEF hash_replace, Load, Setting, WillResize
  <2> QED BY <2>1, <2>2
<1> QED BY <1>1, <1>2, <1>3, <1>4, <1>5, <1>6, <1>7, <1>8, <1>9, <1>10, <1>11, <1>12, <1>13,
           <1>14, <1>15, <1>16, <1>17 DEF Next1, Step

-----------------------------------------------------------------------------
(* The theorems *)

\* The inductive invariant.
IInv ==
  /\ TypeOK /\ Args /\ Counted
  /\ Replaceable /\ Placed /\ EntriesExact
  /\ MarksWritten
  /\ Load

\* The invariant holds in every reachable state.
THEOREM Invariance == Spec => []IInv
<1>1. Init => IInv
  <2> SUFFICES ASSUME Init PROVE IInv
    OBVIOUS
  <2>1. TypeOK
    <3>1. hash_size(InitSize) \in Sizes
      BY SizesSuffice, SizeSuffices
    <3>2. 1 \in 1..Len(HashFunc)
      BY HashFuncType
    <3>3. <<>> \in Seq(Nat)
      OBVIOUS
    <3>4. 0 \in 0..MaxEntries /\ MaxCalls \in 0..MaxCalls
      BY SizesSuffice, MaxCallsNat
    <3>5. size \in Sizes /\ entries \in 0..MaxEntries /\ table \in SUBSET Entry /\ func \in 1..Len(HashFunc)
      BY <3>1, <3>2, <3>4 DEF Init
    <3>6. arg \in [Thread -> Seq(Nat)] /\ left \in [Thread -> 0..MaxCalls]
      BY <3>3, <3>4 DEF Init
    <3>7. pc \in [Thread -> {"idle", "flags", "entries", "size", "rehash", "keys", "hash_func",
                             "high_mark", "low_mark"}]
          /\ mark \in [Thread -> {"high", "low"}] /\ seen \in [Thread -> Nat]
      BY DEF Init
    <3>8. frozen \in BOOLEAN /\ tuned \in BOOLEAN
      BY DEF Init
    <3>9. low_mark \in 1..20 /\ high_mark \in 1..20 /\ raced \subseteq {"hash_func", "marks"}
      BY DEF Init
    <3> QED BY <3>5, <3>6, <3>7, <3>8, <3>9 DEF TypeOK
  <2>2. Args /\ Replaceable /\ Placed /\ MarksWritten
    BY DEF Init, Args, Replaceable, Placed, MarksWritten, Setting
  <2>3. Counted /\ EntriesExact
    BY FS_EmptySet DEF Init, Counted, EntriesExact
  <2>4. Load
    <3>1. size \in Nat
      BY <2>1, SizesType DEF TypeOK
    <3> QED BY <3>1 DEF Init, Load, Setting
  <2> QED BY <2>1, <2>2, <2>3, <2>4 DEF IInv
<1>2. IInv /\ [Next]_vars => IInv'
  <2>1. IInv /\ Next => IInv'
    BY TypeStep, ArgsStep, CountedStep, ReplaceableStep, PlacedStep, EntriesExactStep,
       MarksWrittenStep, LoadStep DEF IInv
  <2>2. IInv /\ UNCHANGED vars => IInv'
    <3> SUFFICES ASSUME IInv, UNCHANGED vars PROVE IInv'
      OBVIOUS
    <3>1. TypeOK' /\ Args' /\ Counted' /\ Replaceable'
      BY DEF IInv, vars, TypeOK, Args, Counted, Replaceable, Setting
    <3>2. Placed' /\ EntriesExact'
      BY DEF IInv, vars, Placed, EntriesExact, hash_value
    <3>3. MarksWritten' /\ Load'
      BY DEF IInv, vars, MarksWritten, Load, WillResize, Setting
    <3> QED BY <3>1, <3>2, <3>3 DEF IInv
  <2> QED BY <2>1, <2>2
<1> QED BY <1>1, <1>2, PTL DEF Spec

\* The fields keep their types, and ht->size is always a power of two.
THEOREM Typed == Spec => []TypeOK
BY Invariance, PTL DEF IInv

\* Whatever resizes, inserts and changes of the hash function interleave, every entry is in
\* the bucket where a lookup searches for it.
THEOREM AlwaysPlaced == Spec => []Placed
BY Invariance, PTL DEF IInv

\* ht->entries is the number of entries, and no key has two.
THEOREM Exact == Spec => []EntriesExact
BY Invariance, PTL DEF IInv

\* When all calls have returned, the load of a table whose flag and thresholds were never
\* set is at most high_mark.
THEOREM LoadBounded == Spec => []QuiescentLoad
<1>1. IInv => QuiescentLoad
  BY DEF IInv, Load, WillResize, QuiescentLoad
<1> QED BY <1>1, Invariance, PTL

\* The thresholds are in order after every hash_setthresholds that no other overlapped.
THEOREM Ordered == Spec => []MarksOrdered
<1>1. IInv => MarksOrdered
  BY DEF IInv, MarksWritten, MarksOrdered
<1> QED BY <1>1, Invariance, PTL

-----------------------------------------------------------------------------
(* The table is a map *)

\* The states in which no insert has come between the test of hash_sethashfunction and
\* its write.
Sane == IInv /\ "hash_func" \notin raced

\* A lookup finds exactly the entries.
Finds ==
  /\ \A e \in table : e.key \in Key /\ e.data \in Data /\ Lookup[e.key] = e.data
  /\ \A k \in Key : (\A e \in table : e.key # k) => Lookup[k] = None
  /\ \A k \in Key : Hits(k) = {} => \A e \in table : e.key # k
  /\ \A k \in Key : Hits(k) # {} =>
       Hit(k) \in table /\ Hit(k).key = k /\ Lookup[k] = Hit(k).data

\* In a sane state a lookup finds exactly the entries.
LEMMA SaneFinds == Sane => Finds
<1> SUFFICES ASSUME Sane PROVE Finds
  OBVIOUS
<1>1. TypeOK /\ \A e \in table : e.key \in Key /\ e.data \in Data
  BY DEF Sane, IInv, TypeOK, Entry
<1>2. \A k \in Key : Hits(k) = {e \in table : e.key = k}
  BY DEF Sane, IInv, Placed, Hits
<1>3. \A k \in Key : Hits(k) # {} => Hit(k) \in table /\ Hit(k).key = k /\ Lookup[k] = Hit(k).data
  BY <1>1, HitIsEntry DEF Lookup
<1>4. \A k \in Key : Hits(k) = {} => Lookup[k] = None
  BY DEF Lookup
<1>5. \A e \in table : Lookup[e.key] = e.data
  BY <1>1, <1>2, <1>3 DEF Sane, IInv, EntriesExact
<1> QED BY <1>1, <1>2, <1>3, <1>4, <1>5 DEF Finds

\* The map changes only where the entries do.
LEMMA SameEntries ==
  ASSUME Finds, Finds',
         \A e \in table' : \E g \in table : e.key = g.key /\ e.data = g.data,
         \A g \in table : \E e \in table' : e.key = g.key /\ e.data = g.data
  PROVE  Lookup' = Lookup
<1>1. \A k \in Key : Lookup'[k] = Lookup[k]
  BY DEF Finds
<1> QED BY <1>1 DEF Lookup

\* An entry put in the place of all others of its key is the map's new value there.
LEMMA PutEntry ==
  ASSUME Finds, Finds', NEW k \in Key, NEW d \in Data, NEW e, e.key = k, e.data = d,
         table' = {g \in table : g.key # k} \cup {e}
  PROVE  Lookup' = [Lookup EXCEPT ![k] = d]
<1>1. Lookup'[k] = d
  BY DEF Finds
<1>2. \A j \in Key \ {k} : Lookup'[j] = Lookup[j]
  BY DEF Finds
<1> QED BY <1>1, <1>2 DEF Lookup

\* Without the entries of a key the map has no value there.
LEMMA DropEntry ==
  ASSUME Finds, Finds', NEW k \in Key, table' = {g \in table : g.key # k}
  PROVE  Lookup' = [Lookup EXCEPT ![k] = None]
<1>1. Lookup'[k] = None
  BY DEF Finds
<1>2. \A j \in Key \ {k} : Lookup'[j] = Lookup[j]
  BY DEF Finds
<1> QED BY <1>1, <1>2 DEF Lookup

\* KVMap's count is the count of FiniteSets.
LEMMA SameCardinality == \A S : Abstract!Cardinality(S) = Cardinality(S)
BY DEF Cardinality, Abstract!Cardinality, IsFiniteSet, Abstract!IsFiniteSet

\* The keys of the map are those of the entries, and as many as ht->entries says.
LEMMA PresentKeys ==
  ASSUME Sane, Finds
  PROVE  Abstract!Present = {e.key : e \in table} /\ Cardinality(Abstract!Present) = entries
<1>1. Abstract!Present = {e.key : e \in table}
  BY NoneNotData DEF Abstract!Present, Finds
<1> DEFINE F == [e \in table |-> e.key]
           K == {e.key : e \in table}
<1>2. F \in Surjection(table, K)
  BY DEF Surjection
<1>3. F \in Injection(table, K)
  BY <1>2 DEF Injection, IsInjective, Surjection, Sane, IInv, EntriesExact
<1>4. IsFiniteSet(table) /\ Cardinality(table) = entries
  BY DEF Sane, IInv, Counted, EntriesExact
<1>5. Cardinality(K) = Cardinality(table)
  BY <1>2, <1>3, <1>4, FS_Surjection
<1> QED BY <1>1, <1>4, <1>5

\* Every step is one of the map's operations, or invisible.
LEMMA MapStep == Sane /\ Sane' /\ Next => [Abstract!Next]_<<Lookup, ret>>
<1> SUFFICES ASSUME Sane, Sane', NEW t \in Thread, Next1(t)
             PROVE  Abstract!Next \/ UNCHANGED <<Lookup, ret>>
  BY DEF Next, Next1
<1>a. Finds /\ Finds'
  BY SaneFinds, PTL
<1>b. TypeOK /\ Placed /\ EntriesExact /\ IsFiniteSet(table)
  BY DEF Sane, IInv, Counted
<1>c. ASSUME UNCHANGED <<table, size, func>> PROVE Lookup' = Lookup
  BY <1>c DEF Lookup, Hit, Hits, hash_value
<1>d. \A k \in Key : k \in Abstract!Present <=> Hits(k) # {}
  BY <1>a, NoneNotData DEF Finds, Abstract!Present
<1>1. ASSUME ReadFlags(t) PROVE Abstract!Next \/ UNCHANGED <<Lookup, ret>>
  BY <1>1, <1>c DEF ReadFlags
<1>2. ASSUME ReadEntries(t) PROVE Abstract!Next \/ UNCHANGED <<Lookup, ret>>
  BY <1>2, <1>c DEF ReadEntries
<1>3. ASSUME ReadSize(t) PROVE Abstract!Next \/ UNCHANGED <<Lookup, ret>>
  BY <1>3, <1>c DEF ReadSize
<1>4. ASSUME AutoRehash(t) PROVE Abstract!Next \/ UNCHANGED <<Lookup, ret>>
  <2>1. Rehash /\ UNCHANGED ret
    BY <1>4 DEF AutoRehash
  <2>2. Lookup' = Lookup
    BY <2>1, <1>a, <1>b, RehashMoves, SameEntries
  <2> QED BY <2>1, <2>2
<1>5. ASSUME CopyKeys(t) PROVE Abstract!Next \/ UNCHANGED <<Lookup, ret>>
  <2>1. Lookup' = Lookup
    BY <1>5, <1>c DEF CopyKeys
  <2>2. Abstract!Keys(t)
BY <1>5, <1>a, <2>1, PresentKeys, SameCardinality
DEF CopyKeys, Return, Abstract!Keys, Abstract!Return
  <2> QED BY <2>2 DEF Abstract!Next
<1>6. ASSUME WriteHashFunc(t) PROVE Abstract!Next \/ UNCHANGED <<Lookup, ret>>
  <2>1. table = {} /\ table' = {} /\ UNCHANGED ret
    BY <1>6 DEF WriteHashFunc, Sane, IInv, Replaceable, Setting
  <2>2. Lookup' = Lookup
    BY <2>1, <1>a, SameEntries
  <2> QED BY <2>1, <2>2
<1>7. ASSUME WriteHighMark(t) PROVE Abstract!Next \/ UNCHANGED <<Lookup, ret>>
  BY <1>7, <1>c DEF WriteHighMark
<1>8. ASSUME WriteLowMark(t) PROVE Abstract!Next \/ UNCHANGED <<Lookup, ret>>
  BY <1>8, <1>c DEF WriteLowMark
<1>9. ASSUME hash_rehash(t) PROVE Abstract!Next \/ UNCHANGED <<Lookup, ret>>
  <2>1. Rehash /\ UNCHANGED ret
    BY <1>9 DEF hash_rehash
  <2>2. Lookup' = Lookup
    BY <2>1, <1>a, <1>b, RehashMoves, SameEntries
  <2> QED BY <2>1, <2>2
<1>10. ASSUME hash_keys(t) PROVE Abstract!Next \/ UNCHANGED <<Lookup, ret>>
  <2>1. Lookup' = Lookup
    BY <1>10, <1>c DEF hash_keys
  <2>2. CASE entries = 0
    <3>1. table = {}
      BY <1>b, <2>2, FS_EmptySet DEF EntriesExact, Sane
    <3>2. Abstract!Present = {} /\ Cardinality(Abstract!Present) = 0
      BY <1>a, <2>2, <3>1, PresentKeys
    <3>3. Abstract!Keys(t)
BY <1>10, <2>1, <2>2, <3>2, SameCardinality
DEF hash_keys, Return, Abstract!Keys, Abstract!Return
    <3> QED BY <3>3 DEF Abstract!Next
  <2>3. CASE entries # 0
    BY <1>10, <2>1, <2>3 DEF hash_keys
  <2> QED BY <2>2, <2>3
<1>11. ASSUME NEW on \in BOOLEAN, SetFrozen(t, on) PROVE Abstract!Next \/ UNCHANGED <<Lookup, ret>>
  BY <1>11, <1>c DEF SetFrozen
<1>12. ASSUME NEW f \in 1..Len(HashFunc), hash_sethashfunction(t, f) PROVE Abstract!Next \/ UNCHANGED <<Lookup, ret>>
  BY <1>12, <1>c DEF hash_sethashfunction
<1>13. ASSUME NEW l \in Marks \cup {0}, NEW h \in Marks \cup {0},
             hash_setthresholds(t, l, h)
      PROVE  Abstract!Next \/ UNCHANGED <<Lookup, ret>>
  BY <1>13, <1>c DEF hash_setthresholds
<1>14. ASSUME NEW k \in Key, hash_find(t, k) PROVE Abstract!Next \/ UNCHANGED <<Lookup, ret>>
  <2>1. Lookup' = Lookup
    BY <1>14, <1>c DEF hash_find
  <2>2. Abstract!Find(t, k)
    BY <1>14, <1>a, <1>d, <2>1 DEF hash_find, Return, Finds, Abstract!Find, Abstract!Return
  <2> QED BY <2>2 DEF Abstract!Next
<1>15. ASSUME NEW k \in Key, hash_delete(t, k) PROVE Abstract!Next \/ UNCHANGED <<Lookup, ret>>
  <2>1. Lookup' = [Lookup EXCEPT ![k] = None]
    <3>1. table' = {g \in table : g.key # k}
      <4>1. CASE Hits(k) = {}
        BY <1>15, <1>a, <4>1 DEF hash_delete, Finds
      <4>2. CASE Hits(k) # {}
        <5>1. \A g \in table : g.key = k <=> g = Hit(k)
          BY <1>a, <1>b, <4>2 DEF Finds, EntriesExact, Sane
        <5> QED BY <1>15, <4>2, <5>1 DEF hash_delete
      <4> QED BY <4>1, <4>2
    <3> QED BY <1>a, <3>1, DropEntry
  <2>2. Abstract!Delete(t, k)
    BY <1>15, <1>a, <1>d, <2>1 DEF hash_delete, Return, Finds, Abstract!Delete, Abstract!Return
  <2> QED BY <2>2 DEF Abstract!Next
<1>16. ASSUME NEW k \in Key, NEW d \in Data, hash_search(t, k, d) PROVE Abstract!Next \/ UNCHANGED <<Lookup, ret>>
  <2>1. CASE Hits(k) = {}
    <3> DEFINE e == [key |-> k, data |-> d, slot |-> hash_value(k, size)]
    <3>1. e.key = k /\ e.data = d
      OBVIOUS
    <3>2. table' = table \cup {e}
      BY <1>16, <2>1 DEF hash_search, hash_addentry
    <3> HIDE DEF e
    <3>3. table' = {g \in table : g.key # k} \cup {e}
      BY <1>a, <2>1, <3>2 DEF Finds
    <3>4. Lookup' = [Lookup EXCEPT ![k] = d]
      BY <1>a, <3>1, <3>3, PutEntry
    <3>5. Abstract!Search(t, k, d)
      BY <1>16, <1>d, <2>1, <3>4 DEF hash_search, Return, Abstract!Search, Abstract!Return
    <3> QED BY <3>5 DEF Abstract!Next
  <2>2. CASE Hits(k) # {}
    <3>1. Lookup' = Lookup
      BY <1>16, <1>c, <2>2 DEF hash_search
    <3>2. Abstract!Search(t, k, d)
BY <1>16, <1>a, <1>d, <2>2, <3>1
DEF hash_search, Return, Finds, Abstract!Search, Abstract!Return
    <3> QED BY <3>2 DEF Abstract!Next
  <2> QED BY <2>1, <2>2
<1>17. ASSUME NEW k \in Key, NEW d \in Data, hash_replace(t, k, d) PROVE Abstract!Next \/ UNCHANGED <<Lookup, ret>>
  <2>1. CASE Hits(k) = {}
    <3> DEFINE e == [key |-> k, data |-> d, slot |-> hash_value(k, size)]
    <3>1. e.key = k /\ e.data = d
      OBVIOUS
    <3>2. table' = table \cup {e}
      BY <1>17, <2>1 DEF hash_replace, hash_addentry
    <3> HIDE DEF e
    <3>3. table' = {g \in table : g.key # k} \cup {e}
      BY <1>a, <2>1, <3>2 DEF Finds
    <3>4. Lookup' = [Lookup EXCEPT ![k] = d]
      BY <1>a, <3>1, <3>3, PutEntry
    <3>5. Abstract!Replace(t, k, d)
      BY <1>17, <1>d, <2>1, <3>4 DEF hash_replace, Return, Abstract!Replace, Abstract!Return
    <3> QED BY <3>5 DEF Abstract!Next
  <2>2. CASE Hits(k) # {}
    <3> DEFINE e == [Hit(k) EXCEPT !.data = d]
    <3>1. e.key = k /\ e.data = d
      BY <1>b, <2>2, Replaced
    <3>2. table' = (table \ {Hit(k)}) \cup {e}
      BY <1>17, <2>2 DEF hash_replace
    <3> HIDE DEF e
    <3>3. \A g \in table : g.key = k <=> g = Hit(k)
      BY <1>a, <1>b, <2>2 DEF Finds, EntriesExact, Sane
    <3>4. table' = {g \in table : g.key # k} \cup {e}
      BY <3>2, <3>3
    <3>5. Lookup' = [Lookup EXCEPT ![k] = d]
      BY <1>a, <3>1, <3>4, PutEntry
    <3>6. Abstract!Replace(t, k, d)
BY <1>17, <1>a, <1>d, <2>2, <3>5
DEF hash_replace, Return, Finds, Abstract!Replace, Abstract!Return
    <3> QED BY <3>6 DEF Abstract!Next
  <2> QED BY <2>1, <2>2
<1> QED BY <1>1, <1>2, <1>3, <1>4, <1>5, <1>6, <1>7, <1>8, <1>9, <1>10, <1>11, <1>12, <1>13,
           <1>14, <1>15, <1>16, <1>17 DEF Next1, Step

\* The threads see a map whose operations are atomic, however the table is resized, unless
\* an insert came between the test of hash_sethashfunction and its write.
THEOREM Refinement == Spec /\ []("hash_func" \notin raced) => ImplementsMap
<1>1. Init => Abstract!Init
  BY DEF Init, Abstract!Init, Lookup, Hits
<1>2. Sane /\ Sane' /\ [Next]_vars => [Abstract!Next]_<<Lookup, ret>>
  <2>1. ASSUME UNCHANGED vars PROVE UNCHANGED <<Lookup, ret>>
    BY <2>1 DEF vars, Lookup, Hit, Hits, hash_value
  <2> QED BY <2>1, MapStep
<1>3. Spec /\ []("hash_func" \notin raced) => []Sane
  BY Invariance, PTL DEF Sane
<1> QED BY <1>1, <1>2, <1>3, PTL DEF Spec, ImplementsMap, Abstract!Spec
=============================================================================
