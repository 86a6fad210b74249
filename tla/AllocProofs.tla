----------------------------- MODULE AllocProofs -----------------------------
(***************************************************************************)
(* Proofs about Alloc, for every set of objects, plain values and names.   *)
(***************************************************************************)
EXTENDS Alloc, CommonLemmas, FiniteSetTheorems, TLAPS

\* The names in an attribute list are distinct: attr_set replaces what it finds.
Distinct(s) == \A i, j \in 1..Len(s) : s[i].name = s[j].name => i = j

Keyed == \A o \in Obj : Distinct(attr[o])

\* An object with references is allocated and not destroyed; one without has no
\* attributes left.
Lives ==
  \A o \in Obj : /\ rc[o] > 0 => o \in live /\ destroyed[o] = 0
                 /\ attr[o] # <<>> => rc[o] > 0
                 /\ destroyed[o] <= 1

\* An object that has lost its last reference is given back once, by the FREE that
\* found this.
Freeing ==
  \A o \in Obj : Occurrences(todo, <<"free", o>>) = IF o \in live /\ rc[o] = 0 THEN 1 ELSE 0

\* The inductive invariant.
IInv == TypeOK /\ Keyed /\ RcExact /\ Lives /\ Freeing

-----------------------------------------------------------------------------
(* Occurrences *)

\* The positions of x in a sequence are finitely many.
LEMMA OccurrencesFinite ==
  ASSUME NEW T, NEW s \in Seq(T), NEW x
  PROVE  /\ IsFiniteSet({i \in 1..Len(s) : s[i] = x})
         /\ Occurrences(s, x) \in Nat
         /\ Occurrences(s, x) = 0 <=> \A i \in 1..Len(s) : s[i] # x
<1> DEFINE A == {i \in 1..Len(s) : s[i] = x}
<1>1. Len(s) \in Nat
  BY LenProperties
<1>2. IsFiniteSet(1..Len(s))
  BY <1>1, FS_Interval
<1>3. IsFiniteSet(A) /\ Cardinality(A) \in Nat
  BY <1>2, FS_Subset, FS_CardinalityType
<1>4. Cardinality(A) = 0 <=> A = {}
  BY <1>3, FS_EmptySet
<1> QED BY <1>3, <1>4 DEF Occurrences

\* Nothing occurs in the empty sequence.
LEMMA OccurrencesEmpty ==
  ASSUME NEW x
  PROVE  Occurrences(<<>>, x) = 0
<1>1. {i \in 1..Len(<<>>) : <<>>[i] = x} = {}
  OBVIOUS
<1> QED BY <1>1, FS_EmptySet DEF Occurrences

\* How often x occurs in a sequence of one element.
LEMMA OccurrencesOne ==
  ASSUME NEW y, NEW x
  PROVE  Occurrences(<<y>>, x) = IF y = x THEN 1 ELSE 0
<1>1. {i \in 1..Len(<<y>>) : <<y>>[i] = x} = IF y = x THEN {1} ELSE {}
  OBVIOUS
<1> QED BY <1>1, FS_EmptySet, FS_Singleton DEF Occurrences

\* The occurrences in two sequences add up.
LEMMA OccurrencesConcat ==
  ASSUME NEW T, NEW s \in Seq(T), NEW t \in Seq(T), NEW x
  PROVE  Occurrences(s \o t, x) = Occurrences(s, x) + Occurrences(t, x)
<1> DEFINE A == {i \in 1..Len(s) : s[i] = x}
           B == {i \in 1..Len(t) : t[i] = x}
           C == {i \in 1..Len(s \o t) : (s \o t)[i] = x}
           D == {i \in (Len(s) + 1)..(Len(s) + Len(t)) : t[i - Len(s)] = x}
           f == [i \in B |-> i + Len(s)]
<1>1. Len(s) \in Nat /\ Len(t) \in Nat
  BY LenProperties
<1>2. /\ Len(s \o t) = Len(s) + Len(t)
      /\ \A i \in 1..(Len(s) + Len(t)) :
           (s \o t)[i] = IF i <= Len(s) THEN s[i] ELSE t[i - Len(s)]
  BY ConcatProperties
<1>3. C = A \cup D /\ A \cap D = {}
  BY <1>1, <1>2
<1>4. f \in Bijection(B, D)
  <2>1. f \in [B -> D]
    BY <1>1
  <2>2. \A i, j \in B : f[i] = f[j] => i = j
    BY <1>1
  <2>3. ASSUME NEW d \in D PROVE \E i \in B : f[i] = d
    <3>1. d - Len(s) \in B
      BY <1>1
    <3> QED BY <1>1, <3>1
  <2> QED BY <2>1, <2>2, <2>3 DEF Bijection, Injection, Surjection, IsInjective
<1>5. IsFiniteSet(A) /\ IsFiniteSet(B) /\ Cardinality(A) \in Nat
  BY OccurrencesFinite DEF Occurrences
<1>6. ExistsBijection(B, D)
  BY <1>4 DEF ExistsBijection
<1>7. IsFiniteSet(D) /\ Cardinality(D) = Cardinality(B)
  BY <1>5, <1>6, FS_Bijection
<1>8. Cardinality(A \cap D) = 0
  BY <1>3, FS_EmptySet
<1>9. Cardinality(A \cup D) = Cardinality(A) + Cardinality(D) - Cardinality(A \cap D)
  BY <1>5, <1>7, FS_Union
<1>10. Cardinality(B) \in Nat
  BY <1>5, FS_CardinalityType
<1>11. /\ Occurrences(s \o t, x) = Cardinality(C)
       /\ Occurrences(s, x) = Cardinality(A)
       /\ Occurrences(t, x) = Cardinality(B)
  BY DEF Occurrences
<1> HIDE DEF A, B, C, D
<1>12. Cardinality(C) = Cardinality(A) + Cardinality(B)
  BY <1>3, <1>5, <1>7, <1>8, <1>9, <1>10
<1> QED BY <1>11, <1>12

\* The head is one occurrence, the tail has the others.
LEMMA OccurrencesHeadTail ==
  ASSUME NEW T, NEW s \in Seq(T), s # <<>>, NEW x
  PROVE  Occurrences(s, x) = (IF Head(s) = x THEN 1 ELSE 0) + Occurrences(Tail(s), x)
<1>1. Len(s) \in Nat \ {0} /\ Head(s) = s[1]
  BY EmptySeq
<1>2. 1 \in 1..Len(s) /\ Len(s) \in 1..Len(s)
  BY <1>1
<1>3. SubSeq(s, 1, Len(s)) = <<s[1]>> \o SubSeq(s, 2, Len(s))
  BY <1>2, SubSeqRecursiveFirst
<1>4. s = <<Head(s)>> \o Tail(s)
  BY <1>1, <1>3, SubSeqFull, TailIsSubSeq
<1>5. Head(s) \in T /\ Tail(s) \in Seq(T)
  BY HeadTailProperties
<1>6. <<Head(s)>> \in Seq(T)
  BY <1>5
<1>7. Occurrences(<<Head(s)>> \o Tail(s), x) = Occurrences(<<Head(s)>>, x) + Occurrences(Tail(s), x)
  BY <1>5, <1>6, OccurrencesConcat
<1> QED BY <1>4, <1>7, OccurrencesOne

\* Replacing one element moves one occurrence.
LEMMA OccurrencesReplace ==
  ASSUME NEW T, NEW s \in Seq(T), NEW i \in 1..Len(s), NEW e \in T, NEW x
  PROVE  Occurrences([s EXCEPT ![i] = e], x)
           = Occurrences(s, x) - (IF s[i] = x THEN 1 ELSE 0) + (IF e = x THEN 1 ELSE 0)
<1> DEFINE A == {j \in 1..Len(s) : s[j] = x}
           t == [s EXCEPT ![i] = e]
           B == {j \in 1..Len(t) : t[j] = x}
<1>1. Len(t) = Len(s) /\ \A j \in 1..Len(s) : t[j] = IF j = i THEN e ELSE s[j]
  BY ExceptSeq
<1>2. IsFiniteSet(A) /\ Cardinality(A) \in Nat
  BY OccurrencesFinite DEF Occurrences
<1>3. i \in A <=> s[i] = x
  OBVIOUS
<1>4. B = IF e = x THEN A \cup {i} ELSE A \ {i}
  BY <1>1
<1>5. Occurrences(s, x) = Cardinality(A) /\ Occurrences(t, x) = Cardinality(B)
  BY DEF Occurrences
<1> HIDE DEF A, B, t
<1>6. Cardinality(A \cup {i}) = IF s[i] = x THEN Cardinality(A) ELSE Cardinality(A) + 1
  BY <1>2, <1>3, FS_AddElement
<1>7. Cardinality(A \ {i}) = IF s[i] = x THEN Cardinality(A) - 1 ELSE Cardinality(A)
  BY <1>2, <1>3, FS_RemoveElement
<1>8. Occurrences(t, x)
        = Occurrences(s, x) - (IF s[i] = x THEN 1 ELSE 0) + (IF e = x THEN 1 ELSE 0)
  <2>1. CASE e = x
    BY <1>2, <1>4, <1>5, <1>6, <2>1
  <2>2. CASE e # x
    BY <1>2, <1>4, <1>5, <1>7, <2>2
  <2> QED BY <2>1, <2>2
<1> QED BY <1>8 DEF t

\* Removing one element takes one occurrence away.
LEMMA OccurrencesRemove ==
  ASSUME NEW T, NEW s \in Seq(T), NEW i \in 1..Len(s), NEW x
  PROVE  /\ RemoveAt(s, i) \in Seq(T)
         /\ Occurrences(RemoveAt(s, i), x) = Occurrences(s, x) - (IF s[i] = x THEN 1 ELSE 0)
<1> DEFINE p == SubSeq(s, 1, i - 1)
           q == SubSeq(s, i + 1, Len(s))
<1>1. Len(s) \in Nat /\ i \in Nat /\ \A j \in 1..Len(s) : s[j] \in T
  BY LenProperties, ElementOfSeq
<1>2. p \in Seq(T) /\ q \in Seq(T) /\ <<s[i]>> \in Seq(T)
  <2>1. \A j \in 1..(i - 1) : s[j] \in T
    BY <1>1
  <2>2. \A j \in (i + 1)..Len(s) : s[j] \in T
    BY <1>1
  <2> QED BY <1>1, <2>1, <2>2, SubSeqProperties
<1>3. <<s[i]>> \o q = SubSeq(s, i, Len(s))
  <2>1. Len(s) \in i..Len(s)
    BY <1>1
  <2> QED BY <2>1, SubSeqRecursiveFirst
<1>4. s = p \o (<<s[i]>> \o q)
  <2>1. SubSeq(s, 1, i - 1) \o SubSeq(s, (i - 1) + 1, Len(s)) = SubSeq(s, 1, Len(s))
    <3>1. 1 \in 1..(Len(s) + 1) /\ i - 1 \in (1 - 1)..Len(s) /\ Len(s) \in (i - 1)..Len(s)
      BY <1>1
    <3> QED BY <3>1, ConcatAdjacentSubSeq
  <2>2. (i - 1) + 1 = i
    BY <1>1
  <2> QED BY <1>3, <2>1, <2>2, SubSeqFull
<1>5. <<s[i]>> \o q \in Seq(T)
  BY <1>2, ConcatProperties
<1> HIDE DEF p, q
<1>6. Occurrences(p \o (<<s[i]>> \o q), x) = Occurrences(p, x) + Occurrences(<<s[i]>> \o q, x)
  BY <1>2, <1>5, OccurrencesConcat
<1>7. Occurrences(<<s[i]>> \o q, x) = Occurrences(<<s[i]>>, x) + Occurrences(q, x)
  BY <1>2, OccurrencesConcat
<1>8. Occurrences(p \o q, x) = Occurrences(p, x) + Occurrences(q, x) /\ p \o q \in Seq(T)
  BY <1>2, OccurrencesConcat, ConcatProperties
<1>9. Occurrences(p, x) \in Nat /\ Occurrences(q, x) \in Nat
  BY <1>2, OccurrencesFinite
<1>10. RemoveAt(s, i) = p \o q
  BY DEF RemoveAt, p, q
<1>11. Occurrences(<<s[i]>>, x) = IF s[i] = x THEN 1 ELSE 0
  BY OccurrencesOne
<1>12. Occurrences(s, x) = Occurrences(p, x) + (Occurrences(<<s[i]>>, x) + Occurrences(q, x))
  BY <1>4, <1>6, <1>7
<1> QED BY <1>8, <1>9, <1>10, <1>11, <1>12

-----------------------------------------------------------------------------
(* Attribute lists *)

\* Position finds the first attribute with the name, and 0 when there is none.
LEMMA PositionFirst ==
  ASSUME NEW s \in Seq(Attri), NEW n
  PROVE  \/ Position(s, n) \in 1..Len(s) /\ s[Position(s, n)].name = n
         \/ Position(s, n) = 0 /\ \A i \in 1..Len(s) : s[i].name # n
<1> DEFINE I == {i \in 1..Len(s) : s[i].name = n}
<1>1. Position(s, n) = IF I # {} THEN Min(I) ELSE 0
  BY DEF Position, SelectInSeq
<1>2. Len(s) \in Nat
  BY LenProperties
<1>3. I \in SUBSET Nat
  BY <1>2
<1>4. I # {} => Min(I) \in I
  <2> HIDE DEF I
  <2> QED BY <1>3, MinIsLeast
<1> QED BY <1>1, <1>4

\* The values in an attribute list.
Vals(s) == [i \in 1..Len(s) |-> s[i].value]

\* The values of an attribute list.
LEMMA ValsType ==
  ASSUME NEW s \in Seq(Attri)
  PROVE  /\ Vals(s) \in Seq(Value)
         /\ Len(Vals(s)) = Len(s)
         /\ \A i \in 1..Len(s) : Vals(s)[i] = s[i].value /\ s[i] \in Attri /\ s[i].value \in Value
<1>1. Len(s) \in Nat /\ \A i \in 1..Len(s) : s[i] \in Attri
  BY LenProperties, ElementOfSeq
<1>2. \A i \in 1..Len(s) : s[i].value \in Value
  BY <1>1 DEF Attri
<1> QED BY <1>1, <1>2, IsASeq DEF Vals

\* An attribute more at the end, another value in a place, an attribute less.
LEMMA ValsAppend ==
  ASSUME NEW s \in Seq(Attri), NEW a \in Attri, NEW x
  PROVE  /\ Append(s, a) \in Seq(Attri)
         /\ Occurrences(Vals(Append(s, a)), x)
              = Occurrences(Vals(s), x) + (IF a.value = x THEN 1 ELSE 0)
<1>1. Append(s, a) \in Seq(Attri) /\ a.value \in Value
  BY AppendProperties DEF Attri
<1>2. Vals(Append(s, a)) = Vals(s) \o <<a.value>>
  <2>1. Vals(s) \in Seq(Value) /\ Len(Vals(s)) = Len(s) /\ <<a.value>> \in Seq(Value)
    BY ValsType, <1>1
  <2>2. Vals(Append(s, a)) \in Seq(Value) /\ Len(Vals(Append(s, a))) = Len(s) + 1
    BY <1>1, ValsType, AppendProperties
  <2>3. Vals(s) \o <<a.value>> \in Seq(Value) /\ Len(Vals(s) \o <<a.value>>) = Len(s) + 1
    BY <2>1, ConcatProperties
  <2>4. ASSUME NEW i \in 1..(Len(s) + 1)
        PROVE  Vals(Append(s, a))[i] = (Vals(s) \o <<a.value>>)[i]
    <3>1. Len(s) \in Nat
      BY LenProperties
    <3>2. Append(s, a)[i] = IF i <= Len(s) THEN s[i] ELSE a
      BY <3>1, AppendProperties
    <3>3. Vals(Append(s, a))[i] = Append(s, a)[i].value
      <4>1. i \in 1..Len(Append(s, a))
        BY AppendProperties
      <4> QED BY <4>1 DEF Vals
    <3>4. (Vals(s) \o <<a.value>>)[i] = IF i <= Len(s) THEN Vals(s)[i] ELSE a.value
      BY <2>1, <3>1, ConcatProperties
    <3>5. i <= Len(s) => Vals(s)[i] = s[i].value
      BY <3>1, ValsType
    <3> QED BY <3>2, <3>3, <3>4, <3>5
  <2> HIDE DEF Vals
  <2> QED BY <2>2, <2>3, <2>4, SeqEqual
<1>3. Occurrences(Vals(s) \o <<a.value>>, x) = Occurrences(Vals(s), x) + Occurrences(<<a.value>>, x)
  <2>1. Vals(s) \in Seq(Value) /\ <<a.value>> \in Seq(Value)
    BY ValsType, <1>1
  <2> QED BY <2>1, OccurrencesConcat
<1>4. Occurrences(<<a.value>>, x) = IF a.value = x THEN 1 ELSE 0
  BY OccurrencesOne
<1> QED BY <1>1, <1>2, <1>3, <1>4

\* attr_set replaces a value in place: one reference moves.
LEMMA ValsReplace ==
  ASSUME NEW s \in Seq(Attri), NEW i \in 1..Len(s), NEW a \in Attri, NEW x
  PROVE  /\ ReplaceAt(s, i, a) \in Seq(Attri)
         /\ Occurrences(Vals(ReplaceAt(s, i, a)), x)
              = Occurrences(Vals(s), x) - (IF s[i].value = x THEN 1 ELSE 0)
                                        + (IF a.value = x THEN 1 ELSE 0)
<1>1. /\ ReplaceAt(s, i, a) = [s EXCEPT ![i] = a]
      /\ [s EXCEPT ![i] = a] \in Seq(Attri) /\ a.value \in Value
  BY ExceptSeq DEF ReplaceAt, Attri
<1>2. /\ Len([s EXCEPT ![i] = a]) = Len(s)
      /\ \A j \in 1..Len(s) : [s EXCEPT ![i] = a][j] = IF j = i THEN a ELSE s[j]
  BY ExceptSeq
<1>3. Vals([s EXCEPT ![i] = a]) = [Vals(s) EXCEPT ![i] = a.value]
  <2>1. Vals([s EXCEPT ![i] = a]) = [j \in 1..Len(s) |-> [s EXCEPT ![i] = a][j].value]
    BY <1>2 DEF Vals
  <2>2. \A j \in 1..Len(s) :
          [s EXCEPT ![i] = a][j].value = IF j = i THEN a.value ELSE s[j].value
    BY <1>2
  <2>3. [Vals(s) EXCEPT ![i] = a.value]
          = [j \in 1..Len(s) |-> IF j = i THEN a.value ELSE s[j].value]
    BY DEF Vals
  <2> QED BY <2>1, <2>2, <2>3
<1>4. Vals(s) \in Seq(Value) /\ i \in 1..Len(Vals(s)) /\ Vals(s)[i] = s[i].value
  BY ValsType
<1>5. Occurrences([Vals(s) EXCEPT ![i] = a.value], x)
        = Occurrences(Vals(s), x) - (IF Vals(s)[i] = x THEN 1 ELSE 0)
                                  + (IF a.value = x THEN 1 ELSE 0)
  BY <1>1, <1>4, OccurrencesReplace
<1> QED BY <1>1, <1>3, <1>4, <1>5

\* attr_del removes an element: one reference goes.
LEMMA ValsRemove ==
  ASSUME NEW s \in Seq(Attri), NEW i \in 1..Len(s), NEW x
  PROVE  Occurrences(Vals(RemoveAt(s, i)), x)
           = Occurrences(Vals(s), x) - (IF s[i].value = x THEN 1 ELSE 0)
<1> DEFINE t == RemoveAt(s, i)
           u == RemoveAt(Vals(s), i)
<1>1. Vals(s) \in Seq(Value) /\ i \in 1..Len(Vals(s)) /\ Vals(s)[i] = s[i].value
      /\ Len(Vals(s)) = Len(s) /\ Len(s) \in Nat
      /\ \A j \in 1..Len(s) : Vals(s)[j] = s[j].value
  BY ValsType, LenProperties
<1>2. /\ t \in Seq(Attri) /\ Len(t) = Len(s) - 1
      /\ \A j \in 1..(Len(s) - 1) : t[j] = IF j < i THEN s[j] ELSE s[j + 1]
  BY RemoveAtProperties
<1>3. /\ u \in Seq(Value) /\ Len(u) = Len(s) - 1
      /\ \A j \in 1..(Len(s) - 1) : u[j] = IF j < i THEN Vals(s)[j] ELSE Vals(s)[j + 1]
  BY <1>1, RemoveAtProperties
<1>4. /\ Vals(t) \in Seq(Value) /\ Len(Vals(t)) = Len(s) - 1
      /\ \A j \in 1..(Len(s) - 1) : Vals(t)[j] = t[j].value
  BY <1>2, ValsType
<1>5. Occurrences(u, x) = Occurrences(Vals(s), x) - (IF Vals(s)[i] = x THEN 1 ELSE 0)
  BY <1>1, OccurrencesRemove
<1> HIDE DEF t, u
<1>6. ASSUME NEW j \in 1..(Len(s) - 1) PROVE Vals(t)[j] = u[j]
  <2>1. CASE j < i
    <3>1. j \in 1..Len(s)
      BY <1>1
    <3>2. Vals(s)[j] = s[j].value
      BY <1>1, <3>1
    <3> QED BY <1>2, <1>3, <1>4, <2>1, <3>2
  <2>2. CASE ~ (j < i)
    <3>1. j + 1 \in 1..Len(s)
      BY <1>1
    <3>2. Vals(s)[j + 1] = s[j + 1].value
      BY <1>1, <3>1
    <3> QED BY <1>2, <1>3, <1>4, <2>2, <3>2
  <2> QED BY <2>1, <2>2
<1>7. Vals(t) = u
  BY <1>3, <1>4, <1>6, SeqEqual
<1> QED BY <1>1, <1>5, <1>7 DEF t

\* FREE has a call for each value.
LEMMA ReleasesValues ==
  ASSUME NEW s \in Seq(Attri), NEW x
  PROVE  /\ Releases(s) \in Seq({"FREE"} \X Value)
         /\ Occurrences(Releases(s), <<"FREE", x>>) = Occurrences(Vals(s), x)
         /\ Occurrences(Releases(s), <<"free", x>>) = 0
<1>1. Len(s) \in Nat /\ \A i \in 1..Len(s) : s[i].value \in Value /\ Vals(s)[i] = s[i].value
  BY ValsType, LenProperties
<1>2. Releases(s) \in Seq({"FREE"} \X Value) /\ Len(Releases(s)) = Len(s)
      /\ \A i \in 1..Len(s) : Releases(s)[i] = <<"FREE", s[i].value>>
  BY <1>1, IsASeq DEF Releases
<1>3. Len(Vals(s)) = Len(s)
  BY ValsType
<1>4. {i \in 1..Len(Releases(s)) : Releases(s)[i] = <<"FREE", x>>}
        = {i \in 1..Len(Vals(s)) : Vals(s)[i] = x}
  BY <1>1, <1>2, <1>3
<1>5. \A i \in 1..Len(s) : Releases(s)[i] # <<"free", x>>
  BY <1>2
<1>6. Occurrences(Releases(s), <<"free", x>>) = 0
  BY <1>2, <1>5, OccurrencesFinite
<1> QED BY <1>2, <1>4, <1>6 DEF Occurrences

-----------------------------------------------------------------------------
(* Places *)

\* Places(x), of a given assignment of attributes; those in the list of o; the others.
PlacesOf(a, x) == {p \in UNION {{o} \X (1..Len(a[o])) : o \in Obj} : a[p[1]][p[2]].value = x}
Here(a, o, x)  == {o} \X {i \in 1..Len(a[o]) : a[o][i].value = x}
Other(a, o, x) == {p \in PlacesOf(a, x) : p[1] # o}

\* Places(x) are the places of x in the present lists.
LEMMA PlacesAre ==
  \A x : Places(x) = PlacesOf(attr, x)
BY DEF Places, Pairs, PlacesOf

\* A place of x is an index of a list whose element has the value x.
LEMMA PlacesIn ==
  ASSUME NEW a, NEW x, NEW p
  PROVE  p \in PlacesOf(a, x) <=>
           /\ p = <<p[1], p[2]>> /\ p[1] \in Obj /\ p[2] \in 1..Len(a[p[1]])
           /\ a[p[1]][p[2]].value = x
BY DEF PlacesOf

\* The places of x can be counted.
LEMMA PlacesFinite ==
  ASSUME NEW a \in [Obj -> Seq(Attri)], NEW x
  PROVE  IsFiniteSet(PlacesOf(a, x)) /\ Cardinality(PlacesOf(a, x)) \in Nat
<1> DEFINE T == {{o} \X (1..Len(a[o])) : o \in Obj}
           f == [o \in Obj |-> {o} \X (1..Len(a[o]))]
<1>1. f \in Surjection(Obj, T)
  BY DEF Surjection
<1>2. IsFiniteSet(T)
  BY <1>1, SetsFinite, FS_Surjection
<1>3. ASSUME NEW U \in T PROVE IsFiniteSet(U)
  <2>1. PICK o \in Obj : U = {o} \X (1..Len(a[o]))
    OBVIOUS
  <2>2. Len(a[o]) \in Nat
    BY LenProperties
  <2>3. IsFiniteSet(1..Len(a[o]))
    BY <2>2, FS_Interval
  <2>4. IsFiniteSet({o})
    BY FS_Singleton
  <2> QED BY <2>1, <2>3, <2>4, FS_Product
<1>4. PlacesOf(a, x) \in SUBSET UNION T
  BY DEF PlacesOf
<1> HIDE DEF T
<1>5. IsFiniteSet(UNION T)
  BY <1>2, <1>3, FS_UNION
<1> QED BY <1>4, <1>5, FS_Subset, FS_CardinalityType

\* The places of x are those in the list of o and those in the others' lists.
LEMMA PlacesSplit ==
  ASSUME NEW a \in [Obj -> Seq(Attri)], NEW o \in Obj, NEW x
  PROVE  /\ Cardinality(Other(a, o, x)) \in Nat
         /\ Cardinality(PlacesOf(a, x)) = Cardinality(Other(a, o, x)) + Occurrences(Vals(a[o]), x)
<1> DEFINE W == {i \in 1..Len(a[o]) : a[o][i].value = x}
           f == [i \in W |-> <<o, i>>]
           P == PlacesOf(a, x)
           H == Here(a, o, x)
           R == Other(a, o, x)
<1>1. IsFiniteSet(P)
  BY PlacesFinite
<1>2. R \in SUBSET P /\ H \in SUBSET P /\ P = R \cup H /\ R \cap H = {}
  <2>1. \A p \in P : p \in R <=> p[1] # o
    BY DEF Other
  <2>2. ASSUME NEW p PROVE p \in H <=> p \in P /\ p[1] = o
    BY PlacesIn DEF Here
  <2> QED BY <2>1, <2>2 DEF Other
<1>3. IsFiniteSet(R) /\ Cardinality(R) \in Nat /\ IsFiniteSet(H)
  <2> HIDE DEF P, R, H
  <2> QED BY <1>1, <1>2, FS_Subset, FS_CardinalityType
<1>4. f \in Bijection(W, H)
  <2>1. f \in [W -> H]
    BY DEF Here
  <2>2. \A i, j \in W : f[i] = f[j] => i = j
    OBVIOUS
  <2>3. \A p \in H : \E i \in W : f[i] = p
    BY DEF Here
  <2> QED BY <2>1, <2>2, <2>3 DEF Bijection, Injection, Surjection, IsInjective
<1>5. Vals(a[o]) \in Seq(Value) /\ W = {i \in 1..Len(Vals(a[o])) : Vals(a[o])[i] = x}
  BY ValsType
<1>6. IsFiniteSet(W) /\ Cardinality(W) = Occurrences(Vals(a[o]), x) /\ Cardinality(W) \in Nat
  BY <1>5, OccurrencesFinite DEF Occurrences
<1>7. Cardinality(H) = Cardinality(W)
  <2>1. ExistsBijection(W, H)
    BY <1>4 DEF ExistsBijection
  <2> QED BY <1>6, <2>1, FS_Bijection
<1>8. Cardinality(R \cup H) = Cardinality(R) + Cardinality(H) - Cardinality(R \cap H)
  <2> HIDE DEF R, H
  <2> QED BY <1>3, FS_Union
<1>9. Cardinality(R \cap H) = 0
  BY <1>2, FS_EmptySet
<1>10. Cardinality(P) = Cardinality(R) + Cardinality(H)
  <2> HIDE DEF P, R, H, W
  <2> QED BY <1>2, <1>3, <1>6, <1>7, <1>8, <1>9
<1> QED BY <1>3, <1>6, <1>7, <1>10

\* When the attributes of one object change, so does the number of places by what its
\* list has gained and lost.
LEMMA PlacesChange ==
  ASSUME NEW a \in [Obj -> Seq(Attri)], NEW o \in Obj, NEW s \in Seq(Attri), NEW x
  PROVE  Cardinality(PlacesOf([a EXCEPT ![o] = s], x))
           = Cardinality(PlacesOf(a, x)) - Occurrences(Vals(a[o]), x) + Occurrences(Vals(s), x)
<1> DEFINE b == [a EXCEPT ![o] = s]
<1>1. b \in [Obj -> Seq(Attri)] /\ b[o] = s /\ \A z \in Obj : z # o => b[z] = a[z]
  OBVIOUS
<1> HIDE DEF b
<1>2. Other(b, o, x) = Other(a, o, x)
  <2>1. ASSUME NEW p PROVE p \in Other(b, o, x) <=> p \in Other(a, o, x)
    <3>1. /\ p \in PlacesOf(a, x) <=>
               /\ p = <<p[1], p[2]>> /\ p[1] \in Obj /\ p[2] \in 1..Len(a[p[1]])
               /\ a[p[1]][p[2]].value = x
          /\ p \in PlacesOf(b, x) <=>
               /\ p = <<p[1], p[2]>> /\ p[1] \in Obj /\ p[2] \in 1..Len(b[p[1]])
               /\ b[p[1]][p[2]].value = x
      BY PlacesIn
    <3>2. p[1] \in Obj /\ p[1] # o => b[p[1]] = a[p[1]]
      BY <1>1
    <3>3. p[1] # o => (p \in PlacesOf(b, x) <=> p \in PlacesOf(a, x))
      BY <3>1, <3>2
    <3> QED BY <3>3 DEF Other
  <2> QED BY <2>1
<1>3. /\ Cardinality(Other(a, o, x)) \in Nat
      /\ Cardinality(PlacesOf(a, x)) = Cardinality(Other(a, o, x)) + Occurrences(Vals(a[o]), x)
  BY PlacesSplit
<1>4. Cardinality(PlacesOf(b, x)) = Cardinality(Other(b, o, x)) + Occurrences(Vals(b[o]), x)
  BY <1>1, PlacesSplit
<1>5. Occurrences(Vals(a[o]), x) \in Nat /\ Occurrences(Vals(s), x) \in Nat
  BY ValsType, OccurrencesFinite
<1>6. Cardinality(PlacesOf(b, x))
        = Cardinality(PlacesOf(a, x)) - Occurrences(Vals(a[o]), x) + Occurrences(Vals(s), x)
  BY <1>1, <1>2, <1>3, <1>4, <1>5
<1> QED BY <1>6 DEF b

-----------------------------------------------------------------------------
(* attr_set and attr_del on a list *)

\* The value that attr_get finds in a list.
Find(s, n) == IF Position(s, n) = 0 THEN None ELSE s[Position(s, n)].value

\* One release, if there is an attribute with the name.
Old(s, n, x) == IF Position(s, n) # 0 /\ Find(s, n) = x THEN 1 ELSE 0

\* Lookup and Find agree.
LEMMA LookupFinds ==
  \A o, n : Lookup(o, n) = Find(attr[o], n)
BY DEF Lookup, Find

\* A name that is found has a value; one that is not is no name of the list.
LEMMA FindValue ==
  ASSUME NEW s \in Seq(Attri), NEW n
  PROVE  /\ Position(s, n) = 0 => Find(s, n) = None
         /\ Position(s, n) # 0 => Find(s, n) \in Value
         /\ Find(s, n) = None <=> \A i \in 1..Len(s) : s[i].name # n
<1>1. \A i \in 1..Len(s) : s[i].value \in Value /\ s[i].value # None
  BY ValsType, ValuesDistinct
<1>2. CASE Position(s, n) \in 1..Len(s) /\ s[Position(s, n)].name = n
  <2>1. Position(s, n) # 0
    BY <1>2, LenProperties
  <2> QED BY <1>1, <1>2, <2>1 DEF Find
<1>3. CASE Position(s, n) = 0 /\ \A i \in 1..Len(s) : s[i].name # n
  BY <1>3 DEF Find
<1> QED BY <1>2, <1>3, PositionFirst

\* An attribute is found under its name.
LEMMA FindAt ==
  ASSUME NEW s \in Seq(Attri), Distinct(s), NEW i \in 1..Len(s)
  PROVE  Position(s, s[i].name) = i /\ Find(s, s[i].name) = s[i].value
<1>1. Position(s, s[i].name) \in 1..Len(s) /\ s[Position(s, s[i].name)].name = s[i].name
  BY PositionFirst
<1>2. Position(s, s[i].name) = i
  BY <1>1 DEF Distinct
<1>3. i # 0
  BY LenProperties
<1> QED BY <1>2, <1>3 DEF Find

\* What attr_set makes of an attribute list: references, names and values.
LEMMA NewListProperties ==
  ASSUME NEW s \in Seq(Attri), Distinct(s), NEW n \in Name, NEW v \in Value
  PROVE  LET t == NewList(s, n, v)
         IN  /\ t \in Seq(Attri) /\ Distinct(t)
             /\ \A x : Occurrences(Vals(t), x)
                         = Occurrences(Vals(s), x) - Old(s, n, x) + (IF v = x THEN 1 ELSE 0)
             /\ \A m : Find(t, m) = IF m = n THEN v ELSE Find(s, m)
<1> DEFINE a == [name |-> n, value |-> v]
           i == Position(s, n)
           t == NewList(s, n, v)
<1>1. a \in Attri /\ a.name = n /\ a.value = v
  BY DEF Attri
<1>2. Len(s) \in Nat
  BY LenProperties
<1> HIDE DEF a
<1>3. CASE i = 0 /\ \A j \in 1..Len(s) : s[j].name # n
  <2>1. t = Append(s, a)
    BY <1>3 DEF NewList, a
  <2>2. /\ Append(s, a) \in Seq(Attri) /\ Len(Append(s, a)) = Len(s) + 1
        /\ Append(s, a)[Len(s) + 1] = a
        /\ \A j \in 1..Len(s) : Append(s, a)[j] = s[j]
    BY <1>1, <1>2, AppendProperties
  <2>3. \A x : Occurrences(Vals(Append(s, a)), x)
                 = Occurrences(Vals(s), x) + (IF v = x THEN 1 ELSE 0)
    BY <1>1, ValsAppend
  <2>4. \A x : Old(s, n, x) = 0
    BY <1>3 DEF Old
  <2>5. \A x : Occurrences(Vals(s), x) \in Nat
    BY ValsType, OccurrencesFinite
  <2> HIDE DEF t, i
  <2>6. \A x : Occurrences(Vals(t), x)
                 = Occurrences(Vals(s), x) - Old(s, n, x) + (IF v = x THEN 1 ELSE 0)
    BY <2>1, <2>3, <2>4, <2>5
  <2>7. Distinct(t)
    <3> SUFFICES ASSUME NEW j \in 1..(Len(s) + 1), NEW k \in 1..(Len(s) + 1), t[j].name = t[k].name
                 PROVE  j = k
      BY <2>1, <2>2 DEF Distinct
    <3>1. \A l \in 1..(Len(s) + 1) : (l \in 1..Len(s) /\ t[l] = s[l]) \/ (l = Len(s) + 1 /\ t[l] = a)
      BY <1>2, <2>1, <2>2
    <3> QED BY <1>1, <1>3, <3>1 DEF Distinct
  <2>8. ASSUME NEW m PROVE Find(t, m) = IF m = n THEN v ELSE Find(s, m)
    <3>1. t \in Seq(Attri) /\ Len(t) = Len(s) + 1
      BY <2>1, <2>2
    <3>2. CASE m = n
      <4>1. Len(s) + 1 \in 1..Len(t) /\ t[Len(s) + 1].name = n /\ t[Len(s) + 1].value = v
        BY <1>1, <1>2, <2>1, <2>2
      <4> QED BY <2>7, <3>1, <3>2, <4>1, FindAt
    <3>3. CASE m # n /\ \E j \in 1..Len(s) : s[j].name = m
      <4>1. PICK j \in 1..Len(s) : s[j].name = m
        BY <3>3
      <4>2. j \in 1..Len(t) /\ t[j] = s[j]
        BY <1>2, <2>1, <2>2
      <4>3. Find(t, m) = t[j].value
        BY <2>7, <3>1, <4>1, <4>2, FindAt
      <4>4. Find(s, m) = s[j].value
        BY <4>1, FindAt
      <4> QED BY <3>3, <4>2, <4>3, <4>4
    <3>4. CASE m # n /\ \A j \in 1..Len(s) : s[j].name # m
      <4>1. \A j \in 1..Len(t) : t[j].name # m
        <5>1. \A l \in 1..(Len(s) + 1) : (l \in 1..Len(s) /\ t[l] = s[l]) \/ (l = Len(s) + 1 /\ t[l] = a)
          BY <1>2, <2>1, <2>2
        <5> QED BY <1>1, <3>1, <3>4, <5>1
      <4> QED BY <3>1, <3>4, <4>1, FindValue
    <3> QED BY <3>2, <3>3, <3>4
  <2> QED BY <2>1, <2>2, <2>6, <2>7, <2>8 DEF t
<1>4. CASE i \in 1..Len(s) /\ s[i].name = n
  <2>1. i # 0
    BY <1>2, <1>4
  <2>2. t = ReplaceAt(s, i, a)
    BY <2>1 DEF NewList, a
  <2>3. /\ t = [s EXCEPT ![i] = a] /\ t \in Seq(Attri) /\ Len(t) = Len(s)
        /\ \A j \in 1..Len(s) : t[j] = IF j = i THEN a ELSE s[j]
    BY <1>1, <1>4, <2>2, ExceptSeq DEF ReplaceAt
  <2>4. Find(s, n) = s[i].value
    BY <2>1 DEF Find
  <2>5. \A x : Old(s, n, x) = IF s[i].value = x THEN 1 ELSE 0
    BY <2>1, <2>4 DEF Old
  <2> HIDE DEF t, i
  <2>6. \A x : Occurrences(Vals(ReplaceAt(s, i, a)), x)
                 = Occurrences(Vals(s), x) - (IF s[i].value = x THEN 1 ELSE 0)
                                           + (IF a.value = x THEN 1 ELSE 0)
    BY <1>1, <1>4, ValsReplace
  <2>7. \A x : Occurrences(Vals(t), x)
                 = Occurrences(Vals(s), x) - Old(s, n, x) + (IF v = x THEN 1 ELSE 0)
    BY <1>1, <2>2, <2>5, <2>6
  <2>8. \A j \in 1..Len(s) : t[j].name = s[j].name
    BY <1>1, <1>4, <2>3
  <2>9. Distinct(t)
    BY <2>3, <2>8 DEF Distinct
  <2>10. ASSUME NEW m PROVE Find(t, m) = IF m = n THEN v ELSE Find(s, m)
    <3>1. CASE \E j \in 1..Len(s) : s[j].name = m
      <4>1. PICK j \in 1..Len(s) : s[j].name = m
        BY <3>1
      <4>2. j \in 1..Len(t) /\ t[j].name = m
        BY <2>3, <2>8, <4>1
      <4>3. Find(t, m) = t[j].value
        BY <2>3, <2>9, <4>2, FindAt
      <4>4. Find(s, m) = s[j].value
        BY <4>1, FindAt
      <4>5. m = n <=> j = i
        BY <1>4, <4>1 DEF Distinct
      <4> QED BY <1>1, <2>3, <4>3, <4>4, <4>5
    <3>2. CASE \A j \in 1..Len(s) : s[j].name # m
      <4>1. m # n
        BY <1>4, <3>2
      <4>2. \A j \in 1..Len(t) : t[j].name # m
        BY <2>3, <2>8, <3>2
      <4>3. Find(t, m) = None
        BY <2>3, <4>2, FindValue
      <4>4. Find(s, m) = None
        BY <3>2, FindValue
      <4> QED BY <4>1, <4>3, <4>4
    <3> QED BY <3>1, <3>2
  <2> QED BY <2>3, <2>7, <2>9, <2>10 DEF t
<1> QED BY <1>3, <1>4, PositionFirst

\* The list after attr_del.
Deleted(s, n) == IF Position(s, n) = 0 THEN s ELSE RemoveAt(s, Position(s, n))

\* What attr_del makes of an attribute list: references, names and values.
LEMMA DeletedProperties ==
  ASSUME NEW s \in Seq(Attri), Distinct(s), NEW n
  PROVE  LET t == Deleted(s, n)
         IN  /\ t \in Seq(Attri) /\ Distinct(t)
             /\ \A x : Occurrences(Vals(t), x) = Occurrences(Vals(s), x) - Old(s, n, x)
             /\ \A m : Find(t, m) = IF m = n THEN None ELSE Find(s, m)
<1> DEFINE i == Position(s, n)
           t == Deleted(s, n)
<1>1. Len(s) \in Nat
  BY LenProperties
<1>2. CASE i = 0 /\ \A j \in 1..Len(s) : s[j].name # n
  <2>1. t = s
    BY <1>2 DEF Deleted
  <2>2. \A x : Old(s, n, x) = 0 /\ Occurrences(Vals(s), x) \in Nat
    BY <1>2, ValsType, OccurrencesFinite DEF Old
  <2>3. Find(s, n) = None
    BY <1>2 DEF Find
  <2> HIDE DEF t
  <2>4. \A x : Occurrences(Vals(t), x) = Occurrences(Vals(s), x) - Old(s, n, x)
    BY <2>1, <2>2
  <2> QED BY <2>1, <2>3, <2>4 DEF t
<1>3. CASE i \in 1..Len(s) /\ s[i].name = n
  <2>1. i # 0
    BY <1>1, <1>3
  <2>2. t = RemoveAt(s, i)
    BY <2>1 DEF Deleted
  <2>3. Find(s, n) = s[i].value
    BY <2>1 DEF Find
  <2>4. \A x : Old(s, n, x) = IF s[i].value = x THEN 1 ELSE 0
    BY <2>1, <2>3 DEF Old
  <2> HIDE DEF t, i
  <2>5. /\ t \in Seq(Attri) /\ Len(t) = Len(s) - 1
        /\ \A j \in 1..(Len(s) - 1) : t[j] = IF j < i THEN s[j] ELSE s[j + 1]
    BY <1>3, <2>2, RemoveAtProperties
  <2>6. \A x : Occurrences(Vals(t), x) = Occurrences(Vals(s), x) - Old(s, n, x)
    BY <1>3, <2>2, <2>4, ValsRemove
  <2> DEFINE old(j) == IF j < i THEN j ELSE j + 1
  <2>7. \A j \in 1..Len(t) : old(j) \in 1..Len(s) /\ old(j) # i /\ t[j] = s[old(j)]
    BY <1>1, <1>3, <2>5
  <2>8. \A j, k \in 1..Len(t) : old(j) = old(k) => j = k
    BY <1>1, <1>3, <2>5
  <2>9. ASSUME NEW k \in 1..Len(s), k # i PROVE \E j \in 1..Len(t) : old(j) = k
    <3>1. CASE k < i
      BY <1>1, <1>3, <2>5, <3>1
    <3>2. CASE ~ (k < i)
      <4>1. k - 1 \in 1..Len(t) /\ old(k - 1) = k
        BY <1>1, <1>3, <2>5, <2>9, <3>2
      <4> QED BY <4>1
    <3> QED BY <3>1, <3>2
  <2> HIDE DEF old
  <2>10. Distinct(t)
    BY <2>7, <2>8 DEF Distinct
  <2>11. ASSUME NEW m PROVE Find(t, m) = IF m = n THEN None ELSE Find(s, m)
    <3>1. CASE \E j \in 1..Len(t) : t[j].name = m
      <4>1. PICK j \in 1..Len(t) : t[j].name = m
        BY <3>1
      <4>2. Find(t, m) = t[j].value
        BY <2>5, <2>10, <4>1, FindAt
      <4>3. Find(s, m) = s[old(j)].value
        BY <2>7, <4>1, FindAt
      <4>4. m # n
        BY <1>3, <2>7, <4>1 DEF Distinct
      <4> QED BY <2>7, <4>2, <4>3, <4>4
    <3>2. CASE \A j \in 1..Len(t) : t[j].name # m
      <4>1. Find(t, m) = None
        BY <2>5, <3>2, FindValue
      <4>2. m # n => \A k \in 1..Len(s) : s[k].name # m
        BY <1>3, <2>7, <2>9, <3>2
      <4> QED BY <4>1, <4>2, FindValue
    <3> QED BY <3>1, <3>2
  <2> QED BY <2>5, <2>6, <2>10, <2>11 DEF t
<1> QED BY <1>2, <1>3, PositionFirst

-----------------------------------------------------------------------------
(* The invariant *)

Item == ({"FREE"} \X Value) \cup ({"free"} \X Obj)

\* What the invariant counts are naturals.
LEMMA Numbers ==
  ASSUME TypeOK, NEW x
  PROVE  /\ Cardinality(PlacesOf(attr, x)) \in Nat
         /\ Occurrences(todo, <<"FREE", x>>) \in Nat
         /\ Occurrences(todo, <<"free", x>>) \in Nat
         /\ \A o \in Obj : attr[o] \in Seq(Attri) /\ Occurrences(Vals(attr[o]), x) \in Nat
<1>1. attr \in [Obj -> Seq(Attri)] /\ todo \in Seq(Item)
  BY DEF TypeOK, Item
<1>2. Cardinality(PlacesOf(attr, x)) \in Nat
  BY <1>1, PlacesFinite
<1>3. Occurrences(todo, <<"FREE", x>>) \in Nat /\ Occurrences(todo, <<"free", x>>) \in Nat
  BY <1>1, OccurrencesFinite
<1>4. ASSUME NEW o \in Obj PROVE attr[o] \in Seq(Attri) /\ Occurrences(Vals(attr[o]), x) \in Nat
  <2>1. attr[o] \in Seq(Attri)
    BY <1>1
  <2> QED BY <2>1, ValsType, OccurrencesFinite
<1> QED BY <1>2, <1>3, <1>4

\* RcExact, before and after a step.
LEMMA RcExactIs ==
  /\ RcExact <=> \A x \in Obj : rc[x] = refs[x] + Cardinality(PlacesOf(attr, x))
                                        + Occurrences(todo, <<"FREE", x>>)
  /\ RcExact' <=> \A x \in Obj : rc'[x] = refs'[x] + Cardinality(PlacesOf(attr', x))
                                          + Occurrences(todo', <<"FREE", x>>)
BY DEF RcExact, Places, Pairs, PlacesOf

\* A place for a value is a reference to it.
LEMMA PlaceCounts ==
  ASSUME TypeOK, NEW o \in Obj, NEW i \in 1..Len(attr[o])
  PROVE  Cardinality(PlacesOf(attr, attr[o][i].value)) > 0
<1>1. <<o, i>> \in PlacesOf(attr, attr[o][i].value)
  BY PlacesIn
<1>2. attr \in [Obj -> Seq(Attri)]
  BY DEF TypeOK
<1> QED BY <1>1, <1>2, PlacesFinite, FS_EmptySet

\* What the caller or an attribute refers to has references.
LEMMA Referred ==
  ASSUME TypeOK, RcExact
  PROVE  /\ \A x \in Obj : refs[x] > 0 => rc[x] > 0
         /\ \A o \in Obj : \A i \in 1..Len(attr[o]) :
              attr[o][i].value \in Obj => rc[attr[o][i].value] > 0
<1>1. ASSUME NEW x \in Obj, refs[x] > 0 \/ Cardinality(PlacesOf(attr, x)) > 0
      PROVE  rc[x] > 0
  <2>1. /\ rc[x] \in Nat /\ refs[x] \in Nat /\ Cardinality(PlacesOf(attr, x)) \in Nat
        /\ Occurrences(todo, <<"FREE", x>>) \in Nat
    BY Numbers DEF TypeOK
  <2>2. rc[x] = refs[x] + Cardinality(PlacesOf(attr, x)) + Occurrences(todo, <<"FREE", x>>)
    BY RcExactIs
  <2> QED BY <1>1, <2>1, <2>2
<1> QED BY <1>1, PlaceCounts

\* Between two calls nothing is under way.
LEMMA WhenIdle ==
  ASSUME Idle
  PROVE  \A x : Occurrences(todo, <<"FREE", x>>) = 0 /\ Occurrences(todo, <<"free", x>>) = 0
BY OccurrencesEmpty DEF Idle

\* Nothing is allocated at first.
LEMMA InitIInv ==
  ASSUME Init
  PROVE  IInv
<1>1. TypeOK
  <2>1. <<>> \in Seq(Attri) /\ <<>> \in Seq(Item) /\ <<>> \in Seq(Name \X (Value \cup {None}))
    OBVIOUS
  <2> QED BY <2>1 DEF Init, TypeOK, Item
<1>2. Keyed
  BY DEF Init, Keyed, Distinct
<1>3. RcExact
  <2>1. \A x : PlacesOf(attr, x) = {}
    BY DEF Init, PlacesOf
  <2>2. \A x : Cardinality(PlacesOf(attr, x)) = 0
    BY <2>1, FS_EmptySet
  <2>3. \A x : Occurrences(todo, <<"FREE", x>>) = 0
    BY WhenIdle DEF Init, Idle
  <2> QED BY <2>2, <2>3, RcExactIs DEF Init
<1>4. Lives
  BY DEF Init, Lives
<1>5. Freeing
  <2>1. \A x : Occurrences(todo, <<"free", x>>) = 0
    BY WhenIdle DEF Init, Idle
  <2> QED BY <2>1 DEF Init, Freeing
<1> QED BY <1>1, <1>2, <1>3, <1>4, <1>5 DEF IInv

\* allocd hands out a fresh object with one reference.
LEMMA allocdStep ==
  ASSUME IInv, NEW o \in Obj, allocd(o)
  PROVE  IInv'
<1> USE DEF IInv
<1>1. rc[o] = 0 /\ attr[o] = <<>> /\ refs[o] = 0 /\ Cardinality(PlacesOf(attr, o)) = 0
  <2>1. rc[o] = 0 /\ attr[o] = <<>>
    BY DEF allocd, Lives, TypeOK
  <2>2. rc[o] = refs[o] + Cardinality(PlacesOf(attr, o)) + Occurrences(todo, <<"FREE", o>>)
    BY RcExactIs
  <2>3. /\ refs[o] \in Nat /\ Cardinality(PlacesOf(attr, o)) \in Nat
        /\ Occurrences(todo, <<"FREE", o>>) \in Nat
    BY Numbers DEF TypeOK
  <2> QED BY <2>1, <2>2, <2>3
<1>2. attr' = attr
  BY <1>1 DEF allocd, TypeOK
<1>3. \A x : Occurrences(todo, <<"FREE", x>>) = 0 /\ Occurrences(todo, <<"free", x>>) = 0
  BY WhenIdle DEF allocd
<1>4. todo' = todo
  BY DEF allocd
<1>5. /\ \A x \in Obj : /\ rc'[x] = IF x = o THEN 1 ELSE rc[x]
                        /\ refs'[x] = IF x = o THEN 1 ELSE refs[x]
                        /\ destroyed'[x] = IF x = o THEN 0 ELSE destroyed[x]
      /\ live' = live \cup {o}
  BY DEF allocd, TypeOK
<1>6. TypeOK'
  <2>1. <<>> \in Seq(Name \X (Value \cup {None}))
    OBVIOUS
  <2> QED BY <1>2, <1>4, <2>1 DEF allocd, TypeOK
<1>7. Keyed'
  BY <1>2 DEF Keyed
<1>8. RcExact'
  <2>1. ASSUME NEW x \in Obj
        PROVE  rc'[x] = refs'[x] + Cardinality(PlacesOf(attr', x)) + Occurrences(todo', <<"FREE", x>>)
    <3>1. rc[x] = refs[x] + Cardinality(PlacesOf(attr, x)) + Occurrences(todo, <<"FREE", x>>)
      BY RcExactIs
    <3> QED BY <1>1, <1>2, <1>3, <1>4, <1>5, <3>1
  <2> QED BY <2>1, RcExactIs
<1>9. Lives'
  BY <1>1, <1>2, <1>5 DEF Lives
<1>10. Freeing'
  BY <1>3, <1>4, <1>5 DEF Freeing
<1> QED BY <1>6, <1>7, <1>8, <1>9, <1>10

\* Taking references on objects that have some.
LEMMA RefAllStep ==
  ASSUME IInv, NEW s \in Seq(Value \cup {None}), RefAll(s),
         \A i \in 1..Len(s) : s[i] \in Obj => rc[s[i]] > 0,
         UNCHANGED <<live, attr, todo, destroyed>>,
         ret' \in Seq(Name \X (Value \cup {None})) \cup (Name \X (Value \cup {None}))
  PROVE  IInv'
<1> USE DEF IInv
<1>1. \A x \in Obj : /\ Occurrences(s, x) \in Nat
                     /\ rc'[x] = rc[x] + Occurrences(s, x)
                     /\ refs'[x] = refs[x] + Occurrences(s, x)
                     /\ rc[x] \in Nat /\ refs[x] \in Nat
  BY OccurrencesFinite DEF RefAll, TypeOK
<1>2. TypeOK'
  <2>1. rc' \in [Obj -> Nat] /\ refs' \in [Obj -> Nat]
    BY <1>1 DEF RefAll
  <2> QED BY <2>1 DEF TypeOK
<1>3. Keyed'
  BY DEF Keyed
<1>4. RcExact'
  <2>1. ASSUME NEW x \in Obj
        PROVE  rc'[x] = refs'[x] + Cardinality(PlacesOf(attr', x)) + Occurrences(todo', <<"FREE", x>>)
    <3>1. rc[x] = refs[x] + Cardinality(PlacesOf(attr, x)) + Occurrences(todo, <<"FREE", x>>)
      BY RcExactIs
    <3>2. Cardinality(PlacesOf(attr, x)) \in Nat /\ Occurrences(todo, <<"FREE", x>>) \in Nat
      BY Numbers
    <3> QED BY <1>1, <3>1, <3>2
  <2> QED BY <2>1, RcExactIs
<1>5. \A x \in Obj : rc'[x] > 0 <=> rc[x] > 0
  <2> SUFFICES ASSUME NEW x \in Obj, rc[x] = 0 PROVE Occurrences(s, x) = 0
    BY <1>1
  <2>1. \A i \in 1..Len(s) : s[i] # x
    OBVIOUS
  <2> QED BY <2>1, OccurrencesFinite
<1>6. Lives'
  BY <1>5 DEF Lives
<1>7. Freeing'
  <2>1. \A x \in Obj : rc'[x] = 0 <=> rc[x] = 0
    BY <1>1, <1>5
  <2> QED BY <2>1 DEF Freeing
<1> QED BY <1>2, <1>3, <1>4, <1>6, <1>7

\* ref adds a reference.
LEMMA refStep ==
  ASSUME IInv, NEW o \in Obj, ref(o)
  PROVE  IInv'
<1>1. <<o>> \in Seq(Value \cup {None}) /\ \A i \in 1..Len(<<o>>) : <<o>>[i] = o
  BY DEF Value
<1>2. rc[o] > 0
  BY Referred DEF ref, Held, IInv
<1>3. <<>> \in Seq(Name \X (Value \cup {None}))
  OBVIOUS
<1>4. RefAll(<<o>>) /\ UNCHANGED <<live, attr, todo, destroyed>> /\ ret' = <<>>
  BY DEF ref
<1>5. \A i \in 1..Len(<<o>>) : <<o>>[i] \in Obj => rc[<<o>>[i]] > 0
  BY <1>1, <1>2
<1> QED BY <1>1, <1>3, <1>4, <1>5, RefAllStep

\* attr_get adds a reference to an object it finds.
LEMMA attr_getStep ==
  ASSUME IInv, NEW o \in Obj, NEW n \in Name, attr_get(o, n)
  PROVE  IInv'
<1> DEFINE v == Lookup(o, n)
<1>1. v \in Value \cup {None} /\ (v \in Obj => rc[v] > 0)
  <2>1. attr[o] \in Seq(Attri)
    BY DEF IInv, TypeOK
  <2>2. CASE Position(attr[o], n) = 0
    BY <2>2, ValuesDistinct DEF Lookup, Value
  <2>3. CASE Position(attr[o], n) \in 1..Len(attr[o])
    <3>1. Position(attr[o], n) # 0
      BY <2>1, <2>3, LenProperties
    <3>2. v = attr[o][Position(attr[o], n)].value
      BY <3>1 DEF Lookup
    <3>3. v \in Value
      BY <2>1, <2>3, <3>2, ValsType
    <3>4. v \in Obj => rc[v] > 0
      BY <2>3, <3>2, Referred DEF IInv
    <3> QED BY <3>3, <3>4
  <2> QED BY <2>1, <2>2, <2>3, PositionFirst
<1>2. /\ ret' = <<n, v>> /\ RefAll(<<v>>)
      /\ UNCHANGED <<live, attr, todo, destroyed>>
  BY DEF attr_get
<1> HIDE DEF v
<1>3. <<v>> \in Seq(Value \cup {None}) /\ \A i \in 1..Len(<<v>>) : <<v>>[i] = v
  BY <1>1
<1>4. ret' \in Name \X (Value \cup {None})
  BY <1>1, <1>2
<1>5. \A i \in 1..Len(<<v>>) : <<v>>[i] \in Obj => rc[<<v>>[i]] > 0
  BY <1>1, <1>3
<1> QED BY <1>2, <1>3, <1>4, <1>5, RefAllStep

\* The first k attributes of a list.
First(s, k) == SubSeq(s, 1, IF k < Len(s) THEN k ELSE Len(s))

\* The first k elements of a list, as attr_getall copies them.
LEMMA FirstProperties ==
  ASSUME NEW s \in Seq(Attri), NEW k \in Nat
  PROVE  /\ First(s, k) \in Seq(Attri)
         /\ Len(First(s, k)) = IF k < Len(s) THEN k ELSE Len(s)
         /\ \A i \in 1..Len(First(s, k)) : i \in 1..Len(s) /\ First(s, k)[i] = s[i]
<1> DEFINE m == IF k < Len(s) THEN k ELSE Len(s)
<1>1. Len(s) \in Nat /\ \A i \in 1..Len(s) : s[i] \in Attri
  BY LenProperties, ElementOfSeq
<1>2. m \in Nat /\ m <= Len(s)
  BY <1>1
<1> HIDE DEF m
<1>3. \A i \in 1..m : s[i] \in Attri
  BY <1>1, <1>2
<1>4. /\ SubSeq(s, 1, m) \in Seq(Attri) /\ Len(SubSeq(s, 1, m)) = m
      /\ \A i \in 1..m : SubSeq(s, 1, m)[i] = s[i]
  BY <1>2, <1>3, SubSeqProperties
<1>5. \A i \in 1..m : i \in 1..Len(s)
  BY <1>1, <1>2
<1>6. First(s, k) = SubSeq(s, 1, m)
  BY DEF First, m
<1> QED BY <1>4, <1>5, <1>6 DEF m

\* attr_getall changes nothing.
LEMMA attr_getallStep ==
  ASSUME IInv, NEW o \in Obj, NEW k \in 0..MaxAttrs, attr_getall(o, k)
  PROVE  IInv'
<1> DEFINE s == First(attr[o], k)
           t == [i \in 1..Len(s) |-> s[i].value]
           r == [i \in 1..Len(s) |-> <<s[i].name, s[i].value>>]
<1>1. /\ ret' = r /\ RefAll(t)
      /\ UNCHANGED <<live, attr, todo, destroyed>>
  BY DEF attr_getall, First
<1>2. s \in Seq(Attri) /\ \A i \in 1..Len(s) : i \in 1..Len(attr[o]) /\ s[i] = attr[o][i]
  <2>1. attr[o] \in Seq(Attri) /\ k \in Nat
    BY BoundsNat DEF IInv, TypeOK
  <2> QED BY <2>1, FirstProperties
<1> HIDE DEF s
<1>3. Len(s) \in Nat /\ \A i \in 1..Len(s) : s[i].value \in Value /\ s[i].name \in Name
  <2>1. Len(s) \in Nat /\ \A i \in 1..Len(s) : s[i] \in Attri
    BY <1>2, LenProperties, ElementOfSeq
  <2> QED BY <2>1 DEF Attri
<1>4. t \in Seq(Value \cup {None}) /\ Len(t) = Len(s)
  <2>1. \A i \in 1..Len(s) : s[i].value \in Value \cup {None}
    BY <1>3
  <2> QED BY <1>3, <2>1, IsASeq
<1>5. r \in Seq(Name \X (Value \cup {None}))
  <2>1. \A i \in 1..Len(s) : <<s[i].name, s[i].value>> \in Name \X (Value \cup {None})
    BY <1>3
  <2> QED BY <1>3, <2>1, IsASeq
<1>6. \A i \in 1..Len(t) : t[i] \in Obj => rc[t[i]] > 0
  <2>1. \A i \in 1..Len(s) : t[i] = attr[o][i].value /\ i \in 1..Len(attr[o])
    BY <1>2
  <2> QED BY <1>4, <2>1, Referred DEF IInv
<1> HIDE DEF t, r
<1> QED BY <1>1, <1>4, <1>5, <1>6, RefAllStep

\* A client that calls FREE gives its reference to the pending work.
LEMMA CallFREEStep ==
  ASSUME IInv, NEW o \in Obj, CallFREE(o)
  PROVE  IInv'
<1> USE DEF IInv
<1>1. /\ todo' = <<<<"FREE", o>>>> /\ ret' = <<>>
      /\ UNCHANGED <<live, rc, attr, destroyed>>
      /\ \A x \in Obj : refs'[x] = IF x = o THEN refs[x] - 1 ELSE refs[x]
      /\ refs' = [refs EXCEPT ![o] = refs[o] - 1]
      /\ refs[o] > 0
  BY DEF CallFREE, Held, TypeOK
<1>2. \A x : /\ Occurrences(todo, <<"FREE", x>>) = 0 /\ Occurrences(todo, <<"free", x>>) = 0
             /\ Occurrences(todo', <<"FREE", x>>) = IF o = x THEN 1 ELSE 0
             /\ Occurrences(todo', <<"free", x>>) = 0
  <2>1. \A x : Occurrences(todo, <<"FREE", x>>) = 0 /\ Occurrences(todo, <<"free", x>>) = 0
    BY WhenIdle DEF CallFREE, Held
  <2>2. \A y : Occurrences(<<<<"FREE", o>>>>, y) = IF <<"FREE", o>> = y THEN 1 ELSE 0
    BY OccurrencesOne
  <2> QED BY <1>1, <2>1, <2>2
<1>3. TypeOK'
  <2>1. <<"FREE", o>> \in Item
    BY DEF Item, Value
  <2>2. <<<<"FREE", o>>>> \in Seq(Item) /\ <<>> \in Seq(Name \X (Value \cup {None}))
    BY <2>1
  <2>3. refs[o] - 1 \in Nat
    BY <1>1 DEF TypeOK
  <2> QED BY <1>1, <2>2, <2>3 DEF TypeOK, Item
<1>4. Keyed'
  BY <1>1 DEF Keyed
<1>5. RcExact'
  <2>1. ASSUME NEW x \in Obj
        PROVE  rc'[x] = refs'[x] + Cardinality(PlacesOf(attr', x)) + Occurrences(todo', <<"FREE", x>>)
    <3>1. rc[x] = refs[x] + Cardinality(PlacesOf(attr, x)) + Occurrences(todo, <<"FREE", x>>)
      BY RcExactIs
    <3>2. Cardinality(PlacesOf(attr, x)) \in Nat /\ refs[x] \in Nat
      BY Numbers DEF TypeOK
    <3> QED BY <1>1, <1>2, <3>1, <3>2
  <2> QED BY <2>1, RcExactIs
<1>6. Lives'
  BY <1>1 DEF Lives
<1>7. Freeing'
  BY <1>1, <1>2 DEF Freeing
<1> QED BY <1>3, <1>4, <1>5, <1>6, <1>7

\* What the head of todo was worth.
LEMMA HeadCounts ==
  ASSUME TypeOK, todo # <<>>
  PROVE  /\ Tail(todo) \in Seq(Item) /\ Head(todo) \in Item
         /\ \A y : /\ Occurrences(todo, y) = (IF Head(todo) = y THEN 1 ELSE 0)
                                             + Occurrences(Tail(todo), y)
                   /\ Occurrences(Tail(todo), y) \in Nat
<1>1. todo \in Seq(Item)
  BY DEF TypeOK, Item
<1>2. Tail(todo) \in Seq(Item) /\ Head(todo) \in Item
  BY <1>1, HeadTailProperties
<1>3. \A y : Occurrences(Tail(todo), y) \in Nat
  BY <1>2, OccurrencesFinite
<1>4. \A y : Occurrences(todo, y) = (IF Head(todo) = y THEN 1 ELSE 0) + Occurrences(Tail(todo), y)
  BY <1>1, OccurrencesHeadTail
<1> QED BY <1>2, <1>3, <1>4

\* FREE drops a reference, and with the last one passes the references of the list on.
LEMMA FREEStep ==
  ASSUME IInv, NEW o \in Obj, FREE(o)
  PROVE  IInv'
<1> USE DEF IInv
<1>1. /\ todo # <<>> /\ Head(todo) = <<"FREE", o>>
      /\ rc' = [rc EXCEPT ![o] = rc[o] - 1]
      /\ \A x \in Obj : rc'[x] = IF x = o THEN rc[o] - 1 ELSE rc[x]
      /\ ret' = <<>> /\ live' = live /\ refs' = refs
  BY DEF FREE, TypeOK
<1>2. \A x : /\ Occurrences(todo, <<"FREE", x>>)
                  = (IF x = o THEN 1 ELSE 0) + Occurrences(Tail(todo), <<"FREE", x>>)
             /\ Occurrences(todo, <<"free", x>>) = Occurrences(Tail(todo), <<"free", x>>)
             /\ Occurrences(Tail(todo), <<"FREE", x>>) \in Nat
             /\ Occurrences(Tail(todo), <<"free", x>>) \in Nat
  <2>1. \A y : /\ Occurrences(todo, y) = (IF <<"FREE", o>> = y THEN 1 ELSE 0)
                                         + Occurrences(Tail(todo), y)
               /\ Occurrences(Tail(todo), y) \in Nat
    BY <1>1, HeadCounts
  <2>2. \A x : <<"FREE", o>> # <<"free", x>> /\ (<<"FREE", o>> = <<"FREE", x>> <=> x = o)
    OBVIOUS
  <2> QED BY <2>1, <2>2
<1>3. \A x \in Obj : /\ rc[x] = refs[x] + Cardinality(PlacesOf(attr, x))
                                + Occurrences(todo, <<"FREE", x>>)
                     /\ refs[x] \in Nat /\ rc[x] \in Nat
                     /\ Cardinality(PlacesOf(attr, x)) \in Nat
  BY RcExactIs, Numbers DEF TypeOK
<1>4. rc[o] > 0 /\ rc[o] - 1 \in Nat /\ o \in live /\ destroyed[o] = 0
  <2>1. /\ rc[o] = refs[o] + Cardinality(PlacesOf(attr, o)) + Occurrences(todo, <<"FREE", o>>)
        /\ refs[o] \in Nat /\ rc[o] \in Nat /\ Cardinality(PlacesOf(attr, o)) \in Nat
    BY <1>3
  <2>2. /\ Occurrences(todo, <<"FREE", o>>) = 1 + Occurrences(Tail(todo), <<"FREE", o>>)
        /\ Occurrences(Tail(todo), <<"FREE", o>>) \in Nat
    BY <1>2
  <2>3. rc[o] > 0 /\ rc[o] - 1 \in Nat
    BY <2>1, <2>2
  <2> QED BY <2>3 DEF Lives
<1>5. Tail(todo) \in Seq(Item) /\ <<>> \in Seq(Name \X (Value \cup {None}))
  BY <1>1, HeadCounts
<1>6. CASE LastReference(o)
  <2> DEFINE R == Releases(attr[o])
             S == <<<<"free", o>>>>
  <2>1. /\ todo' = (R \o S) \o Tail(todo)
        /\ attr' = [attr EXCEPT ![o] = <<>>]
        /\ destroyed' = [destroyed EXCEPT ![o] = destroyed[o] + 1]
    BY <1>6 DEF FREE
  <2>2. rc[o] = 1 /\ refs[o] = 0 /\ Cardinality(PlacesOf(attr, o)) = 0
    <3>1. /\ rc[o] = refs[o] + Cardinality(PlacesOf(attr, o)) + Occurrences(todo, <<"FREE", o>>)
          /\ refs[o] \in Nat /\ Cardinality(PlacesOf(attr, o)) \in Nat
      BY <1>3
    <3>2. /\ Occurrences(todo, <<"FREE", o>>) = 1 + Occurrences(Tail(todo), <<"FREE", o>>)
          /\ Occurrences(Tail(todo), <<"FREE", o>>) \in Nat
      BY <1>2
    <3>3. rc[o] = 1
      BY <1>6 DEF LastReference
    <3> QED BY <3>1, <3>2, <3>3
  <2>3. attr \in [Obj -> Seq(Attri)] /\ attr[o] \in Seq(Attri) /\ <<>> \in Seq(Attri)
    BY DEF TypeOK
  <2>4. /\ R \in Seq(Item)
        /\ \A x : /\ Occurrences(R, <<"FREE", x>>) = Occurrences(Vals(attr[o]), x)
                  /\ Occurrences(R, <<"free", x>>) = 0
    <3>1. Releases(attr[o]) \in Seq({"FREE"} \X Value)
      BY <2>3, ReleasesValues
    <3>2. Releases(attr[o]) \in Seq(Item)
      BY <3>1 DEF Item
    <3> QED BY <2>3, <3>2, ReleasesValues
  <2>5. S \in Seq(Item)
    <3>1. <<"free", o>> \in Item
      BY DEF Item
    <3> QED BY <3>1
  <2>6. \A x : /\ Occurrences(S, <<"FREE", x>>) = 0
               /\ Occurrences(S, <<"free", x>>) = IF x = o THEN 1 ELSE 0
    <3>1. \A y : Occurrences(S, y) = IF <<"free", o>> = y THEN 1 ELSE 0
      BY OccurrencesOne
    <3>2. \A x : <<"free", o>> # <<"FREE", x>> /\ (<<"free", o>> = <<"free", x>> <=> x = o)
      OBVIOUS
    <3> HIDE DEF S
    <3> QED BY <3>1, <3>2
  <2> HIDE DEF R, S
  <2>7. R \o S \in Seq(Item) /\ (R \o S) \o Tail(todo) \in Seq(Item)
    <3>1. R \o S \in Seq(Item)
      BY <2>4, <2>5, ConcatProperties
    <3> QED BY <1>5, <3>1, ConcatProperties
  <2>8. \A y : Occurrences(todo', y)
                 = Occurrences(R, y) + Occurrences(S, y) + Occurrences(Tail(todo), y)
    <3>1. \A y : Occurrences(R \o S, y) = Occurrences(R, y) + Occurrences(S, y)
      BY <2>4, <2>5, OccurrencesConcat
    <3>2. \A y : Occurrences((R \o S) \o Tail(todo), y)
                   = Occurrences(R \o S, y) + Occurrences(Tail(todo), y)
      BY <1>5, <2>7, OccurrencesConcat
    <3> QED BY <2>1, <3>1, <3>2
  <2>9. ASSUME NEW x
        PROVE  Cardinality(PlacesOf(attr', x))
                 = Cardinality(PlacesOf(attr, x)) - Occurrences(Vals(attr[o]), x)
    <3>1. Cardinality(PlacesOf([attr EXCEPT ![o] = <<>>], x))
            = Cardinality(PlacesOf(attr, x)) - Occurrences(Vals(attr[o]), x)
              + Occurrences(Vals(<<>>), x)
      BY <2>3, PlacesChange
    <3>2. Vals(<<>>) = <<>>
      BY DEF Vals
    <3>3. Occurrences(Vals(<<>>), x) = 0
      BY <3>2, OccurrencesEmpty
    <3>4. Cardinality(PlacesOf(attr, x)) \in Nat /\ Occurrences(Vals(attr[o]), x) \in Nat
      BY Numbers
    <3> QED BY <2>1, <3>1, <3>3, <3>4
  <2>10. TypeOK'
    <3>1. destroyed[o] + 1 \in Nat
      BY DEF TypeOK
    <3> QED BY <1>1, <1>4, <1>5, <2>1, <2>3, <2>7, <3>1 DEF TypeOK, Item
  <2>11. \A x \in Obj : attr'[x] = IF x = o THEN <<>> ELSE attr[x]
    BY <2>1, <2>3
  <2>12. Keyed'
    BY <2>11 DEF Keyed, Distinct
  <2>13. RcExact'
    <3>1. ASSUME NEW x \in Obj
          PROVE  rc'[x] = refs'[x] + Cardinality(PlacesOf(attr', x))
                          + Occurrences(todo', <<"FREE", x>>)
      <4>1. Occurrences(todo', <<"FREE", x>>)
              = Occurrences(Vals(attr[o]), x) + 0 + Occurrences(Tail(todo), <<"FREE", x>>)
        BY <2>4, <2>6, <2>8
      <4>2. Occurrences(Vals(attr[o]), x) \in Nat
        BY Numbers
      <4>3. /\ rc'[x] = (IF x = o THEN rc[o] - 1 ELSE rc[x]) /\ refs'[x] = refs[x]
            /\ rc[x] = refs[x] + Cardinality(PlacesOf(attr, x))
                       + Occurrences(todo, <<"FREE", x>>)
            /\ refs[x] \in Nat /\ Cardinality(PlacesOf(attr, x)) \in Nat
        BY <1>1, <1>3
      <4>4. /\ Occurrences(todo, <<"FREE", x>>)
                 = (IF x = o THEN 1 ELSE 0) + Occurrences(Tail(todo), <<"FREE", x>>)
            /\ Occurrences(Tail(todo), <<"FREE", x>>) \in Nat
        BY <1>2
      <4>5. Cardinality(PlacesOf(attr', x))
              = Cardinality(PlacesOf(attr, x)) - Occurrences(Vals(attr[o]), x)
        BY <2>9
      <4>6. CASE x = o
        BY <4>1, <4>2, <4>3, <4>4, <4>5, <4>6
      <4>7. CASE x # o
        BY <4>1, <4>2, <4>3, <4>4, <4>5, <4>7
      <4> QED BY <4>6, <4>7
    <3> QED BY <3>1, RcExactIs
  <2>14. Lives'
    <3>1. \A x \in Obj : destroyed'[x] = IF x = o THEN 1 ELSE destroyed[x]
      BY <1>4, <2>1 DEF TypeOK
    <3> QED BY <1>1, <2>2, <2>11, <3>1 DEF Lives
  <2>15. Freeing'
    <3>1. ASSUME NEW x \in Obj
          PROVE  Occurrences(todo', <<"free", x>>) = IF x \in live' /\ rc'[x] = 0 THEN 1 ELSE 0
      <4>1. Occurrences(todo', <<"free", x>>)
              = 0 + (IF x = o THEN 1 ELSE 0) + Occurrences(todo, <<"free", x>>)
        BY <1>2, <2>4, <2>6, <2>8
      <4>2. Occurrences(todo, <<"free", x>>) = IF x \in live /\ rc[x] = 0 THEN 1 ELSE 0
        BY DEF Freeing
      <4> QED BY <1>1, <1>4, <2>2, <4>1, <4>2
    <3> QED BY <3>1 DEF Freeing
  <2> QED BY <2>10, <2>12, <2>13, <2>14, <2>15
<1>7. CASE ~ LastReference(o)
  <2>1. todo' = Tail(todo) /\ attr' = attr /\ destroyed' = destroyed
    BY <1>7 DEF FREE
  <2>2. rc[o] - 1 > 0
    <3>1. rc[o] \in Nat /\ rc[o] # 1
      BY <1>3, <1>7 DEF LastReference
    <3> QED BY <1>4, <3>1
  <2>3. TypeOK'
    BY <1>1, <1>4, <1>5, <2>1 DEF TypeOK, Item
  <2>4. Keyed'
    BY <2>1 DEF Keyed
  <2>5. RcExact'
    <3>1. ASSUME NEW x \in Obj
          PROVE  rc'[x] = refs'[x] + Cardinality(PlacesOf(attr', x))
                          + Occurrences(todo', <<"FREE", x>>)
      <4>1. /\ rc'[x] = (IF x = o THEN rc[o] - 1 ELSE rc[x]) /\ refs'[x] = refs[x]
            /\ rc[x] = refs[x] + Cardinality(PlacesOf(attr, x))
                       + Occurrences(todo, <<"FREE", x>>)
            /\ refs[x] \in Nat /\ Cardinality(PlacesOf(attr, x)) \in Nat
        BY <1>1, <1>3
      <4>2. /\ Occurrences(todo, <<"FREE", x>>)
                 = (IF x = o THEN 1 ELSE 0) + Occurrences(todo', <<"FREE", x>>)
            /\ Occurrences(todo', <<"FREE", x>>) \in Nat
        BY <1>2, <2>1
      <4>3. CASE x = o
        BY <2>1, <4>1, <4>2, <4>3
      <4>4. CASE x # o
        BY <2>1, <4>1, <4>2, <4>4
      <4> QED BY <4>3, <4>4
    <3> QED BY <3>1, RcExactIs
  <2>6. Lives'
    BY <1>1, <1>4, <2>1, <2>2 DEF Lives
  <2>7. Freeing'
    <3>1. \A x \in Obj : rc'[x] = 0 <=> rc[x] = 0
      BY <1>1, <1>4, <2>2
    <3> QED BY <1>1, <1>2, <2>1, <3>1 DEF Freeing
  <2> QED BY <2>3, <2>4, <2>5, <2>6, <2>7
<1> QED BY <1>6, <1>7

\* Plain data has no counter.
LEMMA attr_freeStep ==
  ASSUME IInv, NEW d \in Datum, attr_free(d)
  PROVE  IInv'
<1> USE DEF IInv
<1>1. /\ todo # <<>> /\ Head(todo) = <<"FREE", d>> /\ todo' = Tail(todo) /\ ret' = <<>>
      /\ UNCHANGED <<live, rc, attr, refs, destroyed>>
  BY DEF attr_free
<1>2. \A x \in Obj : /\ Occurrences(todo', <<"FREE", x>>) = Occurrences(todo, <<"FREE", x>>)
                     /\ Occurrences(todo', <<"free", x>>) = Occurrences(todo, <<"free", x>>)
  <2>1. \A y : /\ Occurrences(todo, y) = (IF <<"FREE", d>> = y THEN 1 ELSE 0)
                                         + Occurrences(Tail(todo), y)
               /\ Occurrences(Tail(todo), y) \in Nat
    BY <1>1, HeadCounts
  <2>2. \A x \in Obj : <<"FREE", d>> # <<"FREE", x>> /\ <<"FREE", d>> # <<"free", x>>
    BY ValuesDistinct
  <2> QED BY <1>1, <2>1, <2>2
<1>3. TypeOK'
  <2>1. Tail(todo) \in Seq(Item) /\ <<>> \in Seq(Name \X (Value \cup {None}))
    BY <1>1, HeadCounts
  <2> QED BY <1>1, <2>1 DEF TypeOK, Item
<1>4. RcExact'
  BY <1>1, <1>2, RcExactIs
<1>5. Keyed' /\ Lives'
  BY <1>1 DEF Keyed, Lives
<1>6. Freeing'
  BY <1>1, <1>2 DEF Freeing
<1> QED BY <1>3, <1>4, <1>5, <1>6

\* The memory that is given back holds nothing.
LEMMA freeStep ==
  ASSUME IInv, NEW o \in Obj, free(o)
  PROVE  IInv'
<1> USE DEF IInv
<1>1. /\ todo # <<>> /\ Head(todo) = <<"free", o>> /\ todo' = Tail(todo) /\ ret' = <<>>
      /\ live' = live \ {o}
      /\ UNCHANGED <<rc, attr, refs, destroyed>>
  BY DEF free
<1>2. \A x : /\ Occurrences(todo', <<"FREE", x>>) = Occurrences(todo, <<"FREE", x>>)
             /\ Occurrences(todo, <<"free", x>>)
                  = (IF x = o THEN 1 ELSE 0) + Occurrences(todo', <<"free", x>>)
             /\ Occurrences(todo', <<"free", x>>) \in Nat
  <2>1. \A y : /\ Occurrences(todo, y) = (IF <<"free", o>> = y THEN 1 ELSE 0)
                                         + Occurrences(Tail(todo), y)
               /\ Occurrences(Tail(todo), y) \in Nat
    BY <1>1, HeadCounts
  <2>2. \A x : <<"free", o>> # <<"FREE", x>> /\ (<<"free", o>> = <<"free", x>> <=> x = o)
    OBVIOUS
  <2> QED BY <1>1, <2>1, <2>2
<1>3. o \in live /\ rc[o] = 0 /\ Occurrences(todo', <<"free", o>>) = 0
  <2>1. /\ Occurrences(todo, <<"free", o>>) = 1 + Occurrences(todo', <<"free", o>>)
        /\ Occurrences(todo', <<"free", o>>) \in Nat
    BY <1>2
  <2>2. Occurrences(todo, <<"free", o>>) = IF o \in live /\ rc[o] = 0 THEN 1 ELSE 0
    BY DEF Freeing
  <2> QED BY <2>1, <2>2
<1>4. TypeOK'
  <2>1. Tail(todo) \in Seq(Item) /\ <<>> \in Seq(Name \X (Value \cup {None}))
    BY <1>1, HeadCounts
  <2> QED BY <1>1, <2>1 DEF TypeOK, Item
<1>5. RcExact'
  BY <1>1, <1>2, RcExactIs
<1>6. Keyed' /\ Lives'
  BY <1>1, <1>3 DEF Keyed, Lives
<1>7. Freeing'
  <2>1. \A x : x # o => Occurrences(todo, <<"free", x>>) = Occurrences(todo', <<"free", x>>)
    BY <1>2
  <2> QED BY <1>1, <1>3, <2>1 DEF Freeing
<1> QED BY <1>4, <1>5, <1>6, <1>7

\* What is released for an attribute that goes.
LEMMA OldValueCounts ==
  ASSUME TypeOK, NEW o \in Obj, NEW n
  PROVE  /\ OldValue(o, n) \in Seq(Item)
         /\ \A x : /\ Occurrences(OldValue(o, n), <<"FREE", x>>) = Old(attr[o], n, x)
                   /\ Occurrences(OldValue(o, n), <<"free", x>>) = 0
                   /\ Old(attr[o], n, x) \in {0, 1}
<1>1. attr[o] \in Seq(Attri) /\ Lookup(o, n) = Find(attr[o], n)
  BY LookupFinds DEF TypeOK
<1>2. CASE Position(attr[o], n) = 0
  <2>1. OldValue(o, n) = <<>>
    BY <1>2 DEF OldValue
  <2>2. \A x : Old(attr[o], n, x) = 0
    BY <1>2 DEF Old
  <2> QED BY <2>1, <2>2, OccurrencesEmpty
<1>3. CASE Position(attr[o], n) # 0
  <2> DEFINE v == Find(attr[o], n)
  <2>1. OldValue(o, n) = <<<<"FREE", v>>>>
    BY <1>1, <1>3 DEF OldValue
  <2>2. v \in Value
    BY <1>1, <1>3, FindValue
  <2>3. \A x : Old(attr[o], n, x) = IF v = x THEN 1 ELSE 0
    BY <1>3 DEF Old
  <2> HIDE DEF v
  <2>4. <<"FREE", v>> \in Item
    BY <2>2 DEF Item
  <2>5. \A y : Occurrences(<<<<"FREE", v>>>>, y) = IF <<"FREE", v>> = y THEN 1 ELSE 0
    BY OccurrencesOne
  <2>6. \A x : <<"FREE", v>> # <<"free", x>> /\ (<<"FREE", v>> = <<"FREE", x>> <=> v = x)
    OBVIOUS
  <2>7. <<<<"FREE", v>>>> \in Seq(Item)
    BY <2>4
  <2> QED BY <2>1, <2>3, <2>5, <2>6, <2>7
<1> QED BY <1>2, <1>3

\* The attributes of one object change: what goes is released, and what comes in is a
\* reference of the caller.
LEMMA AttrStep ==
  ASSUME IInv, NEW o \in Obj, NEW n, Held(o),
         NEW t \in Seq(Attri), Distinct(t), NEW g \in [Obj -> Nat],
         \A x \in Obj : Occurrences(Vals(t), x)
                          = Occurrences(Vals(attr[o]), x) - Old(attr[o], n, x) + g[x],
         attr' = [attr EXCEPT ![o] = t], todo' = OldValue(o, n), ret' = <<>>,
         refs' \in [Obj -> Nat], \A x \in Obj : refs[x] = refs'[x] + g[x],
         UNCHANGED <<live, rc, destroyed>>
  PROVE  IInv'
<1> USE DEF IInv
<1>1. /\ attr \in [Obj -> Seq(Attri)]
      /\ \A x \in Obj : attr'[x] = IF x = o THEN t ELSE attr[x]
  BY DEF TypeOK
<1>2. \A x : Occurrences(todo, <<"FREE", x>>) = 0 /\ Occurrences(todo, <<"free", x>>) = 0
  BY WhenIdle DEF Held
<1>3. /\ todo' \in Seq(Item)
      /\ \A x : /\ Occurrences(todo', <<"FREE", x>>) = Old(attr[o], n, x)
                /\ Occurrences(todo', <<"free", x>>) = 0
                /\ Old(attr[o], n, x) \in Nat
  BY OldValueCounts
<1>4. TypeOK'
  <2>1. <<>> \in Seq(Name \X (Value \cup {None}))
    OBVIOUS
  <2>2. attr' \in [Obj -> Seq(Attri)]
    BY <1>1
  <2> QED BY <1>3, <2>1, <2>2 DEF TypeOK, Item
<1>5. Keyed'
  BY <1>1 DEF Keyed
<1>6. RcExact'
  <2>1. ASSUME NEW x \in Obj
        PROVE  rc'[x] = refs'[x] + Cardinality(PlacesOf(attr', x)) + Occurrences(todo', <<"FREE", x>>)
    <3>1. rc[x] = refs[x] + Cardinality(PlacesOf(attr, x)) + 0
      BY <1>2, RcExactIs
    <3>2. Cardinality(PlacesOf(attr', x))
            = Cardinality(PlacesOf(attr, x)) - Occurrences(Vals(attr[o]), x) + Occurrences(Vals(t), x)
      <4>1. attr \in [Obj -> Seq(Attri)]
        BY <1>1
      <4>2. Cardinality(PlacesOf([attr EXCEPT ![o] = t], x))
              = Cardinality(PlacesOf(attr, x)) - Occurrences(Vals(attr[o]), x)
                + Occurrences(Vals(t), x)
        BY ONLY <4>1, o \in Obj, t \in Seq(Attri), PlacesChange
      <4>3. attr' = [attr EXCEPT ![o] = t]
        OBVIOUS
      <4> QED BY ONLY <4>2, <4>3
    <3>3. Cardinality(PlacesOf(attr, x)) \in Nat /\ Occurrences(Vals(attr[o]), x) \in Nat
      BY Numbers
    <3>4. Occurrences(Vals(t), x) = Occurrences(Vals(attr[o]), x) - Old(attr[o], n, x) + g[x]
      OBVIOUS
    <3>5. refs[x] = refs'[x] + g[x] /\ g[x] \in Nat /\ refs'[x] \in Nat /\ rc'[x] = rc[x]
      OBVIOUS
    <3>6. Occurrences(todo', <<"FREE", x>>) = Old(attr[o], n, x) /\ Old(attr[o], n, x) \in Nat
      BY <1>3
    <3> QED BY <3>1, <3>2, <3>3, <3>4, <3>5, <3>6
  <2> QED BY <2>1, RcExactIs
<1>7. Lives'
  <2>1. rc[o] > 0
    BY Referred DEF Held
  <2> QED BY <1>1, <2>1 DEF Lives
<1>8. Freeing'
  BY <1>2, <1>3 DEF Freeing
<1> QED BY <1>4, <1>5, <1>6, <1>7, <1>8

\* attr_set moves references between the list, its clients and the pending work.
LEMMA attr_setStep ==
  ASSUME IInv, NEW o \in Obj, NEW n \in Name, NEW v \in Value, attr_set(o, n, v)
  PROVE  IInv'
<1> DEFINE t == NewList(attr[o], n, v)
           g == [x \in Obj |-> IF x = v THEN 1 ELSE 0]
<1>1. attr[o] \in Seq(Attri) /\ Distinct(attr[o])
  BY DEF IInv, TypeOK, Keyed
<1>2. /\ t \in Seq(Attri) /\ Distinct(t)
      /\ \A x : Occurrences(Vals(t), x)
                  = Occurrences(Vals(attr[o]), x) - Old(attr[o], n, x) + (IF v = x THEN 1 ELSE 0)
  BY <1>1, NewListProperties
<1>3. /\ Held(o) /\ attr' = [attr EXCEPT ![o] = t] /\ todo' = OldValue(o, n) /\ ret' = <<>>
      /\ refs' = [x \in Obj |-> IF x = v THEN refs[x] - 1 ELSE refs[x]]
      /\ v \in Obj => refs[v] > (IF v = o THEN 1 ELSE 0)
      /\ UNCHANGED <<live, rc, destroyed>>
  BY DEF attr_set
<1>4. /\ g \in [Obj -> Nat]
      /\ refs' \in [Obj -> Nat] /\ \A x \in Obj : refs[x] = refs'[x] + g[x]
  <2>1. \A x \in Obj : refs[x] \in Nat /\ (x = v => refs[x] > 0)
    BY <1>3 DEF IInv, TypeOK
  <2> QED BY <1>3, <2>1
<1>5. \A x \in Obj : g[x] = IF v = x THEN 1 ELSE 0
  OBVIOUS
<1> HIDE DEF t, g
<1>6. \A x \in Obj : Occurrences(Vals(t), x)
                       = Occurrences(Vals(attr[o]), x) - Old(attr[o], n, x) + g[x]
  BY <1>2, <1>5
<1>7. t \in Seq(Attri) /\ Distinct(t)
  BY <1>2
<1>8. /\ Held(o) /\ attr' = [attr EXCEPT ![o] = t] /\ todo' = OldValue(o, n) /\ ret' = <<>>
      /\ UNCHANGED <<live, rc, destroyed>>
  BY <1>3
<1> QED BY <1>4, <1>6, <1>7, <1>8, AttrStep

\* attr_del passes the reference of the element on.
LEMMA attr_delStep ==
  ASSUME IInv, NEW o \in Obj, NEW n \in Name, attr_del(o, n)
  PROVE  IInv'
<1> DEFINE t == Deleted(attr[o], n)
           g == [x \in Obj |-> 0]
<1>1. attr[o] \in Seq(Attri) /\ Distinct(attr[o])
  BY DEF IInv, TypeOK, Keyed
<1>2. /\ t \in Seq(Attri) /\ Distinct(t)
      /\ \A x : Occurrences(Vals(t), x) = Occurrences(Vals(attr[o]), x) - Old(attr[o], n, x)
  BY <1>1, DeletedProperties
<1>3. /\ Held(o) /\ attr' = [attr EXCEPT ![o] = t] /\ todo' = OldValue(o, n) /\ ret' = <<>>
      /\ UNCHANGED <<live, rc, refs, destroyed>>
  BY DEF attr_del, Deleted
<1>4. /\ g \in [Obj -> Nat] /\ \A x \in Obj : g[x] = 0
      /\ refs' \in [Obj -> Nat] /\ \A x \in Obj : refs[x] = refs'[x] + g[x]
  BY <1>3 DEF IInv, TypeOK
<1> HIDE DEF t, g
<1>5. ASSUME NEW x \in Obj
      PROVE  Occurrences(Vals(t), x) = Occurrences(Vals(attr[o]), x) - Old(attr[o], n, x) + g[x]
  <2>1. Occurrences(Vals(attr[o]), x) \in Nat /\ Old(attr[o], n, x) \in {0, 1}
    BY Numbers, OldValueCounts DEF IInv
  <2> QED BY <1>2, <1>4, <2>1
<1>6. t \in Seq(Attri) /\ Distinct(t) /\ \A x \in Obj :
        Occurrences(Vals(t), x) = Occurrences(Vals(attr[o]), x) - Old(attr[o], n, x) + g[x]
  BY <1>2, <1>5
<1>7. /\ Held(o) /\ attr' = [attr EXCEPT ![o] = t] /\ todo' = OldValue(o, n) /\ ret' = <<>>
      /\ UNCHANGED <<live, rc, destroyed>>
  BY <1>3
<1>8. g \in [Obj -> Nat] /\ refs' \in [Obj -> Nat] /\ \A x \in Obj : refs[x] = refs'[x] + g[x]
  BY <1>4
<1> QED BY <1>6, <1>7, <1>8, AttrStep

\* Every step keeps the invariant.
LEMMA NextIInv ==
  ASSUME IInv, [Next]_vars
  PROVE  IInv'
<1>1. ASSUME NEW o \in Obj, FREE(o) PROVE IInv'
  BY <1>1, FREEStep
<1>2. ASSUME NEW o \in Obj, free(o) PROVE IInv'
  BY <1>2, freeStep
<1>3. ASSUME NEW d \in Datum, attr_free(d) PROVE IInv'
  BY <1>3, attr_freeStep
<1>4. ASSUME NEW o \in Obj, allocd(o) PROVE IInv'
  BY <1>4, allocdStep
<1>5. ASSUME NEW o \in Obj, ref(o) PROVE IInv'
  BY <1>5, refStep
<1>6. ASSUME NEW o \in Obj, CallFREE(o) PROVE IInv'
  BY <1>6, CallFREEStep
<1>7. ASSUME NEW o \in Obj, NEW n \in Name, attr_get(o, n) PROVE IInv'
  BY <1>7, attr_getStep
<1>8. ASSUME NEW o \in Obj, NEW n \in Name, attr_del(o, n) PROVE IInv'
  BY <1>8, attr_delStep
<1>9. ASSUME NEW o \in Obj, NEW n \in Name, NEW v \in Value, attr_set(o, n, v) PROVE IInv'
  BY <1>9, attr_setStep
<1>10. ASSUME NEW o \in Obj, NEW k \in 0..MaxAttrs, attr_getall(o, k) PROVE IInv'
  BY <1>10, attr_getallStep
<1>11. CASE UNCHANGED vars
  BY <1>11 DEF vars, IInv, TypeOK, Keyed, RcExact, Places, Pairs, Lives, Freeing
<1> QED BY <1>1, <1>2, <1>3, <1>4, <1>5, <1>6, <1>7, <1>8, <1>9, <1>10, <1>11 DEF Next, Step

\* The invariant holds in every reachable state.
LEMMA AllocInvariant == Spec => []IInv
BY InitIInv, NextIInv, PTL DEF Spec

\* What FREE is about to look at is allocated: it has a reference, or is to be given back.
LEMMA Underway ==
  ASSUME IInv, NEW i \in 1..Len(todo), todo[i][2] \in Obj
  PROVE  todo[i][2] \in live
<1> USE DEF IInv
<1> DEFINE o == todo[i][2]
<1>1. todo \in Seq(Item) /\ todo[i] \in Item
  BY ElementOfSeq DEF TypeOK, Item
<1>2. todo[i] = <<"FREE", o>> \/ todo[i] = <<"free", o>>
  BY <1>1 DEF Item
<1> HIDE DEF o
<1>3. o \in Obj
  BY DEF o
<1>4. CASE todo[i] = <<"FREE", o>>
  <2>1. Occurrences(todo, <<"FREE", o>>) # 0
    BY <1>1, <1>4, OccurrencesFinite
  <2>2. rc[o] = refs[o] + Cardinality(PlacesOf(attr, o)) + Occurrences(todo, <<"FREE", o>>)
    BY <1>3, RcExactIs
  <2>3. refs[o] \in Nat /\ Cardinality(PlacesOf(attr, o)) \in Nat /\ Occurrences(todo, <<"FREE", o>>) \in Nat
    BY <1>3, Numbers DEF TypeOK
  <2>4. rc[o] > 0
    BY <2>1, <2>2, <2>3
  <2> QED BY <1>3, <2>4 DEF Lives, o
<1>5. CASE todo[i] = <<"free", o>>
  <2>1. Occurrences(todo, <<"free", o>>) # 0
    BY <1>1, <1>5, OccurrencesFinite
  <2> QED BY <1>3, <2>1 DEF Freeing, o
<1> QED BY <1>2, <1>4, <1>5

\* No reference is lost or counted twice, in whatever order the caller sets, replaces,
\* fetches and deletes attributes and releases objects, and FREE destroys an object once.
THEOREM AllocReferencesSound == Spec => []ReferencesSound
<1>1. ASSUME IInv PROVE ReferencesSound
  <2> USE <1>1 DEF IInv
  <2>1. \A o \in Obj : refs[o] > 0 => o \in live /\ destroyed[o] = 0
    BY Referred DEF Lives
  <2>2. ASSUME NEW p \in Pairs, attr[p[1]][p[2]].value \in Obj
        PROVE  attr[p[1]][p[2]].value \in live /\ destroyed[attr[p[1]][p[2]].value] = 0
    <3>1. p[1] \in Obj /\ p[2] \in 1..Len(attr[p[1]])
      BY DEF Pairs
    <3> QED BY <2>2, <3>1, Referred DEF Lives
  <2>3. NoDangling
    BY <2>1, <2>2, Underway DEF NoDangling
  <2> QED BY <2>3 DEF ReferencesSound, Lives
<1> QED BY <1>1, AllocInvariant, PTL

-----------------------------------------------------------------------------
(* NoLeak *)

\* A value of y, and what is reached from it, is reached from y.
LEMMA ReachedOne ==
  ASSUME NEW y \in Obj, NEW x \in Values(y) \cap Obj
  PROVE  x \in Reached(y) /\ Reached(x) \subseteq Reached(y)
<1>1. ASSUME NEW S \in SUBSET Obj, \A w \in S \cup {y} : Values(w) \cap Obj \subseteq S
      PROVE  x \in S /\ Reached(x) \subseteq S
  <2>1. x \in S
    BY <1>1
  <2>2. \A w \in S \cup {x} : Values(w) \cap Obj \subseteq S
    BY <1>1, <2>1
  <2> QED BY <2>1, <2>2 DEF Reached
<1>2. x \in Reached(y)
  BY <1>1 DEF Reached
<1>3. ASSUME NEW z \in Reached(x) PROVE z \in Reached(y)
  <2>1. z \in Obj
    BY DEF Reached
  <2> QED BY <1>1, <2>1 DEF Reached
<1> QED BY <1>2, <1>3

\* When no call is under way an allocated object is held by the caller or by an attribute.
LEMMA HeldBySomething ==
  ASSUME IInv, Idle, NEW x \in live
  PROVE  refs[x] > 0 \/ \E y \in Obj : x \in Values(y) \cap Obj /\ y \in live
<1> USE DEF IInv
<1>1. x \in Obj
  BY DEF TypeOK
<1>2. rc[x] # 0
  <2>1. Occurrences(todo, <<"free", x>>) = 0
    BY WhenIdle
  <2> QED BY <1>1, <2>1 DEF Freeing
<1>3. rc[x] = refs[x] + Cardinality(PlacesOf(attr, x)) + 0
  BY <1>1, WhenIdle, RcExactIs
<1>4. refs[x] \in Nat /\ Cardinality(PlacesOf(attr, x)) \in Nat
  BY <1>1, Numbers DEF TypeOK
<1>5. CASE Cardinality(PlacesOf(attr, x)) = 0
  BY <1>2, <1>3, <1>4, <1>5
<1>6. CASE Cardinality(PlacesOf(attr, x)) # 0
  <2>1. PlacesOf(attr, x) # {}
    BY <1>6, FS_EmptySet
  <2>2. PICK p : p \in PlacesOf(attr, x)
    BY <2>1
  <2>3. p[1] \in Obj /\ p[2] \in 1..Len(attr[p[1]]) /\ attr[p[1]][p[2]].value = x
    BY <2>2, PlacesIn
  <2>4. x \in Values(p[1])
    BY <2>3 DEF Values
  <2>5. attr[p[1]] # <<>>
    BY <2>3
  <2>6. p[1] \in live
    BY <2>3, <2>5 DEF Lives
  <2> QED BY <1>1, <2>3, <2>4, <2>6
<1> QED BY <1>5, <1>6

\* Among the objects from which o is reached, one that reaches the most is held by the
\* caller, or reaches itself.
THEOREM AllocNoLeak == Spec => []NoLeak
<1>1. ASSUME IInv PROVE NoLeak
  <2> SUFFICES ASSUME Idle, NEW o \in live
               PROVE  \E x \in Obj : /\ refs[x] > 0 \/ x \in Reached(x)
                                     /\ x = o \/ o \in Reached(x)
    BY DEF NoLeak
  <2> DEFINE Up == {x \in live : x = o \/ o \in Reached(x)}
             C  == {Cardinality(Reached(x)) : x \in Up}
             N  == Cardinality(Obj)
  <2>1. live \subseteq Obj
    BY <1>1 DEF IInv, TypeOK
  <2>2. \A x \in Up : IsFiniteSet(Reached(x)) /\ Cardinality(Reached(x)) \in Nat
                      /\ Cardinality(Reached(x)) <= N
    <3>1. ASSUME NEW x PROVE Reached(x) \in SUBSET Obj
      BY DEF Reached
    <3>2. ASSUME NEW T \in SUBSET Obj
          PROVE  IsFiniteSet(T) /\ Cardinality(T) \in Nat /\ Cardinality(T) <= N
      BY SetsFinite, FS_Subset, FS_CardinalityType
    <3> QED BY <3>1, <3>2
  <2>3. N \in Nat
    BY SetsFinite, FS_CardinalityType
  <2>4. o \in Up
    OBVIOUS
  <2>5. C \in SUBSET Nat /\ C # {} /\ \A c \in C : c <= N
    BY <2>2, <2>4
  <2>6. Max(C) \in C /\ \A c \in C : c <= Max(C)
    <3> HIDE DEF C, N
    <3> QED BY <2>3, <2>5, MaxIsGreatest
  <2>7. PICK x \in Up : \A z \in Up : Cardinality(Reached(z)) <= Cardinality(Reached(x))
    BY <2>6
  <2>8. CASE refs[x] > 0 \/ x \in Reached(x)
    BY <2>1, <2>7, <2>8
  <2>9. CASE ~ (refs[x] > 0) /\ x \notin Reached(x)
    <3>1. PICK y \in Obj : x \in Values(y) \cap Obj /\ y \in live
      BY <1>1, <2>9, HeldBySomething
    <3>2. x \in Reached(y) /\ Reached(x) \subseteq Reached(y)
      BY <3>1, ReachedOne
    <3>3. y \in Up
      BY <2>7, <3>1, <3>2
    <3>4. Cardinality(Reached(y)) <= Cardinality(Reached(x))
      BY <2>7, <3>3
    <3>5. /\ Cardinality(Reached(x)) <= Cardinality(Reached(y))
          /\ Cardinality(Reached(y)) = Cardinality(Reached(x)) => Reached(y) = Reached(x)
      <4>1. IsFiniteSet(Reached(y)) /\ Reached(x) \in SUBSET Reached(y)
        BY <2>2, <3>2, <3>3
      <4> QED BY <4>1, FS_Subset
    <3>6. Cardinality(Reached(y)) \in Nat /\ Cardinality(Reached(x)) \in Nat
      BY <2>2, <2>7, <3>3
    <3>7. Reached(y) = Reached(x)
      BY <3>4, <3>5, <3>6
    <3> QED BY <2>9, <3>2, <3>7
  <2> QED BY <2>8, <2>9
<1> QED BY <1>1, AllocInvariant, PTL

-----------------------------------------------------------------------------
(* ImplementsAttrMap *)

Map == [o \in Obj |-> [n \in Name |-> Lookup(o, n)]]

\* The abstract map, read from the lists before and after a step.
LEMMA MapIs ==
  /\ \A o \in Obj : \A n \in Name : Map[o][n] = Find(attr[o], n)
  /\ Map' = [o \in Obj |-> [n \in Name |-> Find(attr'[o], n)]]
BY DEF Map, Lookup, Find

\* The list of one object changes: only its row does.
LEMMA MapChange ==
  ASSUME TypeOK, NEW o \in Obj, NEW t, attr' = [attr EXCEPT ![o] = t]
  PROVE  Map' = [Map EXCEPT ![o] = [n \in Name |-> Find(t, n)]]
<1>1. \A x \in Obj : attr'[x] = IF x = o THEN t ELSE attr[x]
  BY DEF TypeOK
<1>2. \A x \in Obj : [n \in Name |-> Find(attr'[x], n)]
                       = IF x = o THEN [n \in Name |-> Find(t, n)] ELSE Map[x]
  BY <1>1, LookupFinds DEF Map
<1>3. Map' = [x \in Obj |-> IF x = o THEN [n \in Name |-> Find(t, n)] ELSE Map[x]]
  BY <1>2, MapIs
<1> QED BY <1>3 DEF Map

\* The map changes with the lists only.
LEMMA MapSame ==
  ASSUME attr' = attr
  PROVE  Map' = Map
BY MapIs, LookupFinds DEF Map

\* A step that leaves the map alone and returns nothing.
LEMMA QuietStep ==
  ASSUME Map' = Map, ret' = <<>>
  PROVE  Attributes!Next
BY DEF Attributes!Next, Map

\* FREE empties the row of the object it frees.
LEMMA FREEMaps ==
  ASSUME IInv, NEW o \in Obj, FREE(o)
  PROVE  Attributes!Next
<1>1. ret' = <<>>
  BY DEF FREE
<1>2. CASE LastReference(o)
  <2>1. attr' = [attr EXCEPT ![o] = <<>>]
    BY <1>2 DEF FREE
  <2>2. \A n : Find(<<>>, n) = None
    <3>1. <<>> \in Seq(Attri) /\ \A n : \A i \in 1..Len(<<>>) : <<>>[i].name # n
      OBVIOUS
    <3> QED BY <3>1, FindValue
  <2>3. Map' = [Map EXCEPT ![o] = [n \in Name |-> Find(<<>>, n)]]
    BY <2>1, MapChange DEF IInv
  <2>4. [n \in Name |-> Find(<<>>, n)] = Attributes!Empty
    BY <2>2 DEF Attributes!Empty
  <2>5. Map' = [Map EXCEPT ![o] = Attributes!Empty]
    BY <2>3, <2>4
  <2>6. CASE Map'[o] # Map[o]
    BY <1>1, <2>5, <2>6 DEF Attributes!Next, Attributes!Reset, Map
  <2>7. CASE Map'[o] = Map[o]
    <3>1. Map' = Map
      BY <2>5, <2>7 DEF Map
    <3> QED BY <1>1, <3>1, QuietStep
  <2> QED BY <2>6, <2>7
<1>3. CASE ~ LastReference(o)
  <2>1. attr' = attr
    BY <1>3 DEF FREE
  <2> QED BY <1>1, <2>1, MapSame, QuietStep
<1> QED BY <1>2, <1>3

\* attr_set binds a name.
LEMMA attr_setMaps ==
  ASSUME IInv, NEW o \in Obj, NEW n \in Name, NEW v \in Value, attr_set(o, n, v)
  PROVE  Attributes!Next
<1> DEFINE t == NewList(attr[o], n, v)
<1>1. attr' = [attr EXCEPT ![o] = t] /\ ret' = <<>>
  BY DEF attr_set
<1>2. \A m : Find(t, m) = IF m = n THEN v ELSE Find(attr[o], m)
  BY NewListProperties DEF IInv, TypeOK, Keyed
<1> HIDE DEF t
<1>3. [m \in Name |-> Find(t, m)] = [Map[o] EXCEPT ![n] = v]
  BY <1>2, LookupFinds DEF Map
<1>4. Map' = [Map EXCEPT ![o] = [m \in Name |-> Find(t, m)]]
  BY <1>1, MapChange DEF IInv
<1>5. Map' = [Map EXCEPT ![o][n] = v]
  BY <1>3, <1>4
<1>6. CASE Map[o][n] # v
  <2>1. Map'[o][n] # Map[o][n] /\ Map'[o] # Map[o]
    BY <1>5, <1>6 DEF Map
  <2>2. Attributes!Set(o, n, v)
    BY <1>5 DEF Attributes!Set, Map
  <2> QED BY <1>1, <2>1, <2>2 DEF Attributes!Next, Map
<1>7. CASE Map[o][n] = v
  <2>1. Map' = Map
    BY <1>5, <1>7 DEF Map
  <2> QED BY <1>1, <2>1, QuietStep
<1> QED BY <1>6, <1>7

\* attr_del unbinds a name.
LEMMA attr_delMaps ==
  ASSUME IInv, NEW o \in Obj, NEW n \in Name, attr_del(o, n)
  PROVE  Attributes!Next
<1> DEFINE t == Deleted(attr[o], n)
<1>1. attr' = [attr EXCEPT ![o] = t] /\ ret' = <<>>
  BY DEF attr_del, Deleted
<1>2. \A m : Find(t, m) = IF m = n THEN None ELSE Find(attr[o], m)
  BY DeletedProperties DEF IInv, TypeOK, Keyed
<1> HIDE DEF t
<1>3. [m \in Name |-> Find(t, m)] = [Map[o] EXCEPT ![n] = None]
  BY <1>2, LookupFinds DEF Map
<1>4. Map' = [Map EXCEPT ![o] = [m \in Name |-> Find(t, m)]]
  BY <1>1, MapChange DEF IInv
<1>5. Map' = [Map EXCEPT ![o][n] = None]
  BY <1>3, <1>4
<1>6. CASE Map[o][n] # None
  <2>1. Map'[o][n] # Map[o][n] /\ Map'[o] # Map[o]
    BY <1>5, <1>6 DEF Map
  <2> QED BY <1>1, <1>5, <2>1 DEF Attributes!Next, Attributes!Del, Map
<1>7. CASE Map[o][n] = None
  <2>1. Map' = Map
    BY <1>5, <1>7 DEF Map
  <2> QED BY <1>1, <2>1, QuietStep
<1> QED BY <1>6, <1>7

\* attr_get returns what is bound.
LEMMA attr_getMaps ==
  ASSUME NEW o \in Obj, NEW n \in Name, attr_get(o, n)
  PROVE  Attributes!Next
<1>1. attr' = attr /\ ret' = <<n, Lookup(o, n)>>
  BY DEF attr_get
<1>2. Map' = Map
  BY <1>1, MapSame
<1>3. Map[o][n] = Lookup(o, n)
  BY DEF Map
<1> QED BY <1>1, <1>2, <1>3 DEF Attributes!Next, Attributes!Get, Map

\* The names in a list: as many as the attributes, and those that attr_get finds.
NamesOf(s) == {s[i].name : i \in 1..Len(s)}

\* A list has one element for each bound name.
LEMMA NamesProperties ==
  ASSUME NEW s \in Seq(Attri), Distinct(s)
  PROVE  /\ NamesOf(s) \subseteq Name /\ Cardinality(NamesOf(s)) = Len(s)
         /\ NamesOf(s) = {n \in Name : Find(s, n) # None}
<1>1. Len(s) \in Nat /\ \A i \in 1..Len(s) : s[i].name \in Name
  <2>1. Len(s) \in Nat /\ \A i \in 1..Len(s) : s[i] \in Attri
    BY LenProperties, ElementOfSeq
  <2> QED BY <2>1 DEF Attri
<1> DEFINE f == [i \in 1..Len(s) |-> s[i].name]
<1>2. f \in Bijection(1..Len(s), NamesOf(s))
  <2>1. f \in [1..Len(s) -> NamesOf(s)]
    BY DEF NamesOf
  <2>2. \A i, j \in 1..Len(s) : f[i] = f[j] => i = j
    BY DEF Distinct
  <2>3. \A n \in NamesOf(s) : \E i \in 1..Len(s) : f[i] = n
    BY DEF NamesOf
  <2> QED BY <2>1, <2>2, <2>3 DEF Bijection, Injection, Surjection, IsInjective
<1>3. IsFiniteSet(1..Len(s)) /\ Cardinality(1..Len(s)) = Len(s)
  <2>1. /\ IsFiniteSet(1..Len(s))
        /\ Cardinality(1..Len(s)) = IF 1 > Len(s) THEN 0 ELSE Len(s) - 1 + 1
    BY <1>1, FS_Interval
  <2> QED BY <1>1, <2>1
<1>4. Cardinality(NamesOf(s)) = Len(s)
  <2>1. ExistsBijection(1..Len(s), NamesOf(s))
    BY <1>2 DEF ExistsBijection
  <2> QED BY <1>3, <2>1, FS_Bijection
<1>5. \A n : n \in NamesOf(s) <=> Find(s, n) # None
  BY FindValue DEF NamesOf
<1>6. NamesOf(s) \subseteq Name
  BY <1>1 DEF NamesOf
<1> QED BY <1>4, <1>5, <1>6

\* attr_getall returns bound names, as many as there are or as there is room for.
LEMMA attr_getallMaps ==
  ASSUME IInv, NEW o \in Obj, NEW k \in 0..MaxAttrs, attr_getall(o, k)
  PROVE  Attributes!Next
<1> DEFINE s == First(attr[o], k)
           r == [i \in 1..Len(s) |-> <<s[i].name, s[i].value>>]
           present == {n \in Name : Map[o][n] # None}
           S == NamesOf(s)
<1>1. attr' = attr /\ ret' = r
  BY DEF attr_getall, First
<1>2. attr[o] \in Seq(Attri) /\ Distinct(attr[o]) /\ Len(attr[o]) \in Nat /\ k \in Nat
  BY BoundsNat, LenProperties DEF IInv, TypeOK, Keyed
<1>3. /\ s \in Seq(Attri) /\ Len(s) = IF k < Len(attr[o]) THEN k ELSE Len(attr[o])
      /\ \A i \in 1..Len(s) : i \in 1..Len(attr[o]) /\ s[i] = attr[o][i]
  BY <1>2, FirstProperties
<1> HIDE DEF s
<1>4. Distinct(s)
  BY <1>2, <1>3 DEF Distinct
<1>5. present = NamesOf(attr[o])
  <2>1. \A n \in Name : Map[o][n] = Find(attr[o], n)
    BY MapIs
  <2>2. NamesOf(attr[o]) = {n \in Name : Find(attr[o], n) # None}
    BY <1>2, NamesProperties
  <2> QED BY <2>1, <2>2
<1>6. Cardinality(present) = Len(attr[o]) /\ Cardinality(S) = Len(s)
  BY <1>2, <1>3, <1>4, <1>5, NamesProperties
<1>7. S \in SUBSET present
  BY <1>3, <1>5 DEF NamesOf
<1>8. Cardinality(S) = IF Cardinality(present) < k THEN Cardinality(present) ELSE k
  <2> HIDE DEF S, present
  <2> QED BY <1>2, <1>3, <1>6
<1>9. Len(ret') = Cardinality(S) /\ Len(ret') = Len(s)
  <2>1. Len(s) \in Nat
    BY <1>2, <1>3
  <2>2. Len(r) = Len(s)
    BY <2>1
  <2> QED BY <1>1, <1>6, <2>2
<1>10. {ret'[i] : i \in 1..Len(ret')} = {<<n, Map[o][n]>> : n \in S}
  <2>1. ASSUME NEW i \in 1..Len(s)
        PROVE  s[i].name \in Name /\ Map[o][s[i].name] = s[i].value
    <3>1. i \in 1..Len(attr[o]) /\ s[i] = attr[o][i] /\ attr[o][i] \in Attri
      BY <1>2, <1>3, ElementOfSeq
    <3>2. Find(attr[o], attr[o][i].name) = attr[o][i].value
      BY <1>2, <3>1, FindAt
    <3>3. s[i].name \in Name
      BY <3>1 DEF Attri
    <3> QED BY <3>1, <3>2, <3>3, MapIs
  <2>2. \A i \in 1..Len(s) : ret'[i] = <<s[i].name, Map[o][s[i].name]>>
    BY <1>1, <2>1
  <2>3. {ret'[i] : i \in 1..Len(s)} = {<<s[i].name, Map[o][s[i].name]>> : i \in 1..Len(s)}
    BY <2>2
  <2>4. {<<s[i].name, Map[o][s[i].name]>> : i \in 1..Len(s)} = {<<n, Map[o][n]>> : n \in S}
    BY DEF NamesOf
  <2> QED BY <1>9, <2>3, <2>4
<1>11. Map' = Map
  BY <1>1, MapSame
<1> HIDE DEF S, present
<1>12. Attributes!GetAll(o, k)
  <2>1. \A T : Attributes!Cardinality(T) = Cardinality(T)
    BY DEF Attributes!Cardinality, Cardinality, Attributes!IsFiniteSet, IsFiniteSet
  <2>2. (\E T \in SUBSET present :
           /\ Cardinality(T) = IF Cardinality(present) < k THEN Cardinality(present) ELSE k
           /\ Len(ret') = Cardinality(T)
           /\ {ret'[i] : i \in 1..Len(ret')} = {<<n, Map[o][n]>> : n \in T})
        => Attributes!GetAll(o, k)
    BY <2>1 DEF Attributes!GetAll, Map, present
  <2> QED BY <1>7, <1>8, <1>9, <1>10, <2>2
<1> QED BY <1>11, <1>12 DEF Attributes!Next, Map

\* The attributes of an object are a map from names to values: attr_set changes one of
\* them, attr_del takes one away, the end of the object takes all, attr_get returns what
\* is there and attr_getall as many attributes as fit, each once.
THEOREM AllocImplementsAttrMap == Spec => ImplementsAttrMap
<1>1. Init => Attributes!Init
  <2> SUFFICES ASSUME Init PROVE Attributes!Init
    OBVIOUS
  <2>1. \A n : Find(<<>>, n) = None
    <3>1. <<>> \in Seq(Attri) /\ \A n : \A i \in 1..Len(<<>>) : <<>>[i].name # n
      OBVIOUS
    <3> QED BY <3>1, FindValue
  <2>2. \A o \in Obj : \A n \in Name : Lookup(o, n) = None
    BY <2>1, LookupFinds DEF Init
  <2> QED BY <2>2 DEF Init, Attributes!Init, Attributes!Empty
<1>2. IInv /\ [Next]_vars => [Attributes!Next]_<<Map, ret>>
  <2> SUFFICES ASSUME IInv, [Next]_vars PROVE Attributes!Next \/ UNCHANGED <<Map, ret>>
    OBVIOUS
  <2>1. ASSUME NEW o \in Obj, FREE(o) PROVE Attributes!Next
    BY <2>1, FREEMaps
  <2>2. ASSUME NEW o \in Obj, free(o) \/ ref(o) \/ CallFREE(o) PROVE Attributes!Next
    BY <2>2, MapSame, QuietStep DEF free, ref, CallFREE
  <2>3. ASSUME NEW d \in Datum, attr_free(d) PROVE Attributes!Next
    BY <2>3, MapSame, QuietStep DEF attr_free
  <2>4. ASSUME NEW o \in Obj, allocd(o) PROVE Attributes!Next
    <3>1. attr[o] = <<>>
      BY <2>4 DEF allocd, IInv, Lives, TypeOK
    <3>2. attr' = attr /\ ret' = <<>>
      BY <2>4, <3>1 DEF allocd, IInv, TypeOK
    <3> QED BY <3>2, MapSame, QuietStep
  <2>5. ASSUME NEW o \in Obj, NEW n \in Name, attr_get(o, n) PROVE Attributes!Next
    BY <2>5, attr_getMaps
  <2>6. ASSUME NEW o \in Obj, NEW n \in Name, attr_del(o, n) PROVE Attributes!Next
    BY <2>6, attr_delMaps
  <2>7. ASSUME NEW o \in Obj, NEW n \in Name, NEW v \in Value, attr_set(o, n, v)
        PROVE  Attributes!Next
    BY <2>7, attr_setMaps
  <2>8. ASSUME NEW o \in Obj, NEW k \in 0..MaxAttrs, attr_getall(o, k) PROVE Attributes!Next
    BY <2>8, attr_getallMaps
  <2>9. CASE UNCHANGED vars
    BY <2>9, MapSame DEF vars
  <2> QED BY <2>1, <2>2, <2>3, <2>4, <2>5, <2>6, <2>7, <2>8, <2>9 DEF Next, Step
<1> QED BY <1>1, <1>2, AllocInvariant, PTL DEF Spec, ImplementsAttrMap, Attributes!Spec, Map
=============================================================================
