--------------------------- MODULE MempoolProofs ---------------------------
(***************************************************************************)
(* Proofs about Mempool, for any pages and any number of chunks per page.  *)
(***************************************************************************)
EXTENDS Mempool, CommonLemmas, FiniteSetTheorems, TLAPS

\* The chunks of page p that callers hold.
Held(p) == {i \in 0..Cpp - 1 : holders[<<p, i>>] > 0}

\* No chunk is twice on a free list.
Distinct(s) == \A i, j \in 1..Len(s) : s[i] = s[j] => i = j

\* The header h of a page of which H are the chunks held: a chunk below used is held or
\* free, once, and inuse counts those held.
Book(h, H) ==
  /\ h.inuse = Cardinality(H)
  /\ \A i \in 0..Cpp - 1 : i \in ToSet(h.free) <=> i < h.used /\ i \notin H
  /\ \A i \in H : i < h.used
  /\ Distinct(h.free)

PagesBooked ==
  \A p \in Page :
    /\ Book(page[p], Held(p))
    /\ p \in mapped <=> Held(p) # {}
    /\ p \notin mapped => page[p].used = 0

OneHolder == \A c \in Chunk : holders[c] <= 1

\* The inductive invariant: the bookkeeping of every page, and no chunk has two holders.
Exact == TypeOK /\ PagesBooked /\ OneHolder

-----------------------------------------------------------------------------
(* The bookkeeping of one page *)

\* It says nothing of the links.
LEMMA BookLinks ==
  ASSUME NEW h, NEW g, NEW H, Book(h, H),
         g.inuse = h.inuse, g.used = h.used, g.free = h.free
  PROVE  Book(g, H)
BY DEF Book

\* A set of chunks is finite and has at most Cpp elements.
LEMMA ChunksFinite ==
  ASSUME NEW H, H \subseteq 0..Cpp - 1
  PROVE  IsFiniteSet(H) /\ Cardinality(H) \in 0..Cpp
<1>1. IsFiniteSet(0..Cpp - 1) /\ Cardinality(0..Cpp - 1) = Cpp
  BY CppPositive, FS_Interval
<1>2. IsFiniteSet(H) /\ Cardinality(H) <= Cpp
  BY <1>1, FS_Subset
<1> QED BY <1>2, FS_CardinalityType

\* A page just mapped has nothing held and nothing free.
LEMMA BookZero == ZeroPage \in Header /\ Book(ZeroPage, {})
<1>1. ZeroPage \in Header
  BY CppPositive DEF ZeroPage, Header, Link
<1>2. ToSet(ZeroPage.free) = {} /\ Distinct(ZeroPage.free)
  BY DEF ZeroPage, ToSet, Distinct
<1> QED BY <1>1, <1>2, FS_EmptySet, CppPositive DEF Book, ZeroPage

\* The chunk mempool_get takes from a page was not held, and the bookkeeping counts it.
LEMMA BookTake ==
  ASSUME NEW h \in Header, NEW H, H \subseteq 0..Cpp - 1, Book(h, H), ChunkOf(h) < Cpp
  PROVE  /\ ChunkOf(h) \in (0..Cpp - 1) \ H
         /\ TakeChunk(h) \in Header
         /\ Book(TakeChunk(h), H \cup {ChunkOf(h)})
<1> DEFINE c == ChunkOf(h)
           t == TakeChunk(h)
           G == H \cup {c}
<1>1. c \in (0..Cpp - 1) \ H
  BY CppPositive DEF Book, ChunkOf, Header, ToSet
<1>2. IsFiniteSet(H) /\ Cardinality(G) = Cardinality(H) + 1
  BY <1>1, ChunksFinite, FS_AddElement
<1>3. G \subseteq 0..Cpp - 1 /\ Cardinality(G) \in 0..Cpp
  BY <1>1, ChunksFinite
<1>4. /\ t.inuse = h.inuse + 1
      /\ t.next = h.next /\ t.prev = h.prev
      /\ h.free # <<>> => t.used = h.used /\ t.free = Tail(h.free)
      /\ h.free = <<>> => t.used = h.used + 1 /\ t.free = h.free
      /\ t = [next |-> t.next, prev |-> t.prev, used |-> t.used, inuse |-> t.inuse, free |-> t.free]
  BY DEF TakeChunk, Header
<1>h. /\ h.free \in Seq(0..Cpp - 1) /\ h.used \in 0..Cpp /\ h.inuse \in 0..Cpp
      /\ h.next \in Link /\ h.prev \in Link
      /\ c = IF h.free # <<>> THEN Head(h.free) ELSE h.used
  BY DEF Header, ChunkOf
<1> HIDE DEF c, t, G
<1>5. t.free \in Seq(0..Cpp - 1)
  <2>1. h.free # <<>> => Tail(h.free) \in Seq(0..Cpp - 1)
    BY <1>h, HeadTailProperties
  <2> QED BY <1>4, <1>h, <2>1
<1>6. t.used \in 0..Cpp
  BY <1>1, <1>4, <1>h, CppPositive
<1>7. t.inuse \in 0..Cpp /\ t.inuse = Cardinality(G)
  BY <1>2, <1>3, <1>4 DEF Book
<1>8. t \in Header
  BY <1>4, <1>5, <1>6, <1>7, <1>h DEF Header
<1>9. Distinct(t.free)
  <2>1. CASE h.free = <<>>
    BY <1>4, <2>1 DEF Book
  <2>2. CASE h.free # <<>>
    <3>1. Len(t.free) = Len(h.free) - 1 /\ \A i \in 1..Len(t.free) : t.free[i] = h.free[i + 1]
      BY <1>4, <1>h, <2>2
    <3>2. \A i \in 1..Len(t.free) : i + 1 \in 1..Len(h.free)
      BY <3>1, <1>h
    <3>3. SUFFICES ASSUME NEW i \in 1..Len(t.free), NEW j \in 1..Len(t.free), t.free[i] = t.free[j]
                   PROVE  i = j
      BY DEF Distinct
    <3>4. i + 1 = j + 1
      BY <3>1, <3>2, <3>3 DEF Book, Distinct
    <3> QED BY <3>4
  <2> QED BY <2>1, <2>2
<1>10. ToSet(t.free) = ToSet(h.free) \ {c}
  <2>1. CASE h.free = <<>>
    BY <1>4, <2>1 DEF ToSet
  <2>2. CASE h.free # <<>>
    <3>1. c = h.free[1] /\ Len(t.free) = Len(h.free) - 1
          /\ \A i \in 1..Len(t.free) : t.free[i] = h.free[i + 1]
      BY <1>4, <2>2, <1>h
    <3>2. \A x \in ToSet(h.free) : x # c => x \in ToSet(t.free)
      <4>1. SUFFICES ASSUME NEW i \in 1..Len(h.free), h.free[i] # c
                     PROVE  h.free[i] \in ToSet(t.free)
        BY DEF ToSet, Header
      <4>2. i - 1 \in 1..Len(t.free) /\ t.free[i - 1] = h.free[i]
        BY <3>1, <4>1 DEF Header
      <4> QED BY <4>2, <1>5 DEF ToSet
    <3>3. \A x \in ToSet(t.free) : x \in ToSet(h.free) /\ x # c
      <4>1. SUFFICES ASSUME NEW i \in 1..Len(t.free)
                     PROVE  t.free[i] \in ToSet(h.free) /\ t.free[i] # c
        BY <1>5 DEF ToSet
      <4>2. i + 1 \in 1..Len(h.free) /\ t.free[i] = h.free[i + 1] /\ 1 \in 1..Len(h.free)
        BY <3>1, <2>2 DEF Header
      <4> QED BY <3>1, <4>2 DEF ToSet, Header, Book, Distinct
    <3> QED BY <3>2, <3>3
  <2> QED BY <2>1, <2>2
<1>11. \A i \in 0..Cpp - 1 : i \in ToSet(t.free) <=> i < t.used /\ i \notin G
  <2>1. CASE h.free # <<>>
    BY <1>4, <1>10, <2>1 DEF Book, G
  <2>2. CASE h.free = <<>>
    <3>1. ToSet(h.free) = {} /\ c = h.used /\ t.used = h.used + 1
      BY <1>4, <1>h, <2>2 DEF ToSet
    <3> QED BY <1>10, <1>h, <3>1 DEF Book, G
  <2> QED BY <2>1, <2>2
<1>12. \A i \in G : i < t.used
  <2>1. h.free # <<>> => c < h.used
    BY <1>1, <1>h DEF Book, ToSet
  <2> QED BY <1>4, <2>1, <1>3, <1>h DEF Book, G
<1>13. Book(t, G)
  BY <1>7, <1>9, <1>11, <1>12 DEF Book
<1> QED BY <1>1, <1>8, <1>13 DEF c, t, G

\* A chunk that is freed goes to the free list of its page.
LEMMA BookFree ==
  ASSUME NEW h \in Header, NEW H, H \subseteq 0..Cpp - 1, Book(h, H), NEW i \in H
  PROVE  /\ FreedChunk(h, i) \in Header
         /\ Book(FreedChunk(h, i), H \ {i})
<1> DEFINE t == FreedChunk(h, i)
           G == H \ {i}
<1>1. IsFiniteSet(H) /\ Cardinality(H) \in 0..Cpp
  BY ChunksFinite
<1>2. Cardinality(G) = Cardinality(H) - 1
  BY <1>1, FS_RemoveElement
<1>3. G \subseteq 0..Cpp - 1 /\ Cardinality(G) \in 0..Cpp
  BY ChunksFinite
<1>4. /\ t.inuse = h.inuse - 1
      /\ t.next = h.next /\ t.prev = h.prev /\ t.used = h.used
      /\ t.free = <<i>> \o h.free
  BY DEF FreedChunk, Header
<1>t. t = [next |-> h.next, prev |-> h.prev, used |-> h.used,
           inuse |-> h.inuse - 1, free |-> <<i>> \o h.free]
  <2> DEFINE fr == <<i>> \o h.free
  <2>1. t = [h EXCEPT !.inuse = h.inuse - 1, !.free = fr]
    BY DEF FreedChunk
  <2> HIDE DEF fr, t
  <2>2. t = [next |-> h.next, prev |-> h.prev, used |-> h.used, inuse |-> h.inuse - 1, free |-> fr]
    BY <2>1 DEF Header
  <2> QED BY <2>2 DEF fr
<1>h. /\ h.free \in Seq(0..Cpp - 1) /\ h.used \in 0..Cpp /\ h.inuse \in 0..Cpp
      /\ h.next \in Link /\ h.prev \in Link
  BY DEF Header
<1> HIDE DEF t, G
<1>5. t.free \in Seq(0..Cpp - 1)
  BY <1>4, <1>h
<1>6. t.inuse \in 0..Cpp /\ t.inuse = Cardinality(G)
  BY <1>2, <1>3, <1>4 DEF Book
<1>7. t \in Header
  BY <1>4, <1>t, <1>5, <1>6, <1>h DEF Header
<1>8. Len(t.free) = Len(h.free) + 1 /\ t.free[1] = i
      /\ \A j \in 1..Len(h.free) : t.free[j + 1] = h.free[j]
  BY <1>4, <1>h
<1>9. ToSet(t.free) = ToSet(h.free) \cup {i}
  <2>1. \A x \in ToSet(h.free) : x \in ToSet(t.free)
    <3>1. SUFFICES ASSUME NEW j \in 1..Len(h.free)
                   PROVE  h.free[j] \in ToSet(t.free)
      BY DEF ToSet, Header
    <3>2. j + 1 \in 1..Len(t.free) /\ t.free[j + 1] = h.free[j]
      BY <1>8 DEF Header
    <3> QED BY <3>2, <1>5 DEF ToSet
  <2>2. i \in ToSet(t.free)
    BY <1>8, <1>5 DEF ToSet, Header
  <2>3. \A x \in ToSet(t.free) : x \in ToSet(h.free) \cup {i}
    <3>1. SUFFICES ASSUME NEW j \in 1..Len(t.free), j # 1
                   PROVE  t.free[j] \in ToSet(h.free)
      <4>1. ToSet(t.free) = {t.free[j] : j \in 1..Len(t.free)}
        BY <1>5 DEF ToSet
      <4> QED BY <1>8, <4>1
    <3>2. j - 1 \in 1..Len(h.free) /\ t.free[j] = h.free[j - 1]
      BY <1>8, <3>1 DEF Header
    <3> QED BY <3>2 DEF ToSet, Header
  <2> QED BY <2>1, <2>2, <2>3
<1>10. \A j \in 0..Cpp - 1 : j \in ToSet(t.free) <=> j < t.used /\ j \notin G
  BY <1>4, <1>9 DEF Book, G
<1>11. \A j \in G : j < t.used
  BY <1>4 DEF Book, G
<1>12. \A j \in 1..Len(h.free) : h.free[j] # i
  BY DEF Book, ToSet, Header
<1>13. Distinct(t.free)
  <2>1. SUFFICES ASSUME NEW j \in 1..Len(t.free), NEW k \in 1..Len(t.free), t.free[j] = t.free[k]
                 PROVE  j = k
    BY DEF Distinct
  <2>2. j # 1 => j - 1 \in 1..Len(h.free) /\ t.free[j] = h.free[j - 1]
    BY <1>8, <1>h
  <2>3. k # 1 => k - 1 \in 1..Len(h.free) /\ t.free[k] = h.free[k - 1]
    BY <1>8, <1>h
  <2>4. j # 1 /\ k # 1 => j - 1 = k - 1
    BY <2>1, <2>2, <2>3 DEF Book, Distinct
  <2> QED BY <2>1, <2>2, <2>3, <2>4, <1>8, <1>12
<1>14. Book(t, G)
  BY <1>6, <1>10, <1>11, <1>13 DEF Book
<1> QED BY <1>7, <1>14 DEF t, G

-----------------------------------------------------------------------------
(* The steps *)

\* A step that changes the bookkeeping of one page m and no more.
LEMMA OnePage ==
  ASSUME Exact, TypeOK', NEW m \in Page,
         \A c \in Chunk : holders'[c] <= 1,
         \A p \in Page \ {m} : /\ page'[p].inuse = page[p].inuse
                               /\ page'[p].used = page[p].used
                               /\ page'[p].free = page[p].free
                               /\ \A i \in 0..Cpp - 1 : holders'[<<p, i>>] = holders[<<p, i>>]
                               /\ p \in mapped' <=> p \in mapped,
         Book(page'[m], Held(m)'),
         m \in mapped' <=> Held(m)' # {},
         m \notin mapped' => page'[m].used = 0
  PROVE  Exact'
<1>1. ASSUME NEW p \in Page \ {m}
      PROVE  Book(page'[p], Held(p)') /\ (p \in mapped' <=> Held(p)' # {})
             /\ (p \notin mapped' => page'[p].used = 0)
  <2>1. Held(p)' = Held(p)
    BY DEF Held
  <2>2. Book(page'[p], Held(p))
    BY BookLinks DEF Exact, PagesBooked
  <2> QED BY <2>1, <2>2 DEF Exact, PagesBooked
<1>2. PagesBooked'
  BY <1>1 DEF PagesBooked
<1> QED BY <1>2 DEF Exact, OneHolder

\* The chunks held on page m when one more of them, or one less, has a holder.
LEMMA HeldMore ==
  ASSUME TypeOK, NEW m \in Page, NEW i \in 0..Cpp - 1, holders[<<m, i>>] = 0,
         holders' = [holders EXCEPT ![<<m, i>>] = @ + 1]
  PROVE  Held(m)' = Held(m) \cup {i}
BY DEF Held, TypeOK, Chunk

\* A chunk that is put back is held no longer.
LEMMA HeldLess ==
  ASSUME TypeOK, NEW m \in Page, NEW i \in 0..Cpp - 1, holders[<<m, i>>] = 1,
         holders' = [holders EXCEPT ![<<m, i>>] = @ - 1]
  PROVE  Held(m)' = Held(m) \ {i}
BY DEF Held, TypeOK, Chunk

\* mempool_get takes a chunk that nobody holds from the page at the head.
LEMMA TakeStep ==
  ASSUME Exact, NEW m \in Page, NEW h \in Header, Book(h, Held(m)), ChunkOf(h) < Cpp,
         TakeFrom(m, h), mapped' = mapped \cup {m}, UNCHANGED fault, spoiled' \in BOOLEAN
  PROVE  Exact' /\ Pool!Get(<<m, ChunkOf(h)>>)
<1> DEFINE c == ChunkOf(h)
           t == TakeChunk(h)
<1>1. TypeOK /\ Held(m) \subseteq 0..Cpp - 1
  BY DEF Exact, Held
<1>2. c \in 0..Cpp - 1 /\ c \notin Held(m) /\ t \in Header /\ Book(t, Held(m) \cup {c})
  BY <1>1, BookTake
<1>3. <<m, c>> \in Chunk /\ holders[<<m, c>>] = 0
  BY <1>1, <1>2 DEF Held, TypeOK, Chunk
<1>4. holders' = [holders EXCEPT ![<<m, c>>] = @ + 1]
  BY DEF TakeFrom
<1> HIDE DEF c, t
<1>5. Held(m)' = Held(m) \cup {c}
  BY <1>1, <1>2, <1>3, <1>4, HeldMore
<1>6. page' = [page EXCEPT ![m] = page'[m]] /\ page'[m] \in Header
      /\ page'[m].inuse = t.inuse /\ page'[m].used = t.used /\ page'[m].free = t.free
  BY <1>1, <1>2 DEF TakeFrom, TypeOK, t, Header, Link
<1>7. pages' \in Link
  BY DEF TakeFrom, Header, Link
<1>8. holders' \in [Chunk -> Nat] /\ \A d \in Chunk : holders'[d] <= 1
  BY <1>1, <1>3, <1>4 DEF TypeOK, Exact, OneHolder
<1>9. TypeOK'
  BY <1>1, <1>6, <1>7, <1>8 DEF TypeOK
<1>10. Book(page'[m], Held(m)')
  BY <1>2, <1>5, <1>6, BookLinks
<1>11. \A p \in Page \ {m} : page'[p] = page[p] /\ \A i \in 0..Cpp - 1 : holders'[<<p, i>>] = holders[<<p, i>>]
  BY <1>1, <1>4, <1>6 DEF TypeOK, Chunk
<1>12. Exact'
  BY <1>5, <1>8, <1>9, <1>10, <1>11, OnePage
<1>13. Pool!Get(<<m, c>>)
  BY <1>3, <1>4 DEF Pool!Get
<1> QED BY <1>12, <1>13 DEF c

\* What a chunk that is freed leaves behind: its page keeps the others.
LEMMA FreeFacts ==
  ASSUME Exact, NEW m \in Page, NEW i \in 0..Cpp - 1, holders[<<m, i>>] > 0,
         holders' = [holders EXCEPT ![<<m, i>>] = @ - 1]
  PROVE  /\ <<m, i>> \in Chunk /\ holders[<<m, i>>] = 1
         /\ Pool!Free(<<m, i>>)
         /\ holders' \in [Chunk -> Nat] /\ \A d \in Chunk : holders'[d] <= 1
         /\ \A p \in Page \ {m} : \A j \in 0..Cpp - 1 : holders'[<<p, j>>] = holders[<<p, j>>]
         /\ Held(m)' = Held(m) \ {i}
         /\ m \in mapped /\ i \in Held(m) /\ Held(m) \subseteq 0..Cpp - 1 /\ IsFiniteSet(Held(m))
         /\ page[m] \in Header /\ Book(page[m], Held(m))
         /\ page[m].inuse = Cardinality(Held(m))
<1>1. TypeOK /\ <<m, i>> \in Chunk
  BY DEF Exact, Chunk
<1>2. holders[<<m, i>>] = 1
  BY <1>1 DEF TypeOK, Exact, OneHolder
<1>3. holders' \in [Chunk -> Nat] /\ \A d \in Chunk : holders'[d] <= 1
  BY <1>1, <1>2 DEF TypeOK, Exact, OneHolder
<1>4. \A p \in Page \ {m} : \A j \in 0..Cpp - 1 : holders'[<<p, j>>] = holders[<<p, j>>]
  BY <1>1 DEF TypeOK, Chunk
<1>5. Held(m)' = Held(m) \ {i}
  BY <1>1, <1>2, HeldLess
<1>6. Pool!Free(<<m, i>>)
  BY <1>1, <1>2 DEF Pool!Free
<1>7. Held(m) \subseteq 0..Cpp - 1 /\ i \in Held(m)
  BY DEF Held
<1>8. IsFiniteSet(Held(m))
  BY <1>7, ChunksFinite
<1> QED BY <1>1, <1>2, <1>3, <1>4, <1>5, <1>6, <1>7, <1>8 DEF Exact, PagesBooked, Book, TypeOK

\* The last chunk of a page takes the page with it.
LEMMA FreeLastStep ==
  ASSUME Exact, NEW m \in Page, NEW i \in 0..Cpp - 1, FreeLast(m, i)
  PROVE  Exact' /\ Pool!Free(<<m, i>>)
<1>1. TypeOK
  BY DEF Exact
<1>2. holders[<<m, i>>] > 0 /\ holders' = [holders EXCEPT ![<<m, i>>] = @ - 1] /\ page[m].inuse = 1
  BY DEF FreeLast
<1>f. /\ holders' \in [Chunk -> Nat] /\ \A d \in Chunk : holders'[d] <= 1
      /\ \A p \in Page \ {m} : \A j \in 0..Cpp - 1 : holders'[<<p, j>>] = holders[<<p, j>>]
      /\ Held(m)' = Held(m) \ {i}
      /\ Pool!Free(<<m, i>>)
  BY <1>2, FreeFacts
<1>g. /\ i \in Held(m) /\ Held(m) \subseteq 0..Cpp - 1 /\ IsFiniteSet(Held(m))
      /\ page[m] \in Header /\ Book(page[m], Held(m)) /\ page[m].inuse = Cardinality(Held(m))
      /\ m \in mapped
  BY <1>2, FreeFacts
<1>3. Cardinality(Held(m) \ {i}) = 0 /\ IsFiniteSet(Held(m) \ {i})
  BY <1>2, <1>g, FS_RemoveElement
<1>4. Held(m)' = {}
  BY <1>3, <1>f, FS_EmptySet
<1>5. page[m].next \in Link /\ page[m].prev \in Link
  BY <1>1 DEF TypeOK, Header
<1>6. ASSUME NEW P \in [Page -> Header], NEW q \in Link, NEW v \in Link
      PROVE  /\ SetNext(P, q, v) \in [Page -> Header] /\ SetPrev(P, q, v) \in [Page -> Header]
             /\ \A p \in Page : /\ SetNext(P, q, v)[p].inuse = P[p].inuse /\ SetPrev(P, q, v)[p].inuse = P[p].inuse
                                /\ SetNext(P, q, v)[p].used = P[p].used /\ SetPrev(P, q, v)[p].used = P[p].used
                                /\ SetNext(P, q, v)[p].free = P[p].free /\ SetPrev(P, q, v)[p].free = P[p].free
  BY DEF SetNext, SetPrev, Header, Link
<1>7. Unlinked(m) \in [Page -> Header]
      /\ \A p \in Page : /\ Unlinked(m)[p].inuse = page[p].inuse
                         /\ Unlinked(m)[p].used = page[p].used
                         /\ Unlinked(m)[p].free = page[p].free
  <2> DEFINE P == SetPrev(page, page[m].next, page[m].prev)
  <2>1. /\ P \in [Page -> Header]
        /\ \A p \in Page : P[p].inuse = page[p].inuse /\ P[p].used = page[p].used /\ P[p].free = page[p].free
    BY <1>1, <1>5, <1>6 DEF TypeOK
  <2>2. Unlinked(m) = SetNext(P, page[m].prev, page[m].next)
    BY DEF Unlinked
  <2> HIDE DEF P
  <2> QED BY <1>5, <1>6, <2>1, <2>2
<1>8. page' = [Unlinked(m) EXCEPT ![m] = ZeroPage]
  BY DEF FreeLast
<1>9. page' \in [Page -> Header] /\ page'[m] = ZeroPage
      /\ \A p \in Page \ {m} : page'[p] = Unlinked(m)[p]
  BY <1>7, <1>8, BookZero
<1>10. pages' \in Link /\ mapped' = mapped \ {m} /\ UNCHANGED fault /\ spoiled' \in BOOLEAN
  BY <1>1, <1>5 DEF FreeLast, TypeOK
<1>11. TypeOK'
  BY <1>1, <1>9, <1>10, <1>f DEF TypeOK
<1>12. Book(page'[m], Held(m)') /\ page'[m].used = 0
  BY <1>4, <1>9, BookZero DEF ZeroPage
<1>13. Exact'
  BY <1>4, <1>7, <1>9, <1>10, <1>11, <1>12, <1>f, OnePage
<1> QED BY <1>13, <1>f

\* Another chunk goes to the free list, whether or not its page returns to the list.
LEMMA FreeOneStep ==
  ASSUME Exact, NEW m \in Page, NEW i \in 0..Cpp - 1, FreeOne(m, i)
  PROVE  Exact' /\ Pool!Free(<<m, i>>)
<1> DEFINE h == FreedChunk(page[m], i)
<1>1. TypeOK
  BY DEF Exact
<1>2. holders[<<m, i>>] > 0 /\ holders' = [holders EXCEPT ![<<m, i>>] = @ - 1] /\ page[m].inuse > 1
  BY DEF FreeOne
<1>f. /\ holders' \in [Chunk -> Nat] /\ \A d \in Chunk : holders'[d] <= 1
      /\ \A p \in Page \ {m} : \A j \in 0..Cpp - 1 : holders'[<<p, j>>] = holders[<<p, j>>]
      /\ Held(m)' = Held(m) \ {i}
      /\ Pool!Free(<<m, i>>)
  BY <1>2, FreeFacts
<1>g. /\ i \in Held(m) /\ Held(m) \subseteq 0..Cpp - 1 /\ IsFiniteSet(Held(m))
      /\ page[m] \in Header /\ Book(page[m], Held(m)) /\ page[m].inuse = Cardinality(Held(m))
      /\ m \in mapped
  BY <1>2, FreeFacts
<1>c. Cardinality(Held(m) \ {i}) = Cardinality(Held(m)) - 1
  BY <1>g, FS_RemoveElement
<1>3. Cardinality(Held(m)') > 0
  BY <1>2, <1>f, <1>g, <1>c DEF Header
<1>4. Held(m)' # {}
  BY <1>3, FS_EmptySet
<1>b. FreedChunk(page[m], i) \in Header /\ Book(FreedChunk(page[m], i), Held(m) \ {i})
  BY <1>g, BookFree
<1>5. h \in Header /\ Book(h, Held(m)')
  BY <1>f, <1>b, Zenon
<1> HIDE DEF h
<1>6. page'[m].inuse = h.inuse /\ page'[m].used = h.used /\ page'[m].free = h.free
      /\ page' \in [Page -> Header] /\ pages' \in Link
      /\ \A p \in Page \ {m} : /\ page'[p].inuse = page[p].inuse
                               /\ page'[p].used = page[p].used
                               /\ page'[p].free = page[p].free
  <2>1. CASE OffList(page[m], m)
    <3>1. /\ page' = [SetPrev(page, pages, m) EXCEPT ![m] = [h EXCEPT !.next = pages]]
          /\ pages' = m
      BY <2>1 DEF FreeOne, h
    <3>2. /\ SetPrev(page, pages, m) \in [Page -> Header]
          /\ \A p \in Page : /\ SetPrev(page, pages, m)[p].inuse = page[p].inuse
                             /\ SetPrev(page, pages, m)[p].used = page[p].used
                             /\ SetPrev(page, pages, m)[p].free = page[p].free
      BY <1>1 DEF SetPrev, TypeOK, Header, Link
    <3>3. [h EXCEPT !.next = pages] \in Header
      BY <1>1, <1>5 DEF TypeOK, Header
    <3> QED BY <1>5, <3>1, <3>2, <3>3 DEF Header, Link
  <2>2. CASE ~OffList(page[m], m)
    <3>1. page' = [page EXCEPT ![m] = h] /\ UNCHANGED pages
      BY <2>2 DEF FreeOne, h
    <3> QED BY <1>1, <1>5, <3>1 DEF TypeOK
  <2> QED BY <2>1, <2>2
<1>7. mapped' = mapped /\ UNCHANGED <<fault, spoiled>>
  BY DEF FreeOne
<1>8. TypeOK'
  BY <1>1, <1>6, <1>7, <1>f DEF TypeOK
<1>9. Book(page'[m], Held(m)')
  BY <1>5, <1>6, BookLinks
<1>10. Exact'
  BY <1>4, <1>6, <1>7, <1>8, <1>9, <1>f, <1>g, OnePage
<1> QED BY <1>10, <1>f

\* Every step keeps the bookkeeping and is a Get, a Free or a stutter of ChunkPool.
LEMMA ExactStep ==
  ASSUME Exact, [Next]_vars
  PROVE  Exact' /\ [Pool!Next]_holders
<1>1. TypeOK
  BY DEF Exact
<1>2. ASSUME GetListed PROVE Exact' /\ Pool!Next
  <2> DEFINE m == pages
  <2>1. m \in Page /\ m \in mapped /\ page[m] \in Header /\ Book(page[m], Held(m))
        /\ ChunkOf(page[m]) < Cpp
    BY <1>1, <1>2 DEF GetListed, TypeOK, Exact, PagesBooked
  <2>2. /\ TakeFrom(m, page[m])
        /\ mapped' = mapped \cup {m} /\ UNCHANGED fault /\ spoiled' \in BOOLEAN
    BY <1>1, <1>2, <2>1 DEF GetListed, TypeOK
  <2> HIDE DEF m
  <2>3. Exact' /\ Pool!Get(<<m, ChunkOf(page[m])>>)
    BY <2>1, <2>2, TakeStep
  <2>4. <<m, ChunkOf(page[m])>> \in Chunk
    BY <2>1, BookTake DEF Chunk, Held
  <2> QED BY <2>3, <2>4 DEF Pool!Next
<1>3. ASSUME NEW p \in Page, GetMapped(p) PROVE Exact' /\ Pool!Next
  <2>1. Held(p) = {} /\ ChunkOf(ZeroPage) = 0 /\ 0 \in 0..Cpp - 1 /\ 0 < Cpp
    BY <1>3, CppPositive DEF GetMapped, Exact, PagesBooked, ChunkOf, ZeroPage
  <2>2. ZeroPage \in Header /\ Book(ZeroPage, Held(p))
    BY <2>1, BookZero
  <2>3. TakeFrom(p, ZeroPage) /\ mapped' = mapped \cup {p} /\ UNCHANGED fault /\ spoiled' \in BOOLEAN
    BY <1>1, <1>3 DEF GetMapped, TypeOK
  <2>4. Exact' /\ Pool!Get(<<p, ChunkOf(ZeroPage)>>)
    BY <2>1, <2>2, <2>3, TakeStep
  <2> QED BY <2>1, <2>4 DEF Pool!Next, Chunk
<1>4. ASSUME NEW m \in Page, NEW i \in 0..Cpp - 1, FreeLast(m, i) \/ FreeOne(m, i)
      PROVE  Exact' /\ Pool!Next
  <2>1. Exact' /\ Pool!Free(<<m, i>>)
    BY <1>4, FreeLastStep, FreeOneStep
  <2> QED BY <2>1 DEF Pool!Next, Chunk
<1>5. ASSUME NEW why \in {"mmap", "stale", "beyond"}, Faults(why) PROVE Exact' /\ UNCHANGED holders
  BY <1>5 DEF Faults, Exact, TypeOK, PagesBooked, OneHolder, Held
<1>6. ASSUME UNCHANGED vars PROVE Exact' /\ UNCHANGED holders
  BY <1>6 DEF vars, Exact, TypeOK, PagesBooked, OneHolder, Held
<1> QED BY <1>2, <1>3, <1>4, <1>5, <1>6 DEF Next, MmapFails, GetFaults, FreeFaults

\* The bookkeeping of an empty pool.
LEMMA ExactInit == Init => Exact
<1> SUFFICES ASSUME Init PROVE Exact
  OBVIOUS
<1>1. \A p \in Page : page[p] = ZeroPage /\ Held(p) = {}
  BY DEF Init, Held, Chunk
<1>2. TypeOK
  BY BookZero DEF Init, TypeOK, Link
<1>3. \A p \in Page : Book(page[p], Held(p)) /\ page[p].used = 0 /\ p \notin mapped
  BY <1>1, BookZero DEF Init, ZeroPage
<1> QED BY <1>1, <1>2, <1>3 DEF Init, Exact, PagesBooked, OneHolder

\* The bookkeeping of every page is exact in every reachable state.
THEOREM Invariance == Spec => []Exact
BY ExactInit, ExactStep, PTL DEF Spec

\* The invariant says what ChunksExact says.
LEMMA ExactSuffices == Exact => ChunksExact
<1> SUFFICES ASSUME Exact, NEW p \in Page
             PROVE  /\ page[p].inuse = Cardinality(Held(p))
                    /\ p \in mapped <=> Held(p) # {}
                    /\ Held(p) \cap ToSet(page[p].free) = {}
                    /\ Held(p) \cup ToSet(page[p].free) = IF p \in mapped THEN 0..page[p].used - 1 ELSE {}
  BY DEF Exact, ChunksExact, Held
<1>1. Book(page[p], Held(p)) /\ page[p] \in Header
  BY DEF Exact, PagesBooked, TypeOK
<1>2. ToSet(page[p].free) \subseteq 0..Cpp - 1 /\ page[p].used \in 0..Cpp
  <2>1. page[p].free \in Seq(0..Cpp - 1) /\ page[p].used \in 0..Cpp
    BY <1>1 DEF Header
  <2>2. ASSUME NEW s \in Seq(0..Cpp - 1) PROVE ToSet(s) \subseteq 0..Cpp - 1
    <3>1. \A n \in 1..Len(s) : s[n] \in 0..Cpp - 1
      BY ElementOfSeq
    <3> QED BY <3>1 DEF ToSet
  <2> QED BY <2>1, <2>2
<1>3. Held(p) \subseteq 0..Cpp - 1
  BY DEF Held
<1>4. p \in mapped <=> Held(p) # {}
  BY DEF Exact, PagesBooked
<1>5. Held(p) \cap ToSet(page[p].free) = {}
  BY <1>1, <1>2 DEF Book
<1>6. \A i \in 0..Cpp - 1 : i \in Held(p) \cup ToSet(page[p].free) <=> i < page[p].used
  BY <1>1 DEF Book
<1>7. p \in mapped => Held(p) \cup ToSet(page[p].free) = 0..page[p].used - 1
  BY <1>2, <1>3, <1>6, CppPositive
<1>8. p \notin mapped => Held(p) \cup ToSet(page[p].free) = {}
  BY <1>2, <1>3, <1>6 DEF Exact, PagesBooked
<1> QED BY <1>1, <1>4, <1>5, <1>7, <1>8 DEF Book

\* mempool_get and mempool_free keep the counts and the free list of every page exact,
\* even when the list of pages has been corrupted.
THEOREM BookkeepingExact == Spec => []ChunksExact
BY Invariance, ExactSuffices, PTL

\* The pool refines ChunkPool: no chunk is handed out while somebody holds it.
THEOREM NeverShared == Spec => Exclusive
<1>1. Init => Pool!Init
  BY DEF Init, Pool!Init
<1> QED BY <1>1, Invariance, ExactStep, PTL DEF Spec, Exclusive, Pool!Spec

-----------------------------------------------------------------------------
(* The list of pages *)

\* L is the list that mp->pages heads, in order: it is linked both ways, it holds the mapped
\* pages that have room, and the pages that are full have no links.  The head's prev may be
\* left over from a page that is full.
Chain(L) ==
  /\ L \in Seq(Page) /\ Distinct(L)
  /\ pages = IF L = <<>> THEN NULL ELSE L[1]
  /\ \A i \in 1..Len(L) : page[L[i]].next = IF i = Len(L) THEN NULL ELSE L[i + 1]
  /\ \A i \in 2..Len(L) : page[L[i]].prev = L[i - 1]
  /\ L # <<>> => \/ page[L[1]].prev = NULL
                 \/ /\ page[L[1]].prev \in mapped
                    /\ page[page[L[1]].prev].inuse = Cpp
  /\ \A p \in Page : (\E i \in 1..Len(L) : L[i] = p) <=> p \in mapped /\ page[p].inuse < Cpp
  /\ \A p \in mapped : page[p].inuse = Cpp => page[p].next = NULL /\ page[p].prev = NULL

\* The inductive invariant: there is such a list until a page off it is given a next.
Linked == ~spoiled => fault \notin {"stale", "beyond"} /\ \E L \in Seq(Page) : Chain(L)

\* What a list is in one-line facts.
LEMMA ChainFacts ==
  ASSUME Exact, NEW L \in Seq(Page), Chain(L)
  PROVE  /\ \A i \in 1..Len(L) : L[i] \in Page /\ L[i] \in mapped /\ page[L[i]].inuse < Cpp
         /\ \A i, j \in 1..Len(L) : L[i] = L[j] => i = j
         /\ Len(L) \in Nat /\ (L = <<>> <=> Len(L) = 0)
BY DEF Chain, Distinct

\* A step that changes no link, and fills or empties no page, leaves the list as it is.
LEMMA SameChain ==
  ASSUME Exact, NEW L \in Seq(Page), Chain(L), pages' = pages, mapped' = mapped,
         \A p \in Page : page'[p].next = page[p].next /\ page'[p].prev = page[p].prev,
         \A p \in Page : (page'[p].inuse < Cpp <=> page[p].inuse < Cpp)
                         /\ (page'[p].inuse = Cpp <=> page[p].inuse = Cpp)
  PROVE  Chain(L)'
<1>1. /\ \A i \in 1..Len(L) : L[i] \in Page
      /\ Len(L) \in Nat /\ (L = <<>> <=> Len(L) = 0)
  BY ChainFacts
<1>2. mapped \subseteq Page
  BY DEF Exact, TypeOK
<1>3. \A i \in 1..Len(L) : page'[L[i]].next = IF i = Len(L) THEN NULL ELSE L[i + 1]
  <2>1. \A i \in 1..Len(L) : page[L[i]].next = IF i = Len(L) THEN NULL ELSE L[i + 1]
    BY DEF Chain
  <2> QED BY <1>1, <2>1
<1>4. \A i \in 2..Len(L) : page'[L[i]].prev = L[i - 1]
  <2>1. \A i \in 2..Len(L) : page[L[i]].prev = L[i - 1] /\ i \in 1..Len(L)
    BY <1>1 DEF Chain
  <2> QED BY <1>1, <2>1
<1>5. L # <<>> => \/ page'[L[1]].prev = NULL
                  \/ /\ page'[L[1]].prev \in mapped
                     /\ page'[page'[L[1]].prev].inuse = Cpp
  <2> SUFFICES ASSUME L # <<>>
               PROVE  \/ page'[L[1]].prev = NULL
                      \/ page'[L[1]].prev \in mapped /\ page'[page'[L[1]].prev].inuse = Cpp
    OBVIOUS
  <2>1. L[1] \in Page
    BY <1>1
  <2> DEFINE q == page[L[1]].prev
  <2>2. q = NULL \/ (q \in mapped /\ page[q].inuse = Cpp)
    BY DEF Chain
  <2>3. page'[L[1]].prev = q
    BY <2>1
  <2> HIDE DEF q
  <2> QED BY <1>2, <2>2, <2>3
<1>6. \A p \in Page : (\E i \in 1..Len(L) : L[i] = p) <=> p \in mapped /\ page'[p].inuse < Cpp
  BY DEF Chain
<1>7. \A p \in mapped : page'[p].inuse = Cpp => page'[p].next = NULL /\ page'[p].prev = NULL
  BY <1>2 DEF Chain
<1>8. Distinct(L) /\ pages' = IF L = <<>> THEN NULL ELSE L[1]
  BY DEF Chain
<1> QED BY <1>3, <1>4, <1>5, <1>6, <1>7, <1>8 DEF Chain

\* Following next from mp->pages visits the pages of L and ends with NULL.
LEMMA ChainWalk ==
  ASSUME Exact, NEW L \in Seq(Page), Chain(L)
  PROVE  Listed = {L[i] : i \in 1..Len(L)}
<1> DEFINE G == [i \in Nat |-> IF i < Len(L) THEN L[i + 1] ELSE NULL]
           Along(f) == [i \in Nat |-> IF i = 0 THEN pages
                                      ELSE IF f[i - 1] = NULL THEN NULL ELSE page[f[i - 1]].next]
<1>1. /\ \A i \in 1..Len(L) : L[i] \in Page /\ L[i] # NULL
      /\ \A i, j \in 1..Len(L) : L[i] = L[j] => i = j
      /\ Len(L) \in Nat /\ (L = <<>> <=> Len(L) = 0)
  BY ChainFacts, NullNoPage
<1>2. G = Along(G)
  <2>1. SUFFICES ASSUME NEW i \in Nat
                 PROVE  G[i] = IF i = 0 THEN pages
                               ELSE IF G[i - 1] = NULL THEN NULL ELSE page[G[i - 1]].next
    OBVIOUS
  <2>2. CASE i = 0
    BY <1>1, <2>2 DEF Chain
  <2>3. CASE i # 0 /\ i - 1 < Len(L)
    <3>1. G[i - 1] = L[i] /\ i \in 1..Len(L)
      BY <2>3, <1>1
    <3>2. page[L[i]].next = IF i = Len(L) THEN NULL ELSE L[i + 1]
      BY <3>1 DEF Chain
    <3> QED BY <1>1, <2>3, <3>1, <3>2
  <2>4. CASE i # 0 /\ ~(i - 1 < Len(L))
    BY <1>1, <2>4
  <2> QED BY <1>1, <2>2, <2>3, <2>4
<1> HIDE DEF G
<1>3. Walk = Along(Walk)
  <2>1. \E f : f = Along(f)
    BY <1>2
  <2>2. Walk = CHOOSE f : f = Along(f)
    BY DEF Walk
  <2> HIDE DEF Along
  <2> QED BY <2>1, <2>2
<1>4. \A i \in Nat : Walk[i] = G[i]
  <2> DEFINE S == {i \in Nat : Walk[i] # G[i]}
  <2> SUFFICES ASSUME S # {} PROVE FALSE
    OBVIOUS
  <2>1. PICK n \in S : \A k \in S : n <= k
    BY LeastNatural
  <2>2. CASE n = 0
    BY <1>2, <1>3, <2>1, <2>2
  <2>3. CASE n # 0
    <3>1. n - 1 \in Nat /\ n - 1 \notin S
      BY <2>1, <2>3
    <3>2. Walk[n - 1] = G[n - 1]
      BY <3>1
    <3>3. Walk[n] = Along(Walk)[n] /\ G[n] = Along(G)[n]
      BY <1>2, <1>3
    <3> QED BY <2>1, <2>3, <3>2, <3>3
  <2> QED BY <2>2, <2>3
<1>5. Len(L) <= Cardinality(Page) /\ Cardinality(Page) \in Nat
  <2>1. L \in Injection(1..Len(L), Page)
    BY <1>1 DEF Injection, IsInjective
  <2>2. IsFiniteSet(1..Len(L)) /\ Cardinality(1..Len(L)) = Len(L)
    BY <1>1, FS_Interval
  <2> QED BY <2>1, <2>2, PagesFinite, FS_Injection, FS_CardinalityType
<1>6. \A i \in 1..Len(L) : L[i] \in Listed
  <2> SUFFICES ASSUME NEW i \in 1..Len(L) PROVE L[i] \in Listed
    OBVIOUS
  <2>1. i - 1 \in 0..Cardinality(Page) /\ Walk[i - 1] = L[i]
    BY <1>1, <1>4, <1>5 DEF G
  <2> QED BY <1>1, <2>1 DEF Listed
<1>7. \A i \in 0..Cardinality(Page) : Walk[i] # NULL => \E j \in 1..Len(L) : Walk[i] = L[j]
  BY <1>1, <1>4, <1>5 DEF G
<1> QED BY <1>1, <1>6, <1>7 DEF Listed

\* A page that is not full has a chunk to hand out.
LEMMA Room ==
  ASSUME NEW h \in Header, NEW H, H \subseteq 0..Cpp - 1, Book(h, H), h.inuse < Cpp
  PROVE  ChunkOf(h) < Cpp
<1>1. h.free \in Seq(0..Cpp - 1) /\ h.used \in 0..Cpp
  BY DEF Header
<1>2. CASE h.free # <<>>
  BY <1>1, <1>2, HeadTailProperties, CppPositive DEF ChunkOf
<1>3. CASE h.free = <<>>
  <2>1. ToSet(h.free) = {}
    BY <1>3 DEF ToSet
  <2>2. H = 0..h.used - 1
    <3>1. \A i \in 0..Cpp - 1 : i \in H <=> i < h.used
      BY <2>1 DEF Book
    <3>2. ASSUME NEW x \in H PROVE x \in 0..h.used - 1
      BY <1>1, <3>1, CppPositive
    <3>3. ASSUME NEW x \in 0..h.used - 1 PROVE x \in H
      <4>1. x \in 0..Cpp - 1 /\ x < h.used
        BY <1>1, CppPositive
      <4> QED BY <3>1, <4>1
    <3> QED BY <3>2, <3>3
  <2>3. Cardinality(0..h.used - 1) = h.used
    <3>1. h.used - 1 \in Int /\ 0 \in Int /\ h.used \in Nat
      BY <1>1, CppPositive
    <3>2. Cardinality(0..h.used - 1) = IF 0 > h.used - 1 THEN 0 ELSE h.used - 1 - 0 + 1
      BY <3>1, FS_Interval
    <3> QED BY <3>1, <3>2
  <2> QED BY <1>1, <1>3, <2>2, <2>3, CppPositive DEF Book, ChunkOf
<1> QED BY <1>2, <1>3

\* A mapped page has a chunk that is held.
LEMMA MappedInUse ==
  ASSUME Exact, NEW p \in mapped
  PROVE  page[p].inuse # 0 /\ page[p].inuse \in 1..Cpp
<1>1. p \in Page
  BY DEF Exact, TypeOK
<1>2. Held(p) \subseteq 0..Cpp - 1 /\ Held(p) # {} /\ page[p].inuse = Cardinality(Held(p))
  BY <1>1 DEF Exact, PagesBooked, Book, Held
<1>3. IsFiniteSet(Held(p)) /\ Cardinality(Held(p)) \in 0..Cpp
  BY <1>2, ChunksFinite
<1>4. Cardinality(Held(p)) # 0
  BY <1>2, <1>3, FS_EmptySet
<1> QED BY <1>2, <1>3, <1>4, CppPositive

\* What holds before each of the following steps.
Before(L) == Exact /\ L \in Seq(Page) /\ Chain(L) /\ fault = "none"

\* mempool_get takes a chunk from the head of the list, which leaves it when it is full.
LEMMA LinkedGetListed ==
  ASSUME NEW L, Before(L), GetListed
  PROVE  \E M \in Seq(Page) : Chain(M)'
<1> DEFINE m == pages
           h == page[m]
           t == TakeChunk(h)
<1>1. /\ \A i \in 1..Len(L) : L[i] \in Page /\ L[i] \in mapped /\ page[L[i]].inuse < Cpp
      /\ \A i, j \in 1..Len(L) : L[i] = L[j] => i = j
      /\ Len(L) \in Nat /\ (L = <<>> <=> Len(L) = 0)
  BY ChainFacts DEF Before
<1>2. TypeOK /\ mapped \subseteq Page /\ page \in [Page -> Header] /\ NULL \notin Page
  BY NullNoPage DEF Before, Exact, TypeOK
<1>3. L # <<>> /\ m = L[1] /\ 1 \in 1..Len(L) /\ m \in mapped /\ m \in Page
  BY <1>1, <1>2 DEF Before, Chain, GetListed
<1>4. t.next = h.next /\ t.prev = h.prev /\ t.inuse = h.inuse + 1 /\ h.inuse \in 0..Cpp - 1
  <2>1. h \in Header /\ h.inuse < Cpp
    BY <1>1, <1>2, <1>3
  <2> HIDE DEF h
  <2>2. t.next = h.next /\ t.prev = h.prev /\ t.inuse = h.inuse + 1
    BY <2>1 DEF TakeChunk, Header
  <2> QED BY <2>1, <2>2, CppPositive DEF Header
<1>5. /\ page' = [page EXCEPT ![m] = IF t.inuse = Cpp THEN [t EXCEPT !.next = NULL, !.prev = NULL] ELSE t]
      /\ pages' = IF t.inuse = Cpp THEN h.next ELSE m
      /\ mapped' = mapped
  BY DEF GetListed, TakeFrom
<1> HIDE DEF t
<1>6. CASE t.inuse # Cpp
  <2>1. page'[m] = t /\ (\A p \in Page \ {m} : page'[p] = page[p]) /\ pages' = m
    BY <1>2, <1>3, <1>5, <1>6
  <2>2. \A p \in Page : page'[p].next = page[p].next /\ page'[p].prev = page[p].prev
    BY <1>4, <2>1
  <2>3. \A p \in Page : (page'[p].inuse < Cpp <=> page[p].inuse < Cpp)
                        /\ (page'[p].inuse = Cpp <=> page[p].inuse = Cpp)
    BY <1>4, <1>6, <2>1, CppPositive
  <2>4. Chain(L)'
    BY <1>3, <1>5, <2>1, <2>2, <2>3, SameChain DEF Before
  <2> QED BY <2>4 DEF Before
<1>7. CASE t.inuse = Cpp
  <2> DEFINE M == Tail(L)
  <2>1. /\ M \in Seq(Page) /\ Len(M) = Len(L) - 1
        /\ \A i \in 1..Len(M) : M[i] = L[i + 1] /\ i + 1 \in 1..Len(L)
        /\ M = <<>> <=> Len(L) = 1
    <3>1. L \in Seq(Page) /\ L # <<>>
      BY <1>3 DEF Before
    <3>2. M \in Seq(Page) /\ Len(M) = Len(L) - 1 /\ \A i \in 1..Len(M) : M[i] = L[i + 1]
      BY <3>1, HeadTailProperties
    <3> HIDE DEF M
    <3>3. M = <<>> <=> Len(M) = 0
      BY <3>2
    <3> QED BY <1>1, <3>2, <3>3
  <2> HIDE DEF M
  <2>2. page'[m] = [t EXCEPT !.next = NULL, !.prev = NULL] /\ (\A p \in Page \ {m} : page'[p] = page[p])
    BY <1>2, <1>3, <1>5, <1>7
  <2>3. page'[m].next = NULL /\ page'[m].prev = NULL /\ page'[m].inuse = Cpp
    BY <1>2, <1>3, <1>7, <2>2 DEF t, TakeChunk, Header
  <2>4. \A i \in 1..Len(M) : M[i] # m /\ M[i] \in Page
    BY <1>1, <1>3, <2>1
  <2>5. Distinct(M)
    BY <1>1, <2>1 DEF Distinct
  <2>6. pages' = IF M = <<>> THEN NULL ELSE M[1]
    BY <1>1, <1>3, <1>5, <1>7, <2>1 DEF Before, Chain
  <2>7. \A i \in 1..Len(M) : page'[M[i]].next = IF i = Len(M) THEN NULL ELSE M[i + 1]
    <3> SUFFICES ASSUME NEW i \in 1..Len(M)
                 PROVE  page'[M[i]].next = IF i = Len(M) THEN NULL ELSE M[i + 1]
      OBVIOUS
    <3>1. page'[M[i]] = page[L[i + 1]] /\ i + 1 \in 1..Len(L)
      BY <2>1, <2>2, <2>4
    <3>2. page[L[i + 1]].next = IF i + 1 = Len(L) THEN NULL ELSE L[i + 2]
      BY <3>1 DEF Before, Chain
    <3>3. i # Len(M) => M[i + 1] = L[i + 2]
      BY <1>1, <2>1
    <3> QED BY <1>1, <2>1, <3>1, <3>2, <3>3
  <2>8. \A i \in 1..Len(M) : page'[M[i]].prev = L[i]
    BY <1>1, <2>1, <2>2, <2>4 DEF Before, Chain
  <2>9. \A i \in 2..Len(M) : page'[M[i]].prev = M[i - 1]
    BY <1>1, <2>1, <2>8
  <2>10. M # <<>> => page'[M[1]].prev = m
    BY <1>1, <1>3, <2>1, <2>8
  <2>11. \A p \in Page : (\E i \in 1..Len(M) : M[i] = p) <=> (p # m /\ \E i \in 1..Len(L) : L[i] = p)
    <3>1. ASSUME NEW i \in 1..Len(L), L[i] # m PROVE i - 1 \in 1..Len(M) /\ M[i - 1] = L[i]
      BY <1>1, <1>3, <2>1, <3>1
    <3> QED BY <2>1, <2>4, <3>1
  <2>12. \A p \in Page : (\E i \in 1..Len(M) : M[i] = p) <=> p \in mapped' /\ page'[p].inuse < Cpp
    BY <1>5, <2>2, <2>3, <2>11, CppPositive DEF Before, Chain
  <2>13. \A p \in mapped' : page'[p].inuse = Cpp => page'[p].next = NULL /\ page'[p].prev = NULL
    BY <1>2, <1>5, <2>2, <2>3 DEF Before, Chain
  <2>14. Chain(M)'
    BY <1>3, <1>5, <2>1, <2>3, <2>5, <2>6, <2>7, <2>9, <2>10, <2>12, <2>13 DEF Chain
  <2> QED BY <2>1, <2>14
<1> QED BY <1>6, <1>7

\* mempool_get maps a page when the list is empty; with one chunk per page it is full at once.
LEMMA LinkedGetMapped ==
  ASSUME NEW L, Before(L), NEW m \in Page, GetMapped(m)
  PROVE  \E M \in Seq(Page) : Chain(M)'
<1> DEFINE t == TakeChunk(ZeroPage)
<1>1. TypeOK /\ mapped \subseteq Page /\ page \in [Page -> Header] /\ NULL \notin Page
  BY NullNoPage DEF Before, Exact, TypeOK
<1>2. L = <<>>
  BY <1>1 DEF Before, Chain, GetMapped
<1>3. t.next = NULL /\ t.prev = NULL /\ t.inuse = 1
  BY DEF TakeChunk, ZeroPage
<1>4. /\ page' = [page EXCEPT ![m] = IF t.inuse = Cpp THEN [t EXCEPT !.next = NULL, !.prev = NULL] ELSE t]
      /\ pages' = IF t.inuse = Cpp THEN NULL ELSE m
      /\ mapped' = mapped \cup {m} /\ m \notin mapped
  BY DEF GetMapped, TakeFrom, ZeroPage
<1>5. page'[m].next = NULL /\ page'[m].prev = NULL /\ page'[m].inuse = 1
      /\ \A p \in Page \ {m} : page'[p] = page[p]
  BY <1>1, <1>4 DEF TakeChunk, ZeroPage
<1>6. \A p \in mapped : ~(page[p].inuse < Cpp) /\ (page[p].inuse = Cpp => page[p].next = NULL /\ page[p].prev = NULL)
  BY <1>1, <1>2 DEF Before, Chain
<1>7. CASE Cpp = 1
  <2>1. pages' = NULL
    BY <1>3, <1>4, <1>7
  <2>2. Chain(<<>>)'
    BY <1>1, <1>4, <1>5, <1>6, <1>7, <2>1 DEF Chain, Distinct
  <2> WITNESS <<>> \in Seq(Page)
  <2> QED BY <2>2
<1>8. CASE Cpp # 1
  <2>1. pages' = m /\ 1 < Cpp
    BY <1>3, <1>4, <1>8, CppPositive
  <2> DEFINE M == <<m>>
  <2>2. M \in Seq(Page) /\ Len(M) = 1 /\ M[1] = m /\ M # <<>>
    OBVIOUS
  <2> HIDE DEF M
  <2>3. Chain(M)'
    BY <1>1, <1>4, <1>5, <1>6, <2>1, <2>2 DEF Chain, Distinct
  <2> QED BY <2>2, <2>3
<1> QED BY <1>7, <1>8

\* mempool_free of the last chunk of a page takes the page out of the list.
LEMMA LinkedFreeLast ==
  ASSUME NEW L, Before(L), ~spoiled', NEW m \in Page, NEW c \in 0..Cpp - 1, FreeLast(m, c)
  PROVE  \E M \in Seq(Page) : Chain(M)'
<1> DEFINE n == page[m].next
           q == page[m].prev
<1>1. /\ \A i \in 1..Len(L) : L[i] \in Page /\ L[i] \in mapped /\ page[L[i]].inuse < Cpp
      /\ \A i, j \in 1..Len(L) : L[i] = L[j] => i = j
      /\ Len(L) \in Nat /\ (L = <<>> <=> Len(L) = 0)
  BY ChainFacts DEF Before
<1>2. TypeOK /\ mapped \subseteq Page /\ page \in [Page -> Header] /\ NULL \notin Page
  BY NullNoPage DEF Before, Exact, TypeOK
<1>3. m \in mapped /\ page[m].inuse = 1 /\ mapped' = mapped \ {m} /\ n \in Link /\ q \in Link
  <2>1. c \in Held(m)
    BY DEF FreeLast, Held
  <2>2. m \in mapped
    BY <2>1 DEF Before, Exact, PagesBooked
  <2> QED BY <1>2, <2>2 DEF FreeLast, Header
<1>4. /\ page' = [SetNext(SetPrev(page, n, q), q, n) EXCEPT ![m] = ZeroPage]
      /\ pages' = IF pages = m THEN n ELSE pages
      /\ q \in Listed \cup {NULL} \/ n = NULL
  BY DEF FreeLast, Unlinked
<1>5. Listed = {L[i] : i \in 1..Len(L)}
  BY ChainWalk DEF Before
<1> HIDE DEF n, q
<1>6. ASSUME NEW p \in Page, p # m
      PROVE  /\ page'[p].next = IF p = q THEN n ELSE page[p].next
             /\ page'[p].prev = IF p = n THEN q ELSE page[p].prev
             /\ page'[p].inuse = page[p].inuse
  <2> DEFINE P == SetPrev(page, n, q)
  <2>1. /\ P \in [Page -> Header]
        /\ P[p].next = page[p].next /\ P[p].inuse = page[p].inuse
        /\ P[p].prev = IF p = n THEN q ELSE page[p].prev
    BY <1>2, <1>3 DEF SetPrev, Header, Link
  <2> HIDE DEF P
  <2> DEFINE Q == SetNext(P, q, n)
  <2>2. /\ Q \in [Page -> Header]
        /\ Q[p].prev = P[p].prev /\ Q[p].inuse = P[p].inuse
        /\ Q[p].next = IF p = q THEN n ELSE P[p].next
    BY <2>1, <1>2, <1>3 DEF SetNext, Header, Link
  <2>3. page' = [Q EXCEPT ![m] = ZeroPage]
    BY <1>4 DEF P
  <2> HIDE DEF Q
  <2>4. page'[p] = Q[p]
    BY <1>6, <2>2, <2>3
  <2> QED BY <2>1, <2>2, <2>4
<1>7. CASE Cpp = 1
  <2>1. n = NULL /\ q = NULL
    BY <1>3, <1>7 DEF Before, Chain, n, q
  <2>2. \A i \in 1..Len(L) : L[i] # m
    BY <1>1, <1>3, <1>7
  <2>3. \A p \in Page \ {m} : page'[p].next = page[p].next /\ page'[p].prev = page[p].prev
                               /\ page'[p].inuse = page[p].inuse
    BY <1>2, <1>6, <2>1
  <2>4. L = <<>>
    <3>1. \A p \in mapped : page[p].inuse # 0
      BY MappedInUse DEF Before
    <3>2. \A p \in Page : page[p].inuse \in Nat
      BY <1>2 DEF Header
    <3> QED BY <1>1, <1>2, <1>7, <3>1, <3>2
  <2>5. pages' = NULL
    BY <1>2, <1>4, <2>4 DEF Before, Chain
  <2>6. \A p \in mapped' : ~(page'[p].inuse < Cpp) /\ page'[p].next = NULL /\ page'[p].prev = NULL
    BY <1>1, <1>2, <1>3, <1>7, <2>3, <2>4 DEF Before, Chain, Header
  <2>7. Chain(<<>>)'
    BY <1>2, <1>3, <2>5, <2>6 DEF Chain, Distinct
  <2> WITNESS <<>> \in Seq(Page)
  <2> QED BY <2>7
<1>8. CASE Cpp # 1
  <2>1. PICK k \in 1..Len(L) : L[k] = m
    BY <1>2, <1>3, <1>8, CppPositive DEF Before, Chain
  <2>2. n = IF k = Len(L) THEN NULL ELSE L[k + 1]
    BY <2>1 DEF Before, Chain, n
  <2>3. k # 1 => q = L[k - 1] /\ k - 1 \in 1..Len(L)
    BY <1>1, <2>1 DEF Before, Chain, q
  <2>4. k = 1 => q = NULL \/ (q \in mapped /\ page[q].inuse = Cpp)
    BY <1>1, <2>1 DEF Before, Chain, q
  <2>5. k = 1 => q = NULL \/ n = NULL
    <3>1. \A i \in 1..Len(L) : page[L[i]].inuse # Cpp
      BY <1>1, <1>2, CppPositive DEF Header
    <3> QED BY <1>4, <1>5, <2>4, <3>1
  <2>6. q \in Page => page[q].inuse = Cpp \/ \E i \in 1..Len(L) : L[i] = q
    BY <1>2, <2>3, <2>4
  <2>7. q # m /\ n # m
    BY <1>1, <1>2, <1>3, <1>8, <2>1, <2>2, <2>3, <2>4, CppPositive
  <2> DEFINE M == [i \in 1..Len(L) - 1 |-> IF i < k THEN L[i] ELSE L[i + 1]]
             At(i) == IF i < k THEN i ELSE i + 1
  <2>8. /\ M \in Seq(Page) /\ Len(M) = Len(L) - 1
        /\ \A i \in 1..Len(M) : At(i) \in 1..Len(L) /\ At(i) # k /\ M[i] = L[At(i)]
    BY <1>1, <2>1
  <2> HIDE DEF M
  <2>9. M = <<>> <=> Len(L) = 1
    <3>1. M = <<>> <=> Len(M) = 0
      BY <2>8
    <3> QED BY <1>1, <2>8, <3>1
  <2>10. \A i \in 1..Len(M) : M[i] # m /\ M[i] \in Page
    BY <1>1, <2>1, <2>8
  <2>11. Distinct(M)
    BY <1>1, <2>8 DEF Distinct
  <2>12. pages' = IF M = <<>> THEN NULL ELSE M[1]
    BY <1>1, <1>4, <2>1, <2>2, <2>8, <2>9 DEF Before, Chain
  <2>13. ASSUME NEW i \in 1..Len(M)
         PROVE  page'[M[i]].next = IF i = Len(M) THEN NULL ELSE M[i + 1]
    <3>1. page[L[At(i)]].next = IF At(i) = Len(L) THEN NULL ELSE L[At(i) + 1]
      BY <2>8 DEF Before, Chain
    <3>2. page'[M[i]].next = IF L[At(i)] = q THEN n ELSE page[L[At(i)]].next
      BY <1>6, <2>8, <2>10
    <3>3. L[At(i)] = q <=> i = k - 1
      BY <1>1, <1>2, <2>1, <2>3, <2>4, <2>8, CppPositive
    <3>4. CASE i = k - 1
      <4>1. i # Len(M) => M[i + 1] = L[k + 1]
        BY <1>1, <2>1, <2>8, <3>4
      <4> QED BY <1>1, <2>1, <2>2, <2>8, <3>2, <3>3, <3>4, <4>1
    <3>5. CASE i < k - 1
      <4>1. At(i) = i /\ M[i + 1] = L[i + 1] /\ i # Len(M) /\ i # Len(L)
        BY <1>1, <2>1, <2>8, <3>5
      <4> QED BY <3>1, <3>2, <3>3, <3>5, <4>1
    <3>6. CASE i >= k
      <4>1. At(i) = i + 1 /\ (i # Len(M) => M[i + 1] = L[i + 2])
        BY <1>1, <2>1, <2>8, <3>6
      <4> QED BY <1>1, <2>1, <2>8, <3>1, <3>2, <3>3, <3>6, <4>1
    <3> QED BY <2>1, <3>4, <3>5, <3>6
  <2>14. ASSUME NEW i \in 1..Len(M)
         PROVE  page'[M[i]].prev = IF i = k THEN q ELSE page[L[At(i)]].prev
    <3>1. L[At(i)] = n <=> i = k
      <4>1. CASE k = Len(L)
        BY <1>1, <1>2, <2>2, <2>8, <4>1
      <4>2. CASE k # Len(L)
        <5>1. k + 1 \in 1..Len(L) /\ n = L[k + 1]
          BY <1>1, <2>1, <2>2, <4>2
        <5>2. L[At(i)] = L[k + 1] <=> At(i) = k + 1
          BY <1>1, <2>8, <5>1
        <5>3. At(i) = k + 1 <=> i = k
          BY <2>1, <2>8
        <5> QED BY <5>1, <5>2, <5>3
      <4> QED BY <4>1, <4>2
    <3> QED BY <1>6, <2>8, <2>10, <3>1
  <2>15. ASSUME NEW i \in 2..Len(M)
         PROVE  page'[M[i]].prev = M[i - 1]
    <3>1. i \in 1..Len(M) /\ i - 1 \in 1..Len(M)
      BY <2>8, <1>1
    <3>2. At(i) # 1 => page[L[At(i)]].prev = L[At(i) - 1]
      BY <2>8, <3>1, <1>1 DEF Before, Chain
    <3>3. CASE i = k
      BY <1>1, <2>3, <2>8, <2>14, <3>1, <3>3
    <3>4. CASE i # k
      <4>1. page'[M[i]].prev = page[L[At(i)]].prev
        BY <2>14, <3>1, <3>4
      <4>2. At(i) # 1 /\ M[i - 1] = L[At(i - 1)]
        BY <2>8, <3>1
      <4>3. At(i - 1) = At(i) - 1
        BY <2>1, <3>1, <3>4
      <4> QED BY <3>2, <4>1, <4>2, <4>3
    <3> QED BY <3>3, <3>4
  <2>16. M # <<>> => \/ page'[M[1]].prev = NULL
                     \/ /\ page'[M[1]].prev \in mapped'
                        /\ page'[page'[M[1]].prev].inuse = Cpp
    <3> SUFFICES ASSUME M # <<>>
                 PROVE  \/ page'[M[1]].prev = NULL
                        \/ page'[M[1]].prev \in mapped' /\ page'[page'[M[1]].prev].inuse = Cpp
      OBVIOUS
    <3>1. 1 \in 1..Len(M)
      BY <1>1, <2>8, <2>9
    <3>2. CASE k = 1
      <4>1. k # Len(L) /\ k + 1 \in 1..Len(L)
        BY <1>1, <2>1, <2>8, <3>1, <3>2
      <4>2. n # NULL
        BY <1>1, <1>2, <2>2, <4>1
      <4>3. q = NULL
        BY <2>5, <3>2, <4>2
      <4> QED BY <2>14, <3>1, <3>2, <4>3
    <3>3. CASE k # 1
      <4>1. page'[M[1]].prev = page[L[1]].prev
        BY <2>1, <2>14, <3>1, <3>3
      <4>2. page[L[1]].prev # NULL => /\ page[L[1]].prev \in mapped
                                      /\ page[page[L[1]].prev].inuse = Cpp
        BY <1>1, <3>1, <2>8 DEF Before, Chain
      <4> QED BY <1>2, <1>3, <1>6, <1>8, <4>1, <4>2
    <3> QED BY <3>2, <3>3
  <2>17. ASSUME NEW p \in Page
         PROVE  (\E i \in 1..Len(M) : M[i] = p) <=> (p # m /\ \E i \in 1..Len(L) : L[i] = p)
    <3>1. ASSUME NEW i \in 1..Len(L), i # k PROVE \E j \in 1..Len(M) : M[j] = L[i]
      <4>1. CASE i < k
        BY <1>1, <2>1, <2>8, <4>1
      <4>2. CASE i > k
        <5>1. i - 1 \in 1..Len(M) /\ M[i - 1] = L[i]
          BY <1>1, <2>1, <2>8, <4>2
        <5> QED BY <5>1
      <4> QED BY <1>1, <2>1, <3>1, <4>1, <4>2
    <3> QED BY <2>1, <2>8, <2>10, <3>1
  <2>18. \A p \in Page : (\E i \in 1..Len(M) : M[i] = p) <=> p \in mapped' /\ page'[p].inuse < Cpp
    BY <1>3, <1>6, <2>17 DEF Before, Chain
  <2>19. \A p \in mapped' : page'[p].inuse = Cpp => page'[p].next = NULL /\ page'[p].prev = NULL
    <3> SUFFICES ASSUME NEW p \in mapped', page'[p].inuse = Cpp
                 PROVE  page'[p].next = NULL /\ page'[p].prev = NULL
      OBVIOUS
    <3>1. p \in Page /\ p # m /\ p \in mapped /\ page[p].inuse = Cpp
      BY <1>2, <1>3, <1>6
    <3>2. page[p].next = NULL /\ page[p].prev = NULL
      BY <3>1 DEF Before, Chain
    <3>3. \A i \in 1..Len(L) : L[i] # p
      BY <1>1, <3>1, CppPositive
    <3>4. p # n
      BY <1>1, <2>1, <2>2, <3>1, <3>3, <1>2
    <3>5. p = q => n = NULL
      BY <2>3, <2>5, <3>1, <3>3, <1>2
    <3> QED BY <1>6, <3>1, <3>2, <3>4, <3>5
  <2>20. Chain(M)'
    BY <2>8, <2>11, <2>12, <2>13, <2>15, <2>16, <2>18, <2>19 DEF Chain
  <2> QED BY <2>8, <2>20
<1> QED BY <1>7, <1>8

\* mempool_free of another chunk puts a page that was full at the head of the list.
LEMMA LinkedFreeOne ==
  ASSUME NEW L, Before(L), NEW m \in Page, NEW c \in 0..Cpp - 1, FreeOne(m, c)
  PROVE  \E M \in Seq(Page) : Chain(M)'
<1> DEFINE h == FreedChunk(page[m], c)
<1>1. /\ \A i \in 1..Len(L) : L[i] \in Page /\ L[i] \in mapped /\ page[L[i]].inuse < Cpp
      /\ \A i, j \in 1..Len(L) : L[i] = L[j] => i = j
      /\ Len(L) \in Nat /\ (L = <<>> <=> Len(L) = 0)
  BY ChainFacts DEF Before
<1>2. TypeOK /\ mapped \subseteq Page /\ page \in [Page -> Header] /\ NULL \notin Page
  BY NullNoPage DEF Before, Exact, TypeOK
<1>3. m \in mapped /\ mapped' = mapped
  <2>1. c \in Held(m)
    BY DEF FreeOne, Held
  <2> QED BY <2>1 DEF Before, Exact, PagesBooked, FreeOne
<1>4. page[m].inuse \in 1..Cpp /\ h.inuse = page[m].inuse - 1
      /\ h.next = page[m].next /\ h.prev = page[m].prev
      /\ \A v \in Link : LET g == [h EXCEPT !.next = v]
                          IN  g.next = v /\ g.prev = h.prev /\ g.inuse = h.inuse
  <2>1. page[m].inuse \in 1..Cpp
    BY <1>3, MappedInUse DEF Before
  <2> QED BY <1>2, <2>1 DEF FreedChunk, Header
<1>5. /\ OffList(page[m], m) =>
           /\ page' = [SetPrev(page, pages, m) EXCEPT ![m] = [h EXCEPT !.next = pages]]
           /\ pages' = m
      /\ ~OffList(page[m], m) => page' = [page EXCEPT ![m] = h] /\ pages' = pages
  BY DEF FreeOne
<1> HIDE DEF h
<1>6. CASE page[m].inuse < Cpp
  <2>1. PICK k \in 1..Len(L) : L[k] = m
    BY <1>3, <1>6 DEF Before, Chain
  <2>2. ~OffList(page[m], m)
    <3>1. CASE k = 1
      BY <1>1, <2>1, <3>1 DEF OffList, Before, Chain
    <3>2. CASE k # 1
      <4>1. page[m].prev = L[k - 1] /\ k - 1 \in 1..Len(L)
        BY <1>1, <2>1, <3>2 DEF Before, Chain
      <4> QED BY <1>1, <1>2, <4>1 DEF OffList
    <3> QED BY <3>1, <3>2
  <2>3. page'[m] = h /\ (\A p \in Page \ {m} : page'[p] = page[p]) /\ pages' = pages
    BY <1>2, <1>5, <2>2
  <2>4. \A p \in Page : page'[p].next = page[p].next /\ page'[p].prev = page[p].prev
    BY <1>4, <2>3
  <2>5. \A p \in Page : (page'[p].inuse < Cpp <=> page[p].inuse < Cpp)
                        /\ (page'[p].inuse = Cpp <=> page[p].inuse = Cpp)
    BY <1>4, <1>6, <2>3, CppPositive
  <2>6. Chain(L)'
    BY <1>3, <2>3, <2>4, <2>5, SameChain DEF Before
  <2> QED BY <2>6 DEF Before
<1>7. CASE page[m].inuse = Cpp
  <2>1. \A i \in 1..Len(L) : L[i] # m
    BY <1>1, <1>7, CppPositive
  <2>2. page[m].next = NULL /\ page[m].prev = NULL
    BY <1>3, <1>7 DEF Before, Chain
  <2>3. OffList(page[m], m) /\ pages \in Link
    <3>1. L # <<>> => pages = L[1] /\ 1 \in 1..Len(L)
      BY <1>1 DEF Before, Chain
    <3>2. L = <<>> => pages = NULL
      BY DEF Before, Chain
    <3> QED BY <1>1, <1>2, <2>1, <2>2, <3>1, <3>2 DEF OffList, Link
  <2>4. /\ page'[m].next = pages /\ page'[m].prev = NULL /\ page'[m].inuse = Cpp - 1
        /\ pages' = m
    <3>1. SetPrev(page, pages, m) \in [Page -> Header]
      BY <1>2, <2>3 DEF SetPrev, Header, Link
    <3>2. page'[m] = [h EXCEPT !.next = pages]
      BY <1>5, <2>3, <3>1
    <3> QED BY <1>4, <1>5, <1>7, <2>2, <2>3, <3>2
  <2>5. ASSUME NEW p \in Page \ {m}
        PROVE  /\ page'[p].next = page[p].next /\ page'[p].inuse = page[p].inuse
               /\ page'[p].prev = IF p = pages THEN m ELSE page[p].prev
    <3> DEFINE P == SetPrev(page, pages, m)
    <3>1. P \in [Page -> Header]
          /\ P[p].next = page[p].next /\ P[p].inuse = page[p].inuse
          /\ P[p].prev = IF p = pages THEN m ELSE page[p].prev
      BY <1>2, <2>3 DEF SetPrev, Header, Link
    <3>2. page' = [P EXCEPT ![m] = [h EXCEPT !.next = pages]]
      BY <1>5, <2>3
    <3> HIDE DEF P
    <3>3. page'[p] = P[p]
      BY <3>1, <3>2
    <3> QED BY <3>1, <3>3
  <2> DEFINE M == <<m>> \o L
  <2>6. /\ M \in Seq(Page) /\ Len(M) = Len(L) + 1 /\ M[1] = m /\ M # <<>>
        /\ \A i \in 2..Len(M) : M[i] = L[i - 1] /\ i - 1 \in 1..Len(L)
    <3>1. L \in Seq(Page) /\ Len(L) \in Nat
      BY <1>1 DEF Before
    <3>2. M \in Seq(Page) /\ Len(M) = Len(L) + 1 /\ M[1] = m
          /\ \A i \in 2..Len(M) : M[i] = L[i - 1]
      BY <3>1
    <3> HIDE DEF M
    <3>3. M # <<>>
      BY <3>1, <3>2
    <3>4. \A i \in 2..Len(M) : i - 1 \in 1..Len(L)
      BY <3>1, <3>2
    <3> QED BY <3>2, <3>3, <3>4
  <2> HIDE DEF M
  <2>7. Distinct(M)
    <3> SUFFICES ASSUME NEW i \in 1..Len(M), NEW j \in 1..Len(M), M[i] = M[j] PROVE i = j
      BY DEF Distinct
    <3>1. CASE i # 1 /\ j # 1
      <4>1. i \in 2..Len(M) /\ j \in 2..Len(M)
        BY <1>1, <2>6, <3>1
      <4>2. L[i - 1] = L[j - 1] /\ i - 1 \in 1..Len(L) /\ j - 1 \in 1..Len(L)
        BY <2>6, <4>1
      <4>3. i - 1 = j - 1
        BY <1>1, <4>2
      <4> QED BY <4>3
    <3>2. CASE i = 1 \/ j = 1
      BY <1>1, <2>1, <2>6, <3>2
    <3> QED BY <3>1, <3>2
  <2>8. ASSUME NEW i \in 1..Len(M)
        PROVE  page'[M[i]].next = IF i = Len(M) THEN NULL ELSE M[i + 1]
    <3>1. CASE i = 1
      <4>1. Len(L) = 0 => pages = NULL
        BY <1>1 DEF Before, Chain
      <4>2. Len(L) # 0 => pages = L[1] /\ M[2] = L[1]
        BY <1>1, <2>6 DEF Before, Chain
      <4> QED BY <1>1, <2>4, <2>6, <3>1, <4>1, <4>2
    <3>2. CASE i # 1
      <4>1. M[i] = L[i - 1] /\ i - 1 \in 1..Len(L) /\ M[i] \in Page \ {m}
        BY <1>1, <2>1, <2>6, <3>2
      <4>2. page[L[i - 1]].next = IF i - 1 = Len(L) THEN NULL ELSE L[i]
        BY <4>1 DEF Before, Chain
      <4>3. i # Len(M) => M[i + 1] = L[i]
        BY <1>1, <2>6, <3>2
      <4> QED BY <1>1, <2>5, <2>6, <4>1, <4>2, <4>3
    <3> QED BY <3>1, <3>2
  <2>9. ASSUME NEW i \in 2..Len(M)
        PROVE  page'[M[i]].prev = M[i - 1]
    <3>1. M[i] = L[i - 1] /\ i - 1 \in 1..Len(L) /\ M[i] \in Page \ {m} /\ L # <<>>
      BY <1>1, <2>1, <2>6
    <3>2. pages = L[1] /\ 1 \in 1..Len(L)
      BY <1>1, <3>1 DEF Before, Chain
    <3>3. M[i] = pages <=> i = 2
      BY <1>1, <3>1, <3>2
    <3>4. CASE i = 2
      BY <2>5, <2>6, <3>1, <3>3, <3>4
    <3>5. CASE i # 2
      <4>1. page[L[i - 1]].prev = L[i - 2] /\ M[i - 1] = L[i - 2]
        <5>1. i - 1 \in 2..Len(L) /\ i - 1 \in 2..Len(M) /\ (i - 1) - 1 = i - 2
          BY <1>1, <2>6, <3>1, <3>5
        <5> QED BY <2>6, <5>1 DEF Before, Chain
      <4> QED BY <2>5, <3>1, <3>3, <3>5, <4>1
    <3> QED BY <3>4, <3>5
  <2>10. ASSUME NEW p \in Page
         PROVE  (\E i \in 1..Len(M) : M[i] = p) <=> (p = m \/ \E i \in 1..Len(L) : L[i] = p)
    <3>1. ASSUME NEW i \in 1..Len(L) PROVE i + 1 \in 1..Len(M) /\ M[i + 1] = L[i]
      BY <1>1, <2>6
    <3>2. 1 \in 1..Len(M)
      BY <1>1, <2>6
    <3>3. ASSUME NEW i \in 1..Len(M), M[i] = p, p # m PROVE \E j \in 1..Len(L) : L[j] = p
      BY <1>1, <2>6, <3>3
    <3> QED BY <2>6, <3>1, <3>2, <3>3
  <2>11. \A p \in Page : (\E i \in 1..Len(M) : M[i] = p) <=> p \in mapped' /\ page'[p].inuse < Cpp
    <3> SUFFICES ASSUME NEW p \in Page
                 PROVE  (\E i \in 1..Len(M) : M[i] = p) <=> p \in mapped' /\ page'[p].inuse < Cpp
      OBVIOUS
    <3>1. CASE p = m
      BY <1>3, <2>4, <2>10, <3>1, CppPositive
    <3>2. CASE p # m
      BY <1>3, <2>5, <2>10, <3>2 DEF Before, Chain
    <3> QED BY <3>1, <3>2
  <2>12. \A p \in mapped' : page'[p].inuse = Cpp => page'[p].next = NULL /\ page'[p].prev = NULL
    <3> SUFFICES ASSUME NEW p \in mapped', page'[p].inuse = Cpp
                 PROVE  page'[p].next = NULL /\ page'[p].prev = NULL
      OBVIOUS
    <3>1. p \in Page \ {m} /\ p \in mapped /\ page[p].inuse = Cpp
      BY <1>2, <1>3, <2>4, <2>5, CppPositive
    <3>2. p # pages
      <4>1. L # <<>> => pages = L[1] /\ 1 \in 1..Len(L)
        BY <1>1 DEF Before, Chain
      <4>2. L = <<>> => pages = NULL
        BY DEF Before, Chain
      <4> QED BY <1>1, <1>2, <3>1, <4>1, <4>2, CppPositive
    <3> QED BY <2>5, <3>1, <3>2 DEF Before, Chain
  <2>13. Chain(M)'
    BY <2>4, <2>6, <2>7, <2>8, <2>9, <2>11, <2>12 DEF Chain
  <2> QED BY <2>6, <2>13
<1> QED BY <1>4, <1>6, <1>7, CppPositive

\* Every step keeps the list until one spoils it, and none faults before that.
LEMMA LinkedStep ==
  ASSUME Exact, Linked, [Next]_vars
  PROVE  Linked'
<1>1. CASE UNCHANGED vars
  BY <1>1 DEF vars, Linked, Chain
<1>2. CASE Next
  <2> SUFFICES ASSUME ~spoiled' PROVE fault' \notin {"stale", "beyond"} /\ \E M \in Seq(Page) : Chain(M)'
    BY DEF Linked
  <2>1. ~spoiled /\ fault = "none"
    <3>1. fault = "none"
      BY <1>2 DEF Next
    <3>2. spoiled \in BOOLEAN /\ (spoiled => spoiled')
      BY <1>2 DEF Exact, TypeOK, Next, GetListed, GetFaults, MmapFails, GetMapped, FreeLast,
         FreeOne, FreeFaults, Faults
    <3> QED BY <3>1, <3>2
  <2>2. PICK L \in Seq(Page) : Chain(L)
    BY <2>1 DEF Linked
  <2>3. Before(L)
    BY <2>1, <2>2 DEF Before
  <2>4. CASE GetListed
    BY <2>1, <2>3, <2>4, LinkedGetListed DEF GetListed
  <2>5. ASSUME NEW p \in Page, GetMapped(p)
        PROVE  fault' \notin {"stale", "beyond"} /\ \E M \in Seq(Page) : Chain(M)'
    BY <2>1, <2>3, <2>5, LinkedGetMapped DEF GetMapped
  <2>6. ASSUME NEW m \in Page, NEW i \in 0..Cpp - 1, FreeLast(m, i)
        PROVE  fault' \notin {"stale", "beyond"} /\ \E M \in Seq(Page) : Chain(M)'
    BY <2>1, <2>3, <2>6, LinkedFreeLast DEF FreeLast
  <2>7. ASSUME NEW m \in Page, NEW i \in 0..Cpp - 1, FreeOne(m, i)
        PROVE  fault' \notin {"stale", "beyond"} /\ \E M \in Seq(Page) : Chain(M)'
    BY <2>1, <2>3, <2>7, LinkedFreeOne DEF FreeOne
  <2>8. CASE MmapFails
    <3>1. fault' = "mmap" /\ UNCHANGED <<pages, mapped, page>>
      BY <2>8 DEF MmapFails, Faults
    <3>2. Chain(L)'
      BY <2>2, <3>1 DEF Chain
    <3> QED BY <3>1, <3>2
  <2>9. /\ \A i \in 1..Len(L) : L[i] \in Page /\ L[i] \in mapped /\ page[L[i]].inuse < Cpp
        /\ Len(L) \in Nat /\ (L = <<>> <=> Len(L) = 0)
    BY <2>2, ChainFacts
  <2>10. pages \in mapped \cup {NULL} /\ (pages \in mapped => pages \in Page /\ page[pages].inuse < Cpp)
    <3>1. L # <<>> => pages = L[1] /\ 1 \in 1..Len(L)
      BY <2>2, <2>9 DEF Chain
    <3>2. L = <<>> => pages = NULL
      BY <2>2 DEF Chain
    <3> QED BY <2>9, <3>1, <3>2, NullNoPage DEF Exact, TypeOK
  <2>11. ~GetFaults
    <3>1. ASSUME pages \in mapped PROVE ChunkOf(page[pages]) < Cpp
      <4>1. page[pages] \in Header /\ Book(page[pages], Held(pages)) /\ page[pages].inuse < Cpp
        BY <2>10, <3>1 DEF Exact, TypeOK, PagesBooked
      <4>2. Held(pages) \subseteq 0..Cpp - 1
        BY DEF Held
      <4> QED BY <4>1, <4>2, Room
    <3>2. ASSUME pages \in mapped PROVE ~(ChunkOf(page[pages]) >= Cpp)
      <4>1. ChunkOf(page[pages]) \in Int
        <5>1. page[pages] \in Header
          BY <2>10, <3>2 DEF Exact, TypeOK
        <5>2. page[pages].free \in Seq(0..Cpp - 1) /\ page[pages].used \in 0..Cpp
          BY <5>1 DEF Header
        <5>3. page[pages].free # <<>> => Head(page[pages].free) \in 0..Cpp - 1
          BY <5>2, HeadTailProperties
        <5> QED BY <5>2, <5>3 DEF ChunkOf
      <4> QED BY <3>1, <3>2, <4>1, CppPositive
    <3> QED BY <2>10, <3>2 DEF GetFaults
  <2>12. ASSUME NEW m \in Page, NEW i \in 0..Cpp - 1, FreeFaults(m, i) PROVE FALSE
    <3>1. m \in mapped
      BY <2>12 DEF FreeFaults, Exact, PagesBooked, Held
    <3>2. Neighbours(m) \subseteq mapped
      <4>1. page[m].inuse \in 1..Cpp
        BY <3>1, MappedInUse
      <4>2. CASE page[m].inuse = Cpp
        BY <2>2, <3>1, <4>2 DEF Chain, Neighbours
      <4>3. CASE page[m].inuse # Cpp
        <5>1. PICK k \in 1..Len(L) : L[k] = m
          BY <2>2, <3>1, <4>1, <4>3, CppPositive DEF Chain
        <5>2. page[m].next = IF k = Len(L) THEN NULL ELSE L[k + 1]
          BY <2>2, <5>1 DEF Chain
        <5>3. page[m].next \in mapped \cup {NULL}
          BY <2>9, <5>1, <5>2
        <5>4. CASE k = 1
          BY <2>2, <2>9, <5>1, <5>3, <5>4 DEF Chain, Neighbours
        <5>5. CASE k # 1
          <6>1. page[m].prev = L[k - 1] /\ k - 1 \in 1..Len(L)
            BY <2>2, <2>9, <5>1, <5>5 DEF Chain
          <6> QED BY <2>9, <5>3, <6>1 DEF Neighbours
        <5> QED BY <5>4, <5>5
      <4> QED BY <4>2, <4>3
    <3> QED BY <2>10, <2>12, <3>2 DEF FreeFaults
  <2> QED BY <1>2, <2>4, <2>5, <2>6, <2>7, <2>8, <2>11, <2>12 DEF Next
<1> QED BY <1>1, <1>2

\* An empty pool has an empty list.
LEMMA LinkedInit == Init => Linked
<1> SUFFICES ASSUME Init PROVE \E L \in Seq(Page) : Chain(L)
  BY DEF Init, Linked
<1>1. Chain(<<>>)
  BY DEF Init, Chain, Distinct
<1> WITNESS <<>> \in Seq(Page)
<1> QED BY <1>1

\* The two invariants say what PoolSound says.
LEMMA LinkedSuffices == Exact /\ Linked => PoolSound
<1> SUFFICES ASSUME Exact, Linked, ~spoiled
             PROVE  /\ LinksSound
                    /\ \A p \in mapped : page[p].inuse < Cpp => p \in Listed
                    /\ fault \notin {"stale", "beyond"}
  BY DEF PoolSound
<1>1. PICK L \in Seq(Page) : Chain(L)
  BY DEF Linked
<1>2. Listed = {L[i] : i \in 1..Len(L)}
  BY <1>1, ChainWalk
<1>3. /\ \A i \in 1..Len(L) : L[i] \in Page /\ L[i] \in mapped /\ page[L[i]].inuse < Cpp
      /\ Len(L) \in Nat /\ (L = <<>> <=> Len(L) = 0)
  BY <1>1, ChainFacts
<1>4. \A p \in Listed : page[p].inuse \in 1..Cpp - 1
  <2>1. \A p \in mapped : page[p].inuse \in 1..Cpp
    BY MappedInUse
  <2> QED BY <1>2, <1>3, <2>1, CppPositive
<1>5. ASSUME NEW p \in Listed, page[p].next # NULL PROVE page[page[p].next].prev = p
  <2>1. PICK i \in 1..Len(L) : L[i] = p
    BY <1>2
  <2>2. page[p].next = L[i + 1] /\ i + 1 \in 2..Len(L)
    BY <1>1, <1>3, <1>5, <2>1 DEF Chain
  <2> QED BY <1>1, <1>3, <2>1, <2>2 DEF Chain
<1>6. pages # NULL /\ page[pages].prev # NULL => page[page[pages].prev].inuse = Cpp
  BY <1>1 DEF Chain
<1>7. \A p \in mapped : page[p].inuse < Cpp => p \in Listed
  BY <1>1, <1>2 DEF Chain, Exact, TypeOK
<1> QED BY <1>4, <1>5, <1>6, <1>7 DEF LinksSound, Linked

\* Until mempool_free writes a next into a page that is off the list, the list holds exactly
\* the pages with room and no operation touches memory that is not mapped.
THEOREM ListSound == Spec => []PoolSound
BY Invariance, LinkedInit, LinkedStep, LinkedSuffices, PTL DEF Spec
=============================================================================
