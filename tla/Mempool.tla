------------------------------ MODULE Mempool ------------------------------
(***************************************************************************)
(* The memory pool of 3w3_mpool.c: chunks of one size, Cpp of them on a    *)
(* page.  mp->pages heads a doubly linked list of the pages that are       *)
(* neither full nor empty; a full page leaves it, an empty one is unmapped.*)
(*                                                                         *)
(* mempool_get and mempool_free run as a whole under mp->lock (or, in the  *)
(* hash table, under the table's lock), so each is one step.               *)
(***************************************************************************)
EXTENDS Integers, Sequences, FiniteSets, SequencesExt

CONSTANTS
  Page,   \* the page addresses mmap can return
  Cpp,    \* mp->cpp: chunks per page
  NULL

ASSUME CppPositive == Cpp \in Nat \ {0}
ASSUME PagesFinite == IsFiniteSet(Page)
ASSUME NullNoPage  == NULL \notin Page

VARIABLES
  pages,    \* mp->pages
  mapped,   \* the pages that are mapped
  page,     \* their headers (mempool_page_t)
  holders,  \* how many callers hold each chunk
  fault,    \* why memory outside the mapped pages was accessed; the model ends there
  spoiled   \* history: a page that is not on the list was given a next

vars == <<pages, mapped, page, holders, fault, spoiled>>

Chunk == Page \X (0..Cpp - 1)

Link == Page \cup {NULL}

Header == [next : Link, prev : Link, used : 0..Cpp, inuse : 0..Cpp, free : Seq(0..Cpp - 1)]

\* A mapped page is zero-filled.
ZeroPage == [next |-> NULL, prev |-> NULL, used |-> 0, inuse |-> 0, free |-> <<>>]

\* Every field has its type: no page hands out more than Cpp chunks or a chunk that
\* is not on it.
TypeOK ==
  /\ pages \in Link
  /\ mapped \in SUBSET Page
  /\ page \in [Page -> Header]
  /\ holders \in [Chunk -> Nat]
  /\ fault \in {"none", "mmap", "stale", "beyond"}
  /\ spoiled \in BOOLEAN

\* mempool_new
Init ==
  /\ pages = NULL
  /\ mapped = {}
  /\ page = [p \in Page |-> ZeroPage]
  /\ holders = [c \in Chunk |-> 0]
  /\ fault = "none"
  /\ spoiled = FALSE

\* The pages on the list, found along next.
Walk[i \in Nat] ==
  IF i = 0 THEN pages
  ELSE IF Walk[i - 1] = NULL THEN NULL ELSE page[Walk[i - 1]].next

Listed == {Walk[i] : i \in 0..Cardinality(Page)} \ {NULL}

-----------------------------------------------------------------------------
(* mempool_get *)

\* The chunk taken from a page with header h: a freed one before an untouched one.
ChunkOf(h) == IF h.free # <<>> THEN Head(h.free) ELSE h.used

\* Mutant: the free list keeps the chunk that is handed out.
TakeChunk_KeepsFree(h) ==
  [h EXCEPT !.inuse = @ + 1, !.used = IF h.free = <<>> THEN @ + 1 ELSE @]

TakeChunk(h) ==
  IF h.free # <<>>
  THEN [h EXCEPT !.free = Tail(@), !.inuse = @ + 1]
  ELSE [h EXCEPT !.used = @ + 1, !.inuse = @ + 1]

\* Mutant: a full page stays at the head.
TakeFrom_StaysListed(m, h) ==
  /\ page' = [page EXCEPT ![m] = TakeChunk(h)]
  /\ pages' = m
  /\ holders' = [holders EXCEPT ![<<m, ChunkOf(h)>>] = @ + 1]

\* Take a chunk from the head page m; when it is full then, it leaves the list.  The
\* page behind it keeps its prev.
TakeFrom(m, h) ==
  LET taken == TakeChunk(h)
      full  == taken.inuse = Cpp
  IN  /\ page' = [page EXCEPT ![m] =
                    IF full THEN [taken EXCEPT !.next = NULL, !.prev = NULL] ELSE taken]
      /\ pages' = IF full THEN h.next ELSE m
      /\ holders' = [holders EXCEPT ![<<m, ChunkOf(h)>>] = @ + 1]

\* mempool_get with a page on the list.
GetListed ==
  /\ pages \in mapped
  /\ ChunkOf(page[pages]) < Cpp
  /\ TakeFrom(pages, page[pages])
  /\ UNCHANGED <<mapped, fault, spoiled>>

\* mempool_get with no page on the list: mmap supplies one.
GetMapped(p) ==
  /\ pages = NULL
  /\ p \notin mapped
  /\ mapped' = mapped \cup {p}
  /\ TakeFrom(p, ZeroPage)
  /\ UNCHANGED <<fault, spoiled>>

Faults(why) == fault' = why /\ UNCHANGED <<pages, mapped, page, holders, spoiled>>

\* mmap fails, and what it returns is used as a page.
MmapFails == pages = NULL /\ Faults("mmap")

\* The list leads to a page that is no longer mapped, or to one that is full: the
\* chunk lies behind its end.
GetFaults ==
  \/ pages \notin mapped \cup {NULL} /\ Faults("stale")
  \/ pages \in mapped /\ ChunkOf(page[pages]) >= Cpp /\ Faults("beyond")

-----------------------------------------------------------------------------
(* mempool_free *)

\* Headers P after "if(q) q->field = v".
SetNext(P, q, v) == IF q = NULL THEN P ELSE [P EXCEPT ![q].next = v]
SetPrev(P, q, v) == IF q = NULL THEN P ELSE [P EXCEPT ![q].prev = v]

Unlinked(m) ==
  SetNext(SetPrev(page, page[m].next, page[m].prev), page[m].prev, page[m].next)

\* The neighbours whose headers are written when m is unlinked.
Neighbours(m) == {page[m].next, page[m].prev} \ {NULL}

\* Mutant: the page is taken off the list but not unmapped.
FreeLast_StaysMapped(m, i) ==
  /\ holders[<<m, i>>] > 0
  /\ page[m].inuse = 1
  /\ Neighbours(m) \subseteq mapped
  /\ pages' = IF pages = m THEN page[m].next ELSE pages
  /\ page' = [Unlinked(m) EXCEPT ![m] = ZeroPage]
  /\ holders' = [holders EXCEPT ![<<m, i>>] = @ - 1]
  /\ UNCHANGED <<mapped, fault, spoiled>>

\* The last chunk of its page: the page is unlinked and unmapped.
FreeLast(m, i) ==
  /\ holders[<<m, i>>] > 0
  /\ page[m].inuse = 1
  /\ Neighbours(m) \subseteq mapped
  /\ pages' = IF pages = m THEN page[m].next ELSE pages
  /\ page' = [Unlinked(m) EXCEPT ![m] = ZeroPage]
  /\ mapped' = mapped \ {m}
  /\ holders' = [holders EXCEPT ![<<m, i>>] = @ - 1]
  /\ spoiled' = (spoiled \/ (page[m].prev \notin Listed \cup {NULL} /\ page[m].next # NULL))
  /\ UNCHANGED fault

\* The test for a page that has left the list: it has no links and is not its head.
OffList(h, m) == h.next = NULL /\ h.prev = NULL /\ pages # m

FreedChunk(h, i) == [h EXCEPT !.inuse = @ - 1, !.free = <<i>> \o @]

\* Another chunk: it goes to the free list of its page, and a page that was full to
\* the head of the list.
FreeOne(m, i) ==
  LET h == FreedChunk(page[m], i)
  IN  /\ holders[<<m, i>>] > 0
      /\ page[m].inuse > 1
      /\ holders' = [holders EXCEPT ![<<m, i>>] = @ - 1]
      /\ IF OffList(page[m], m)
         THEN /\ pages \in mapped \cup {NULL}
              /\ page' = [SetPrev(page, pages, m) EXCEPT ![m] = [h EXCEPT !.next = pages]]
              /\ pages' = m
         ELSE /\ page' = [page EXCEPT ![m] = h]
              /\ UNCHANGED pages
      /\ UNCHANGED <<mapped, fault, spoiled>>

\* A header that is to be written is no longer mapped.
FreeFaults(m, i) ==
  /\ holders[<<m, i>>] > 0
  /\ IF page[m].inuse = 1
     THEN ~(Neighbours(m) \subseteq mapped)
     ELSE OffList(page[m], m) /\ pages \notin mapped \cup {NULL}
  /\ Faults("stale")

-----------------------------------------------------------------------------
Next ==
  /\ fault = "none"
  /\ \/ GetListed \/ GetFaults \/ MmapFails
     \/ \E p \in Page : GetMapped(p)
     \/ \E m \in Page, i \in 0..Cpp - 1 : FreeLast(m, i) \/ FreeOne(m, i) \/ FreeFaults(m, i)

Spec == Init /\ [][Next]_vars

-----------------------------------------------------------------------------
(* Properties *)

\* The pool's bookkeeping is exact, whatever happened to the list: a page's inuse is
\* the number of its chunks that callers hold, it is mapped exactly while that is not
\* 0, and a chunk is held, free or beyond used, never two of them.
ChunksExact ==
  /\ TypeOK
  /\ \A p \in Page :
       LET held == {i \in 0..Cpp - 1 : holders[<<p, i>>] > 0}
       IN  /\ page[p].inuse = Cardinality(held)
           /\ p \in mapped <=> held # {}
           /\ held \cap ToSet(page[p].free) = {}
           /\ held \cup ToSet(page[p].free) = IF p \in mapped THEN 0..page[p].used - 1 ELSE {}

\* mempool_get hands out only chunks that nobody holds.
Pool == INSTANCE ChunkPool

Exclusive == Pool!Spec

\* The list leads to mapped pages with room and the prev pointers are right, but for the
\* head's: that may be left over from a page that filled up and is still full.
LinksSound ==
  /\ \A p \in Listed : page[p].inuse \in 1..Cpp - 1
  /\ \A p \in Listed : page[p].next # NULL => page[page[p].next].prev = p
  /\ pages # NULL /\ page[pages].prev # NULL => page[page[pages].prev].inuse = Cpp

\* Until a page off the list is given a next, the list is sound, every page with room is
\* on it (no page is mapped while there is room), and no operation touches memory outside
\* the mapped pages.
PoolSound ==
  ~spoiled =>
    /\ LinksSound
    /\ \A p \in mapped : page[p].inuse < Cpp => p \in Listed
    /\ fault \notin {"stale", "beyond"}
=============================================================================
