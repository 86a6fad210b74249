------------------------------ MODULE ListCount ------------------------------
(***************************************************************************)
(* list_items of 3w3_list.c, called while other threads use the list.  It  *)
(* takes no lock: it reads list->items and list->deleted, in the order the *)
(* compiler chose, and critical sections of other threads run between the  *)
(* two reads.  A read inside a critical section shows nothing else: of the *)
(* two decrements of list_unlink the one of deleted comes first, and who   *)
(* reads both counters between them gets what he gets by reading items     *)
(* before the critical section and deleted after it.  The others write one *)
(* counter once: list_remove unlinks nothing, its caller stands on the     *)
(* node (RefcountExact).                                                   *)
(***************************************************************************)
EXTENDS List

CONSTANT ULongMax   \* the greatest unsigned long

ASSUME ULongMaxNat == ULongMax \in Nat

VARIABLES
  first,     \* the counter that the running call has read, or NULL
  seen,      \* what it read there
  changes,   \* history: critical sections since then that changed a counter
  surplus    \* history: list_remove calls on nodes that were removed before

countVars == <<first, seen, changes, surplus>>

Counter == {"items", "deleted"}

CountInit ==
  /\ Init
  /\ first = NULL
  /\ seen = 0
  /\ changes = 0
  /\ surplus = 0

\* The list has not been destroyed, and is not about to be.
Usable == alive /\ \A t \in Thread : pc[t] # "destroy"

\* The first read of list_items, of one counter or the other.
ReadFirst(c) ==
  /\ first = NULL
  /\ Usable
  /\ first' = c
  /\ seen' = IF c = "items" THEN items ELSE deleted
  /\ UNCHANGED <<vars, changes, surplus>>

\* What list_items computes after the second read: an unsigned long.
list_items ==
  (IF first = "items" THEN seen - deleted ELSE items - seen) % (ULongMax + 1)

\* The second read; the call returns list_items.
ReadSecond ==
  /\ first # NULL
  /\ first' = NULL
  /\ seen' = 0
  /\ changes' = 0
  /\ UNCHANGED <<vars, surplus>>

\* A node is removed once more.
RemovedAgain == \E n \in heap : removed[n] # 0 /\ removed'[n] > removed[n]

\* A step of a thread that uses the list.  Who destroys it is its only user.
Uses ==
  /\ Next
  /\ first # NULL => \A t \in Thread : pc'[t] # "destroy"
  /\ changes' = IF first # NULL /\ (items' # items \/ deleted' # deleted)
                THEN changes + 1 ELSE changes
  /\ surplus' = IF RemovedAgain THEN surplus + 1 ELSE surplus
  /\ UNCHANGED <<first, seen>>

CountNext == Uses \/ (\E c \in Counter : ReadFirst(c)) \/ ReadSecond

CountSpec == CountInit /\ [][CountNext]_<<vars, countVars>>

\* As in List; nobody has to call list_items.
CountFairSpec == CountSpec /\ \A t \in Thread : WF_vars(Step(t))

-----------------------------------------------------------------------------
(* Properties *)

\* list_items returns a number that is wrong by no more than the critical sections that
\* changed a counter between its two reads, and by one for each time that a node was ever
\* removed once more: two threads that remove one node raise list->deleted twice, and
\* list_unlink lowers it once.  Without either it is the number of live nodes; below zero
\* it wraps around.
ListItemsNear ==
  [][ReadSecond =>
       \E k \in (-changes)..changes :
         list_items = (Cardinality(Live) - surplus + k) % (ULongMax + 1)]_<<vars, countVars>>

\* Each datum is removed by one thread only, the use the server makes of its
\* lists (no list_pop or list_shift, and list_delete_data on one's own data).
Owned ==
  \A c, e \in Calls :
    /\ c[2] \notin Takes
    /\ c[2] = "list_delete_data" /\ e[2] = "list_delete_data" /\ c[3] = e[3] => c[1] = e[1]

\* Where each datum is removed by one thread, no node is removed more than once.
RemovedOnce == Owned => surplus = 0
=============================================================================
