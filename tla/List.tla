-------------------------------- MODULE List --------------------------------
(***************************************************************************)
(* The reference-counted doubly linked list of 3w3_list.c, as the threads  *)
(* of the server use it.                                                   *)
(*                                                                         *)
(* A node counts in rc its references and in ic the cursors that stand on  *)
(* it.  list_remove only marks a node; the node is unlinked and freed by   *)
(* the list_deref that finds both counters exhausted.  Every public        *)
(* operation takes list->lock once or several times, so an operation is    *)
(* one action per critical section; list_next and list_prev hold the lock  *)
(* over a loop, whose iterations are the steps of Iterate.                 *)
(***************************************************************************)
EXTENDS Integers, FiniteSets

CONSTANTS
  Thread,    \* the threads that share the list
  Node,      \* the addresses calloc can return for a node
  Data,      \* the pointers stored in the list
  NULL,
  Calls,     \* the calls <<thread, operation, data>> the clients may make
  MaxCalls   \* bound: how many calls each thread makes

Inserts == {"list_push", "list_unshift"}
Scans   == {"list_next", "list_prev"}        \* a client's loop over the list
Takes   == {"list_pop", "list_shift"}
Walks   == Scans \cup Takes \cup {"list_delete_data"}
OpName  == Inserts \cup Walks \cup {"list_destroy"}

ASSUME ThreadFinite  == IsFiniteSet(Thread)
ASSUME NodeFinite    == IsFiniteSet(Node)
ASSUME NullNotObject == NULL \notin (Thread \cup Node \cup Data)
ASSUME CallsType     == Calls \subseteq Thread \X OpName \X Data
ASSUME MaxCallsNat   == MaxCalls \in Nat

VARIABLES
  heap,                    \* the nodes that are allocated
  data, next, prev,        \* fields of node_t, per node
  rc, ic,
  removed,                 \* list_remove calls on a node: node->deleted is removed # 0
  start, end,              \* fields of list_t
  items, deleted,
  lock,                    \* owner of list->lock
  alive,                   \* FALSE once list_free has freed the list_t
  pc, op, arg, cur,        \* per thread: the running call, its argument, its cursor
  left,                    \* per thread: calls still to make
  released,                \* data handed to the free_fn of list_destroy
  owed                     \* history: nodes live since the walk began, not yet met

nodeVars   == <<data, next, prev, rc, ic, removed>>
listVars   == <<start, end, items, deleted, lock, alive>>
threadVars == <<pc, op, arg, cur, left>>
vars == <<heap, nodeVars, listVars, threadVars, released, owed>>

\* The nodes an observer counts as present: linked and not marked.
Live == {n \in heap : removed[n] = 0}

\* The fields of list_t and node_t and the locals of the operations have their types.
TypeOK ==
  /\ heap \in SUBSET Node
  /\ data \in [Node -> Data \cup {NULL}]
  /\ next \in [Node -> Node \cup {NULL}]
  /\ prev \in [Node -> Node \cup {NULL}]
  /\ rc \in [Node -> Int]
  /\ ic \in [Node -> Int]
  /\ removed \in [Node -> Nat]
  /\ start \in Node \cup {NULL}
  /\ end \in Node \cup {NULL}
  /\ items \in Int
  /\ deleted \in Int
  /\ lock \in Thread \cup {NULL}
  /\ alive \in BOOLEAN
  /\ pc \in [Thread -> {"idle", "walk", "remove", "deref", "destroy"}]
  /\ op \in [Thread -> OpName \cup {NULL}]
  /\ arg \in [Thread -> Data \cup {NULL}]
  /\ cur \in [Thread -> Node \cup {NULL}]
  /\ left \in [Thread -> 0..MaxCalls]
  /\ released \in SUBSET Data
  /\ owed \in [Thread -> SUBSET Node]

\* list_new: calloc leaves an empty list.
Init ==
  /\ heap = {}
  /\ data = [n \in Node |-> NULL]
  /\ next = [n \in Node |-> NULL]
  /\ prev = [n \in Node |-> NULL]
  /\ rc = [n \in Node |-> 0]
  /\ ic = [n \in Node |-> 0]
  /\ removed = [n \in Node |-> 0]
  /\ start = NULL
  /\ end = NULL
  /\ items = 0
  /\ deleted = 0
  /\ lock = NULL
  /\ alive = TRUE
  /\ pc = [t \in Thread |-> "idle"]
  /\ op = [t \in Thread |-> NULL]
  /\ arg = [t \in Thread |-> NULL]
  /\ cur = [t \in Thread |-> NULL]
  /\ left = [t \in Thread |-> MaxCalls]
  /\ released = {}
  /\ owed = [t \in Thread |-> {}]

-----------------------------------------------------------------------------
(* Private functions *)

\* f with k added at n; a NULL pointer has no counter.
Bump(f, n, k) == IF n = NULL THEN f ELSE [f EXCEPT ![n] = @ + k]

\* node_new: a zeroed node with one reference, the list's own.
node_new(n, d) ==
  /\ n \notin heap
  /\ heap' = heap \cup {n}
  /\ data' = [data EXCEPT ![n] = d]
  /\ rc' = [rc EXCEPT ![n] = 1]
  /\ ic' = [ic EXCEPT ![n] = 0]
  /\ removed' = [removed EXCEPT ![n] = 0]

\* Mutant: the back pointer of the next node is not repaired.
Splice_KeepsPrev(n) ==
  /\ next' = [m \in Node |-> IF m = n THEN NULL
                             ELSE IF m = prev[n] THEN next[n] ELSE next[m]]
  /\ prev' = [prev EXCEPT ![n] = NULL]
  /\ start' = IF n = start THEN next[n] ELSE start
  /\ end' = IF n = end THEN prev[n] ELSE end

\* Mutant: freeing the first node drops the rest of the list.
Splice_DropsRest(n) ==
  /\ next' = [m \in Node |-> IF m = n THEN NULL
                             ELSE IF m = prev[n] THEN next[n] ELSE next[m]]
  /\ prev' = [m \in Node |-> IF m = n THEN NULL
                             ELSE IF m = next[n] THEN prev[n] ELSE prev[m]]
  /\ start' = IF n = start THEN NULL ELSE start
  /\ end' = IF n = end THEN prev[n] ELSE end

\* list_unlink, first part: take n out of the chain.
Splice(n) ==
  /\ next' = [m \in Node |-> CASE m = n -> NULL
                               [] m # n /\ m = prev[n] -> next[n]
                               [] OTHER -> next[m]]
  /\ prev' = [m \in Node |-> CASE m = n -> NULL
                               [] m # n /\ m = next[n] -> prev[n]
                               [] OTHER -> prev[m]]
  /\ start' = IF n = start THEN next[n] ELSE start
  /\ end' = IF n = end THEN prev[n] ELSE end

\* Mutant: list->deleted never falls.
Uncount_KeepsDeleted(n, RM, DL) ==
  /\ items' = items - 1
  /\ deleted' = DL

\* list_unlink, second part: uncount n.  RM and DL are removed and deleted as the
\* calling critical section left them.
Uncount(n, RM, DL) ==
  /\ items' = items - 1
  /\ deleted' = IF RM[n] # 0 THEN DL - 1 ELSE DL

\* list_unlink, and free.  What a freed node holds is never read again, so the
\* model clears it.
list_unlink(n, RC, IC, RM, DL) ==
  /\ Splice(n)
  /\ Uncount(n, RM, DL)
  /\ heap' = heap \ {n}
  /\ data' = [data EXCEPT ![n] = NULL]
  /\ rc' = [RC EXCEPT ![n] = 0]
  /\ ic' = [IC EXCEPT ![n] = 0]
  /\ removed' = [RM EXCEPT ![n] = 0]

\* What list_deref does to a node that stays.
Keep(RC, IC, RM, DL) ==
  /\ rc' = RC
  /\ ic' = IC
  /\ removed' = RM
  /\ deleted' = DL
  /\ UNCHANGED <<heap, data, next, prev, start, end, items>>

\* Mutants: the cursors are not looked at; a reference is not dropped; off by one.
list_deref_IgnoresCursors(n, RC, IC, RM, DL) ==
  IF RC[n] - 1 <= 0
  THEN list_unlink(n, RC, IC, RM, DL)
  ELSE Keep([RC EXCEPT ![n] = @ - 1], IC, RM, DL)
list_deref_KeepsReference(n, RC, IC, RM, DL) ==
  IF RC[n] - 1 <= 0 /\ IC[n] <= 0
  THEN list_unlink(n, RC, IC, RM, DL)
  ELSE Keep(RC, IC, RM, DL)
list_deref_OffByOne(n, RC, IC, RM, DL) ==
  IF RC[n] - 1 < 0 /\ IC[n] <= 0
  THEN list_unlink(n, RC, IC, RM, DL)
  ELSE Keep([RC EXCEPT ![n] = @ - 1], IC, RM, DL)

\* list_deref: drop one reference; with no reference and no cursor left the
\* node goes.
list_deref(n, RC, IC, RM, DL) ==
  IF RC[n] - 1 <= 0 /\ IC[n] <= 0
  THEN list_unlink(n, RC, IC, RM, DL)
  ELSE Keep([RC EXCEPT ![n] = @ - 1], IC, RM, DL)

-----------------------------------------------------------------------------
(* Public functions *)

\* A client makes one of its calls.  list_destroy ends the list: its caller is
\* the only user left, as in interface_tcp_create, where no thread has started.
Calling(t, o, d) ==
  /\ <<t, o, d>> \in Calls
  /\ alive
  /\ \A u \in Thread : pc[u] # "destroy"
  /\ pc[t] = "idle"
  /\ left[t] > 0
  /\ left' = [left EXCEPT ![t] = @ - 1]

list_push(t, d) ==
  /\ Calling(t, "list_push", d)
  /\ lock = NULL
  /\ \E n \in Node :
       /\ node_new(n, d)
       /\ IF start = NULL
          THEN /\ start' = n
               /\ next' = [next EXCEPT ![n] = NULL]
               /\ prev' = [prev EXCEPT ![n] = NULL]
          ELSE /\ next' = [next EXCEPT ![end] = n, ![n] = NULL]
               /\ prev' = [prev EXCEPT ![n] = end]
               /\ UNCHANGED start
       /\ end' = n
  /\ items' = items + 1
  /\ UNCHANGED <<deleted, lock, alive, pc, op, arg, cur, released, owed>>

list_unshift(t, d) ==
  /\ Calling(t, "list_unshift", d)
  /\ lock = NULL
  /\ \E n \in Node :
       /\ node_new(n, d)
       /\ IF start = NULL
          THEN /\ end' = n
               /\ next' = [next EXCEPT ![n] = NULL]
               /\ prev' = [prev EXCEPT ![n] = NULL]
          ELSE /\ prev' = [prev EXCEPT ![start] = n, ![n] = NULL]
               /\ next' = [next EXCEPT ![n] = start]
               /\ UNCHANGED end
       /\ start' = n
  /\ items' = items + 1
  /\ UNCHANGED <<deleted, lock, alive, pc, op, arg, cur, released, owed>>

\* list_delete_data, list_pop, list_shift and a client's own loop all start
\* with a NULL cursor.
BeginWalk(t, o, d) ==
  /\ o \in Walks
  /\ Calling(t, o, d)
  /\ pc' = [pc EXCEPT ![t] = "walk"]
  /\ op' = [op EXCEPT ![t] = o]
  /\ arg' = [arg EXCEPT ![t] = d]
  /\ owed' = [owed EXCEPT ![t] = Live]
  /\ UNCHANGED <<heap, nodeVars, listVars, cur, released>>

\* The node the cursor of t moves to.
Backward(t) == op[t] \in {"list_prev", "list_pop"}
\* Mutant: list_prev starts at the front as well.
Hop_WrongEnd(t) ==
  IF cur[t] = NULL
  THEN start
  ELSE IF op[t] \in {"list_prev", "list_pop"} THEN prev[cur[t]] ELSE next[cur[t]]

Hop(t) ==
  IF cur[t] = NULL
  THEN IF Backward(t) THEN end ELSE start
  ELSE IF Backward(t) THEN prev[cur[t]] ELSE next[cur[t]]

\* Mutant: the first node is not compared.
AfterHop_SkipsFirst(t, n) ==
  CASE n = NULL -> "idle"
    [] n # NULL /\ op[t] \in Takes -> "remove"
    [] n # NULL /\ op[t] = "list_delete_data" /\ data[n] = arg[t] /\ cur[t] # NULL -> "remove"
    [] OTHER -> "walk"

\* What the caller does with the node n it is handed: list_delete_data compares
\* the data, which never changes while the node lives.
AfterHop(t, n) ==
  CASE n = NULL -> "idle"
    [] n # NULL /\ op[t] \in Takes -> "remove"
    [] n # NULL /\ op[t] = "list_delete_data" /\ data[n] = arg[t] -> "remove"
    [] OTHER -> "walk"

\* Mutant: the end of the list returns without unlocking.
LoopOrReturn_KeepsLock(t, n) ==
  IF n # NULL /\ removed[n] # 0
  THEN lock' = t /\ UNCHANGED pc
  ELSE lock' = (IF n = NULL THEN t ELSE NULL) /\ pc' = [pc EXCEPT ![t] = AfterHop(t, n)]

\* The end of an iteration: the lock is kept, and the loop goes on, while the
\* cursor stands on a node that is marked as deleted.
LoopOrReturn(t, n) ==
  IF n # NULL /\ removed[n] # 0
  THEN lock' = t /\ UNCHANGED pc
  ELSE lock' = NULL /\ pc' = [pc EXCEPT ![t] = AfterHop(t, n)]

\* One iteration of the loop of list_next or list_prev.
Iterate(t) ==
  LET c  == cur[t]
      n  == Hop(t)
      IC == Bump(Bump(ic, c, -1), n, 1)
  IN  /\ pc[t] = "walk"
      /\ lock \in {NULL, t}
      /\ IF c = NULL
         THEN /\ rc' = Bump(rc, n, 1)
              /\ ic' = IC
              /\ UNCHANGED <<heap, data, next, prev, removed,
                             start, end, items, deleted>>
         ELSE list_deref(c, Bump(rc, n, 1), IC, removed, deleted)
      /\ cur' = [cur EXCEPT ![t] = n]
      /\ owed' = [owed EXCEPT ![t] = @ \ {n}]
      /\ LoopOrReturn(t, n)
      /\ UNCHANGED <<alive, op, arg, left, released>>

\* list_remove on the node under the cursor; no caller passes a free_fn.
list_remove(t) ==
  LET n == cur[t]
  IN  /\ pc[t] = "remove"
      /\ lock = NULL
      /\ list_deref(n, rc, ic, Bump(removed, n, 1), deleted + 1)
      /\ pc' = [pc EXCEPT ![t] = IF op[t] \in Takes THEN "deref" ELSE "walk"]
      /\ owed' = [u \in Thread |-> owed[u] \ {n}]
      /\ UNCHANGED <<lock, alive, op, arg, cur, left, released>>

\* list_unlock_deref: the last step of list_pop and list_shift, and the way a
\* client leaves its loop early.
list_unlock_deref(t) ==
  LET n == cur[t]
  IN  /\ \/ pc[t] = "deref"
         \/ pc[t] = "walk" /\ op[t] \in Scans /\ n # NULL
      /\ lock = NULL
      /\ list_deref(n, rc, Bump(ic, n, -1), removed, deleted)
      /\ cur' = [cur EXCEPT ![t] = NULL]
      /\ pc' = [pc EXCEPT ![t] = "idle"]
      /\ owed' = [owed EXCEPT ![t] = {}]
      /\ UNCHANGED <<lock, alive, op, arg, left, released>>

BeginDestroy(t, d) ==
  /\ Calling(t, "list_destroy", d)
  /\ \A u \in Thread : pc[u] = "idle"
  /\ pc' = [pc EXCEPT ![t] = "destroy"]
  /\ op' = [op EXCEPT ![t] = "list_destroy"]
  /\ UNCHANGED <<heap, nodeVars, listVars, arg, cur, released, owed>>

\* Mutant: the datum is read after its node has been freed.
list_destroy_FreesFirst(t) ==
  /\ pc[t] = "destroy"
  /\ lock \in {NULL, t}
  /\ start # NULL
  /\ list_unlink(start, rc, ic, removed, deleted)
  /\ released' = released \cup {data'[start]}
  /\ lock' = t
  /\ UNCHANGED <<alive, pc, op, arg, cur, left, owed>>

\* list_destroy: unlink from the front under the lock, then list_free.
list_destroy(t) ==
  /\ pc[t] = "destroy"
  /\ lock \in {NULL, t}
  /\ IF start # NULL
     THEN /\ list_unlink(start, rc, ic, removed, deleted)
          /\ released' = released \cup {data[start]}
          /\ lock' = t
          /\ UNCHANGED <<alive, pc>>
     ELSE /\ alive' = FALSE
          /\ lock' = NULL
          /\ pc' = [pc EXCEPT ![t] = "idle"]
          /\ UNCHANGED <<heap, nodeVars, start, end, items, deleted, released>>
  /\ UNCHANGED <<op, arg, cur, left, owed>>

Step(t) ==
  \/ Iterate(t)
  \/ list_remove(t)
  \/ list_unlock_deref(t)
  \/ list_destroy(t)

Next ==
  \E t \in Thread :
    \/ Step(t)
    \/ \E d \in Data :
         \/ list_push(t, d)
         \/ list_unshift(t, d)
         \/ BeginDestroy(t, d)
         \/ \E o \in Walks : BeginWalk(t, o, d)

Spec == Init /\ [][Next]_vars

\* A thread inside a call keeps running: no code path blocks but on list->lock.
FairSpec == Spec /\ \A t \in Thread : WF_vars(Step(t))
-----------------------------------------------------------------------------
(* Properties *)

Cursors(n) == {t \in Thread : cur[t] = n}

\* A cursor always stands on an allocated node, whatever the other threads
\* remove or free between two calls of list_next: list_delete_data, list_pop and
\* command_who read node->data after the lock has been released.
CursorSafe == \A t \in Thread : cur[t] # NULL => cur[t] \in heap

\* node->ic is the number of cursors on the node and node->rc adds the list's
\* own reference and loses one for each list_remove, also when two threads
\* remove the same node (concurrent list_pop).
RefcountExact ==
  \A n \in heap : /\ ic[n] = Cardinality(Cursors(n))
                  /\ rc[n] = 1 + ic[n] - removed[n]

\* A marked node survives only while a cursor stands on it: list_deref frees it
\* with the last one, and frees it then for certain (no node leaks).
Reclaimed == \A n \in heap : removed[n] # 0 => ic[n] > 0

\* next and prev of the allocated nodes are inverse to each other and end at
\* list->start and list->end.
Links ==
  /\ start = NULL <=> heap = {}
  /\ end = NULL <=> heap = {}
  /\ start # NULL => start \in heap /\ prev[start] = NULL
  /\ end # NULL => end \in heap /\ next[end] = NULL
  /\ \A n \in heap :
       /\ next[n] # NULL => next[n] \in heap /\ prev[next[n]] = n
       /\ prev[n] # NULL => prev[n] \in heap /\ next[prev[n]] = n
       /\ next[n] = NULL => n = end
       /\ prev[n] = NULL => n = start

\* Every set of nodes has a way out along next, so the chain has no cycle and a
\* walk ends.
NoCycle == \A S \in SUBSET heap : S # {} => \E n \in S : next[n] \notin S

\* Unlinking from the middle or an end, by whichever thread drops the last
\* reference, keeps the chain of list_unlink, list_push and list_unshift whole.
WellLinked == Links /\ NoCycle

\* list->items counts the allocated nodes, marked ones included.
ItemsExact == items = Cardinality(heap)

\* A walk that runs to its end has met every node that was live from its start
\* to its end, although nodes before, under and after the cursor came and went.
ScanComplete == \A t \in Thread : pc[t] = "idle" => owed[t] = {}

\* Only thread t inserts d.
SoleUser(t, d) ==
  \A c \in Calls : c[2] \in Inserts /\ c[3] = d => c[1] = t

\* When list_delete_data(list, d) returns to the one thread that inserts d, no
\* live node holds d: what player_close needs before it frees the player.
DeleteComplete ==
  [][\A t \in Thread :
       /\ pc[t] = "walk" /\ op[t] = "list_delete_data" /\ pc'[t] = "idle"
       /\ SoleUser(t, arg[t])
       => \A n \in Live' : data'[n] # arg[t]]_vars

\* Every call of the list returns, given finitely many concurrent calls.
CallsReturn == \A t \in Thread : pc[t] # "idle" ~> pc[t] = "idle"

\* The rests of the chain: the sets of nodes that next does not leave.
Tails == {S \in SUBSET heap : \A m \in S : next[m] # NULL => next[m] \in S}

\* The live nodes of the chain in its order: a later one is in every rest of the chain
\* that starts behind an earlier one.
LiveNodes ==
  LET T == Tails
      V == {n \in Live : \A S \in T : (start # NULL => start \in S) => n \in S}
  IN  CHOOSE s \in [1..Cardinality(V) -> V] :
        \A i, j \in DOMAIN s : i < j =>
          \A S \in T : (next[s[i]] # NULL => next[s[i]] \in S) => s[j] \in S

\* The data of the live nodes in list order.
LiveData == LET s == LiveNodes IN [i \in DOMAIN s |-> data[s[i]]]

Abstract == INSTANCE LiveList WITH live <- LiveData

\* The list implements the sequence of LiveList: inserts appear at the ends,
\* list_remove takes out exactly the node it names, and the deferred unlink and
\* free are invisible.
ImplementsLiveList == Abstract!Spec
=============================================================================
