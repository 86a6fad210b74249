-------------------------------- MODULE Dns --------------------------------
(***************************************************************************)
(* The cache of host names in 3w3_socket.c: socket_ip2host searches        *)
(* dns_list and, when it finds nothing, starts a thread (_socket_ip2host)  *)
(* that asks gethostbyaddr and pushes the answer.                          *)
(*                                                                         *)
(* A search that succeeds returns from inside its list_next loop and keeps *)
(* its reference on the node for ever, so the counters of the nodes are    *)
(* modelled, with the width of an int.  gethostbyaddr, which is external,  *)
(* returns a pointer to storage that all threads share, or NULL: when the  *)
(* address has no name, and as well whenever it cannot find out just now.  *)
(***************************************************************************)
EXTENDS Integers, Sequences, FiniteSets, SequencesExt

CONSTANTS
  Thread,      \* the acceptors
  Address,     \* addresses of peers
  Host,        \* the name of an address, or NULL
  NULL,
  Garbled,     \* storage that is being overwritten
  IntMax,      \* the greatest int: rc and ic wrap around behind it
  MaxEntries,  \* bound: how many dns_t malloc can supply
  MaxLookups   \* bound: how many lookups are made

\* A dns_t, the resolver that fills it and the node that holds it.
Entry == 1..MaxEntries

ASSUME ThreadsFinite == IsFiniteSet(Thread)
ASSUME HostType      == DOMAIN Host = Address
ASSUME NullApart     == NULL \notin Address \cup {Garbled}
ASSUME IntMaxNat     == IntMax \in Nat \ {0}
ASSUME BoundsNat     == MaxEntries \in Nat /\ MaxLookups \in Nat

VARIABLES
  dns_list,        \* the linked nodes, in list order
  rc, ic,          \* their counters
  ip, dns,         \* fields of dns_t
  pc, want,        \* per acceptor: its step, the address it looks for
  node,            \* per acceptor: the cursor
  rpc,             \* per entry: the step of its resolver
  hostent,         \* the storage of gethostbyaddr
  lookups,         \* lookups begun
  raced,           \* history: names copied after the storage was touched again
  failed,          \* history: entries whose resolver was given no name
  hits,            \* history: lookups that returned this entry
  early            \* history: lookups begun before the address was ever cached

listVars     == <<dns_list, rc, ic>>
lookupVars   == <<pc, want, node, lookups>>
resolverVars == <<rpc, hostent, ip, dns>>
history      == <<raced, failed, hits, early>>
vars == <<listVars, lookupVars, resolverVars, history>>

Names == {Host[a] : a \in Address} \ {NULL}

\* Every field has its type, and a node in dns_list has its address and a name:
\* it is pushed when it is complete.
TypeOK ==
  /\ dns_list \in Seq(Entry)
  /\ rc \in [Entry -> (-IntMax - 1)..IntMax]
  /\ ic \in [Entry -> (-IntMax - 1)..IntMax]
  /\ ip \in [Entry -> Address \cup {NULL}]
  /\ dns \in [Entry -> Names \cup Address \cup {Garbled, NULL}]
  /\ \A i \in 1..Len(dns_list) : ip[dns_list[i]] # NULL /\ dns[dns_list[i]] # NULL
  /\ pc \in [Thread -> {"idle", "walk", "spawn"}]
  /\ want \in [Thread -> Address \cup {NULL}]
  /\ node \in [Thread -> Entry \cup {0}]
  /\ lookups \in 0..MaxLookups
  /\ rpc \in [Entry -> {"none", "start", "inside", "copy", "push", "done"}]
  /\ hostent \in Names \cup {Garbled, NULL}
  /\ raced \in SUBSET Entry
  /\ failed \in SUBSET Entry
  /\ hits \in [Entry -> Nat]
  /\ early \in [Address -> Nat]

Init ==
  /\ dns_list = <<>>
  /\ rc = [e \in Entry |-> 0]
  /\ ic = [e \in Entry |-> 0]
  /\ ip = [e \in Entry |-> NULL]
  /\ dns = [e \in Entry |-> NULL]
  /\ pc = [t \in Thread |-> "idle"]
  /\ want = [t \in Thread |-> NULL]
  /\ node = [t \in Thread |-> 0]
  /\ lookups = 0
  /\ rpc = [e \in Entry |-> "none"]
  /\ hostent = NULL
  /\ raced = {}
  /\ failed = {}
  /\ hits = [e \in Entry |-> 0]
  /\ early = [a \in Address |-> 0]

-----------------------------------------------------------------------------
(* The list's counters *)

\* x as an int: an increment of IntMax gives the least int.
Int32(x) == IF x > IntMax THEN x - 2 * (IntMax + 1)
            ELSE IF x < -IntMax - 1 THEN x + 2 * (IntMax + 1) ELSE x

\* f with k added at e; 0 is the NULL node.
Count(f, e, k) == IF e = 0 THEN f ELSE [f EXCEPT ![e] = Int32(@ + k)]

Linked == ToSet(dns_list)

\* Where in the list a node is.
Position(e) == IF e = 0 THEN 0 ELSE CHOOSE j \in 1..Len(dns_list) : dns_list[j] = e

\* The node list_next moves to from e.
After(e) == IF Position(e) = Len(dns_list) THEN 0 ELSE dns_list[Position(e) + 1]

\* list_next: the cursor moves from c to n, and c is freed when its counters say
\* that nobody refers to it.
list_next(c, n) ==
  LET RC == Count(Count(rc, n, 1), c, -1)
      IC == Count(ic, c, -1)
  IN  /\ dns_list' = IF c # 0 /\ RC[c] <= 0 /\ IC[c] <= 0
                      THEN RemoveAt(dns_list, Position(c)) ELSE dns_list
      /\ rc' = RC
      /\ ic' = Count(IC, n, 1)

-----------------------------------------------------------------------------
(* socket_ip2host *)

Cached(a) == \E e \in Linked : ip[e] = a

BeginLookup(t, a) ==
  /\ pc[t] = "idle"
  /\ lookups < MaxLookups
  /\ lookups' = lookups + 1
  /\ pc' = [pc EXCEPT ![t] = "walk"]
  /\ want' = [want EXCEPT ![t] = a]
  /\ early' = IF Cached(a) THEN early ELSE [early EXCEPT ![a] = @ + 1]
  /\ UNCHANGED <<listVars, node, resolverVars, raced, failed, hits>>

Found(t, n) == n # 0 /\ ip[n] = want[t]

\* One call of list_next and the comparison.  A hit returns from within the loop
\* and leaves its cursor on the node.
Search(t) ==
  LET n == After(node[t])
  IN  /\ pc[t] = "walk"
      /\ node[t] # 0 => node[t] \in Linked
      /\ list_next(node[t], n)
      /\ IF Found(t, n)
         THEN /\ pc' = [pc EXCEPT ![t] = "idle"]
              /\ node' = [node EXCEPT ![t] = 0]
              /\ want' = [want EXCEPT ![t] = NULL]
              /\ hits' = [hits EXCEPT ![n] = @ + 1]
         ELSE /\ pc' = [pc EXCEPT ![t] = IF n = 0 THEN "spawn" ELSE "walk"]
              /\ node' = [node EXCEPT ![t] = n]
              /\ UNCHANGED <<want, hits>>
      /\ UNCHANGED <<lookups, resolverVars, raced, failed, early>>

\* socket_ip2host returns the address.
ReturnAddress(t) ==
  /\ pc[t] = "spawn"
  /\ pc' = [pc EXCEPT ![t] = "idle"]
  /\ want' = [want EXCEPT ![t] = NULL]
  /\ UNCHANGED <<listVars, node, lookups, hostent, dns, history>>

\* Nothing found: a dns_t with the address, and a thread for it.
Resolve(t) ==
  LET Unused == {e \in Entry : rpc[e] = "none"}
  IN  /\ Unused # {}
      /\ ReturnAddress(t)
      /\ ip' = [ip EXCEPT ![Min(Unused)] = want[t]]
      /\ rpc' = [rpc EXCEPT ![Min(Unused)] = "start"]

\* malloc or pthread_create fails.  The list_delete_data that follows the latter
\* finds nothing: the entry was not pushed.
ResolveFails(t) ==
  /\ ReturnAddress(t)
  /\ UNCHANGED <<rpc, ip>>

-----------------------------------------------------------------------------
(* _socket_ip2host, one thread per entry *)

ResolverGoes(e, from, to) == rpc[e] = from /\ rpc' = [rpc EXCEPT ![e] = to]

\* Resolvers that have an answer in the storage and have not copied it yet.
Uncopied == {e \in Entry : rpc[e] = "copy"}

\* Its storage is written while somebody has yet to copy from it.
Touch == raced' = raced \cup Uncopied

\* gethostbyaddr begins to write its storage ...
AskHost(e) ==
  /\ ResolverGoes(e, "start", "inside")
  /\ Touch
  /\ hostent' = Garbled
  /\ UNCHANGED <<listVars, lookupVars, ip, dns, failed, hits, early>>

\* ... and has written the name into it, ...
HostAnswers(e) ==
  /\ ResolverGoes(e, "inside", "copy")
  /\ Touch
  /\ Host[ip[e]] # NULL
  /\ hostent' = Host[ip[e]]
  /\ UNCHANGED <<listVars, lookupVars, ip, dns, failed, hits, early>>

\* ... or it returns NULL, because there is no name or because the lookup failed this time:
\* the address is taken for the name.
\* Mutant: the name is taken from the storage all the same.
HostFails_Unchecked(e) ==
  /\ ResolverGoes(e, "inside", "copy")
  /\ Touch
  /\ failed' = failed \cup {e}
  /\ UNCHANGED <<listVars, lookupVars, hostent, ip, dns, hits, early>>
HostFails(e) ==
  /\ ResolverGoes(e, "inside", "push")
  /\ Touch
  /\ failed' = failed \cup {e}
  /\ dns' = [dns EXCEPT ![e] = ip[e]]
  /\ UNCHANGED <<listVars, lookupVars, hostent, ip, hits, early>>

CopyName(e) ==
  /\ ResolverGoes(e, "copy", "push")
  /\ dns' = [dns EXCEPT ![e] = hostent]
  /\ UNCHANGED <<listVars, lookupVars, hostent, ip, history>>

\* Mutants: a node without the list's own reference; the newest entry goes first.
PushEntry_NoReference(e) ==
  /\ ResolverGoes(e, "push", "done")
  /\ dns_list' = Append(dns_list, e)
  /\ rc' = [rc EXCEPT ![e] = 0]
  /\ ic' = [ic EXCEPT ![e] = 0]
  /\ UNCHANGED <<lookupVars, hostent, ip, dns, history>>
PushEntry_Front(e) ==
  /\ ResolverGoes(e, "push", "done")
  /\ dns_list' = <<e>> \o dns_list
  /\ rc' = [rc EXCEPT ![e] = 1]
  /\ ic' = [ic EXCEPT ![e] = 0]
  /\ UNCHANGED <<lookupVars, hostent, ip, dns, history>>
PushEntry(e) ==
  /\ ResolverGoes(e, "push", "done")
  /\ dns_list' = Append(dns_list, e)
  /\ rc' = [rc EXCEPT ![e] = 1]
  /\ ic' = [ic EXCEPT ![e] = 0]
  /\ UNCHANGED <<lookupVars, hostent, ip, dns, history>>

-----------------------------------------------------------------------------
Resolver(e) == AskHost(e) \/ HostAnswers(e) \/ HostFails(e) \/ CopyName(e) \/ PushEntry(e)

Next ==
  \/ \E t \in Thread :
       \/ Search(t) \/ Resolve(t) \/ ResolveFails(t)
       \/ \E a \in Address : BeginLookup(t, a)
  \/ \E e \in Entry : Resolver(e)

Spec == Init /\ [][Next]_vars

-----------------------------------------------------------------------------
(* Properties *)

\* As long as the lookups that returned an entry, the cursors on it now and the
\* list's own reference fit into an int, ...
InRange == \A e \in Entry : 1 + hits[e] + Cardinality(Thread) <= IntMax

\* ... no search stands on a freed node, and a name that was pushed, and that some
\* caller may have been given, stays in the cache: an address is resolved more than once
\* only for lookups that began before its first answer was pushed.  The references that
\* hits leave behind do no harm until then.
EntriesKept ==
  /\ TypeOK
  /\ InRange =>
       /\ \A t \in Thread : node[t] # 0 => node[t] \in Linked
       /\ \A e \in Entry : rpc[e] = "done" => e \in Linked
       /\ \A a \in Address : Cardinality({e \in Entry : ip[e] = a}) <= early[a]

\* Every lookup of an address that finds an entry finds the same one, at whatever moment of
\* the walk others push.  Resolvers of one address push several, with different names when
\* gethostbyaddr failed for one of them: only the first push is ever seen, so the answer
\* never changes, and the address that a failure left there is never mended.
SameAnswer ==
  InRange =>
    \A d, e \in Entry : hits[d] > 0 /\ hits[e] > 0 /\ ip[d] = ip[e] => d = e

\* A cached name is what the entry's own resolver was told: the name of its host, or the
\* address when it was given none, be it for good or by a failure of the moment.  Excluded
\* are the entries whose answer another resolver may have overwritten before the copy.
NameSound ==
  \A e \in Linked \ raced :
    dns[e] = IF e \in failed THEN ip[e] ELSE Host[ip[e]]
=============================================================================
