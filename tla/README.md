# A TLA+ model of the 3w3 server

3w3 is a multi-threaded talker: clients connect with telnet, give a name, and
type commands (`who`, `twho`, `quit`, `exit`).  The program's own code is
`src/src/` (about 2650 lines of C).  `src/sqlite/` and `src/pcre/` are vendored
and are not modelled.

This directory holds TLA+ modules translated from that code, TLC runs on small
instances of them, and TLAPS proofs for every instance.  `PROJECT.json` maps
every definition to the lines it stands for.

## 1. The system

### Threads

| thread | runs | ends |
|---|---|---|
| main | `main`: initialises the globals, the commands, the banner and three interfaces, then sleeps | when an interface cannot be created, with every other thread |
| acceptor, one per interface | `socket_pthread_per_accept` | at the first accept error it does not retry |
| session, one per player | `socket_select` | when the peer leaves or quits |
| resolver, one per unknown address | `_socket_ip2host` | after one lookup |

They share `player_list`, `socket_list`, `interface_list` and `dns_list`, one
player list per interface (`listener->list`), and `command_hash`.  Each list has
one lock and the hash table has one lock; `socket_t` has a lock for writes.
There are no condition variables; threads talk through the shared lists only.

### Inventory

| component | state | operations | what makes it correct |
|---|---|---|---|
| list (`3w3_list.c`) | nodes with `next`, `prev`, `rc`, `ic`, `deleted`; `start`, `end`, `items`, `deleted`, `lock` | new, push, unshift, pop, shift, next, prev, remove, unlock_deref, delete_data, destroy, items | a cursor never stands on freed memory; removed nodes are freed, once; the chain stays whole; a walk misses nothing; counters exact; calls return |
| hash table (`3w3_hash.c`) | buckets, `size`, `entries`, `flags`, thresholds, `lock` | new, search, find, replace, delete, keys, rehash, set/clear flags, destroy | an atomic map under concurrent resizing; entries stay where lookups search; load bounded; HASH_FROZEN respected |
| connection input (`3w3_process_input.c`) | `ibuffer`, `ibuffer_ptr`, `P_READY`, `P_LAST_R`, `P_LAST_N`, the count from FIONREAD | process_input, process_command | the buffer is the line that was typed; never written outside; no blocking read with input unprocessed; a hang-up ends the thread |
| login (`3w3_login.c`) | `f_mode`, `name`, `LOGGED_IN` | login_welcome, login_get_name | only valid names reach the command mode; a login lasts |
| session thread, socket I/O (`3w3_socket.c`) | `socket_t` in the player | socket_select, socket_read, socket_write, socket_prompt, socket_writef, socket_close | the thread ends and releases what it owns |
| acceptor (`3w3_socket.c`) | `listener`, the player under construction | socket_pthread_per_accept | a player is in both lists exactly while its thread runs; errors do not lose the listener |
| DNS cache (`3w3_socket.c`) | `dns_list` | socket_ip2host, _socket_ip2host | an address is always answered from one entry, with what its resolver was told; no search meets a freed node |
| players (`3w3_player.c`) | `player_t` | player_new, player_close | nobody reads a player after it was freed |
| commands (`3w3_command.c`) | `command_hash` | command_init, command_push, who, twho, quit | scans read live players |
| memory pool (`3w3_mpool.c`) | pages with `free`, `used`, `inuse`, `next`, `prev` | new, get, free | a chunk has one owner; no page is used after munmap |
| counted allocation (`3w3_alloc.c`) | hidden header: refs, attributes, destructor | alloc, ref, free, attribute access | destructor once, at the last reference |
| interfaces (`3w3_interface.c`, `3w3_afinet.c`, `3w3_afunix.c`) | `interface_list`, the listening sockets | interface_tcp_create, afinet_tcp_listen | failure paths release what they took |
| banner files, configuration, logger, start-up | read once, compiled out (`#if 0`), or never called | | |

### What is hard here

* Every list operation is several critical sections: a node found under the lock
  is used after it, while other threads remove and free nodes.  Two counters
  decide when a node is freed.
* `player_close` frees the player as soon as `list_delete_data` has returned, so
  a missed entry is a dangling pointer in a list that every `who` walks.
* The resize of the hash table is decided without the lock.
* `process_input` trusts FIONREAD while bytes arrive, and counts telnet options
  by hand; `socket_read` returns -1 as a `size_t`.
* The peer may hang up or reset between any two reads.
* command_who reads a player after list_next has released the lock, while that
  player's own thread may close and free it.
* A player is entered in two lists, and given a thread, one after the other; each
  step may fail, and a descriptor that is closed once too often may by then be
  somebody else's connection.
* socket_ip2host leaves its list cursor on the entry it found, and its resolver threads
  share the storage of gethostbyaddr, which may fail for one and answer another.
* list_items reads two counters without the lock.
* The page list of the memory pool has a back pointer that may be out of date.

`PROJECT.json` lists each hazard at its line, with the property that watches it
or the reason none does yet.

## 2. Modules

| module | models | kind |
|---|---|---|
| `List` | `3w3_list.c` | component |
| `ListCount` | `list_items` beside the other calls of `List` | component |
| `LiveList` | what a list promises | abstract specification |
| `MCList`, `MCListCount` | instances | TLC |
| `ListProofs` | invariants, walks and refinement of `List`, and `ListCount` | TLAPS |
| `Session` | `socket_select`, `process_input`, login, quit, and the peer | component |
| `LineBuffer` | what the input buffer promises | abstract specification |
| `MCSession` | instances | TLC |
| `SessionProofs` | invariants and refinement of `Session` | TLAPS |
| `Hash` | `3w3_hash.c` | component |
| `KVMap` | what the table promises | abstract specification |
| `MCHash` | instances | TLC |
| `HashProofs` | invariants and refinement of `Hash` | TLAPS |
| `Server` | main, `interface_tcp_create`, the acceptors, the players' lists, memory and descriptors, `command_who`, `player_close` | composition |
| `MCServer` | instances | TLC |
| `ServerProofs` | invariants of `Server`, and what command_who prints | TLAPS |
| `Dns` | `socket_ip2host`, `_socket_ip2host` | component |
| `MCDns` | instances | TLC |
| `DnsProofs` | invariants of `Dns` | TLAPS |
| `Mempool` | `3w3_mpool.c` | component |
| `ChunkPool` | what the pool promises | abstract specification |
| `MCMempool` | instances | TLC |
| `MempoolProofs` | invariants of `Mempool`, and `Exclusive` | TLAPS |
| `Alloc` | `3w3_alloc.c` | component |
| `AttrMap` | what an object's attributes promise | abstract specification |
| `MCAlloc` | instances | TLC |
| `AllocProofs` | invariants and refinement of `Alloc` | TLAPS |
| `CommonLemmas` | extrema of sets of naturals, sequences that lose an element | TLAPS |

Where a component has an abstract specification, its module ends with the refinement mapping,
so that a run checks, and a proof module proves, the same formula.

Definitions named `X_Something` placed before `X` are mutants: a plausible bug in
the code that `X` models.  No specification uses them; each shows that a property
would notice that bug.

### List

A node is an address of the set `Node`; `heap` is the set of allocated ones, so a
freed address can be handed out again by calloc.  `removed[n]` counts the calls of
`list_remove` on `n`: the code's flag `node->deleted` is `removed[n] # 0`, and the
count says by how much `rc` has been lowered.

Each critical section is one action.  `list_push` and `list_unshift` are one
action each; a walk (a client's `list_next` or `list_prev` loop, `list_pop`,
`list_shift`, `list_delete_data`) is `BeginWalk` with a NULL cursor and then
`Iterate`, one iteration of the loop inside `list_next`/`list_prev`, which keeps
the lock while it skips marked nodes.  `list_remove` and `list_unlock_deref` are
critical sections of their own, so that other threads act between the find, the
remove and the release of `list_pop`.  A client may leave its loop early through
`list_unlock_deref`.  `list_destroy` unlinks node by node under the lock and then
frees the list; its caller must be the only user, as in `interface_tcp_create`.
`rc`, `ic`, `removed` and `deleted` are passed to `list_deref` and `list_unlink` as
the calling critical section has left them: C changes them in place before the
call.

`owed[t]` is a history variable: the nodes that were live when `t` began its walk,
are live still, and have not been met.  It guards nothing.

The abstract list is read off the pointers: a set of nodes that `next` does not leave is a
rest of the chain (`Tails`), the nodes of the list are those in every rest that holds
`start`, and of two nodes the later one is in every rest that starts behind the earlier
(`LiveNodes`).  `LiveData` is the data of the unmarked ones in that order.

`list_items` takes no lock, and reads `items` and `deleted` one after the other in an order
that C leaves open: `ListCount` adds one caller of it, with `ReadFirst` and `ReadSecond` as
steps between which the threads of `List` go on.  The history variables `changes` (critical
sections since the first read that changed a counter) and `surplus` (calls of `list_remove`
on a node removed before, which `list->deleted` counts and list_unlink never takes back) say
how wrong the result may be.  Nobody in the program calls list_items; it is
part of the list's interface.

Not in the model: `free_fn` of `list_remove` (every caller passes none), failing
malloc, and the contents of a freed node (they are cleared; `CursorSafe` says they
are never read).  Integers are unbounded.

### Session

One thread and its peer.  `rx` is the kernel's receive queue, `eof` and `err` what
read will report when it is empty.  `pc` is where the thread stands: `select`,
`read` (top of process_input's loop), `iac` (after the first read of an option),
`dispatch` (`P_READY` set, `f_mode` to be called), `closed`.

Bytes are the ones process_input's switch distinguishes; "OTHER" is
DO/DONT/WONT/WILL/SB/SE, "BS" is 8 and 127, "CTL" stands for every byte without
a case.  `size` keeps its sign: an IAC that is the last byte counted takes it to
-1, and the loop `while size` then reads on until it blocks or the peer leaves.
`socket_read` returning (size_t)-1 passes the `<= 0` test, and the previous byte
is processed once more: the second disjunct of `socket_read`.

`P_READY` is never cleared, so that from the first line on every input is dispatched when
process_input returns.  `unserved` is a history variable, set by a byte CR or LF whatever the
flags are, and cleared when `f_mode` is called: a line end is lost if process_input returns to
select with it.

Not in the model: everything written to the peer (prompts, echoes, the AYT answer),
EINTR/EAGAIN retries (no state changes), the select timeout (the loop goes round),
and the flag LOGOUT, which nothing sets.  `player_close` is the end of the thread;
the removal from the lists is in `Server`.

### Hash

The chains are a set of entries that carry their bucket, since no property depends
on the order within a chain.  One action per critical section; after it, the reads of
`ht->flags`, `ht->entries` and `ht->size` in the resize test are separate
actions, because the code makes them without the lock, and then `AutoRehash`.
`hash & (size - 1)` is written `% size`; that the size is a power of two (`TypeOK`) is
what makes these equal.
The thresholds are kept in twentieths: 0.3 and 0.7 are 6 and 14, and a client sets
quarters, which a float holds exactly.  `hash_setthresholds` and
`hash_sethashfunction` take no lock, so that their test and each of their writes are
steps of their own; the history variable `raced` holds the setters ("hash_func", "marks")
whose test was outdated when they wrote: an insert, or another setter, came between.
Sizes are powers of two up to 2^30.  `MaxEntries` is the memory there is: an insert needs
room for its entry.

Not in the model: `hash_destroy` (no caller), HASH_NOCOPY and the copying of keys, the
value of `hash_func` (a constant), thresholds whose sum is 0, failing malloc.

### Server

What the threads share: the players, their entries in `player_list` and in the list of
their interface, the interfaces and the descriptors.  Memory is explicit: `players` and
`listeners` are the allocated blocks, a `player_t` address is reused after `free`, and
what is read from a freed one is anything (`ReadFlags`).  Descriptors are explicit: `desc`
says what each refers to, accept gives the least free one, and `close` closes whatever the
number refers to by then.  A player that was never connected has descriptor 0, as calloc
left it.

The lists are used as `List` and `LiveList` justify: an insert, a removal by
`list_delete_data` and a `list_next` are atomic, and a cursor whose entry has been removed goes
on to the next live one.  Entries carry the order in which they were pushed.
`player_close` is four steps (close, two lists, free), the acceptor's and `socket_close`'s
steps are one per call that others can observe, and login writes the name before the flag.
`EndSession` and `QuitSession` are all that is left of a session's input: when it ends is
module `Session`.  `conn` (the connection a player serves), `target`, `due` and `failed`
are history variables.

`afinet_tcp_listen` opens a descriptor for each address and keeps the last: the others
are `Lost`.  When interface_tcp_create fails, main exits and takes every thread with it.

### Dns

`dns_list` with the counters `rc` and `ic` of its nodes, since a lookup that finds its address
returns from inside the loop and never gives its reference back.  The counters are ints of
`IntMax`, and wrap around.  Nothing is ever removed from this list, so a node goes only when its
counters say so.  Acceptors look up (`BeginLookup`, one `Search` per list_next, `Resolve`);
an entry's resolver is `AskHost`, then `HostAnswers` and `CopyName`, or `HostFails`, and
`PushEntry`.  gethostbyaddr is external: it writes storage that all resolvers share, and
another one may be inside it, or through it, before a name has been copied (`raced`).  It may
return NULL for any address, named or not, each time it is asked; `failed` is a history
variable with the entries for which it did.

### Mempool

Page addresses, headers with `next`, `prev`, `used`, `inuse` and the free list as a
sequence of chunk numbers; a page that mmap returns is zero.  A call runs under one lock
as a whole.  An access outside the mapped pages sets `fault`, and the model ends there:
what follows depends on what else is in memory.

A full page leaves the list without telling the page behind it, whose `prev` keeps
pointing to it (`3w3_mpool.c:91`).  When that page empties while it is the head, it
passes its own successor to the full page as `next`.  The history variable `spoiled`
records this.  Up to then the list is sound; after it, the page is not put back when it
has room again, and TLC finds behaviours that go on to a pointer to an unmapped page,
or to a full page at the head of the list.  The hash table, with
over a hundred entries on a page, would need several hundred commands for that, and the
server has four.  No document says what the pool should do, so this is not listed as a finding.

### Alloc

Objects with `rc` and a list of attributes.  A value is plain, or an object that was set
with `ref` and `FREE` as its functions; then attr_set takes over one reference, and
attr_get and attr_getall give one away.  `FREE` recurses; `todo` is its stack, in the order of
the C calls: values to release (FREE for an object, nothing for plain data: `attr_free`),
and memory to give back.  The caller follows the obvious rules: it calls with an object on which it
holds a reference, and passes on only references that it has.

## 3. Runs

| run | instance | checks |
|---|---|---|
| `list_api` | 2 threads, 3 calls each, 3 nodes, 2 data, every operation | `TypeOK`, `CursorSafe`, `RefcountExact`, `Reclaimed`, `WellLinked`, `ScanComplete`, `ImplementsLiveList` |
| `list_count` | 3 threads, 2 calls each, 2 nodes; inserts, deletes, scans, pops of what another deletes, and list_items; fair | `ListItemsNear`, `DeleteComplete`, `CallsReturn` |
| `session_edit` | 5 bytes of letters, erasures, kills and line ends; buffer of 3, names of 2 | `TypeOK`, `BufferClean`, `NameValid`, `LoginLasts`, `ImplementsLineBuffer` |
| `session_telnet` | 4 bytes of line ends, options and closing commands; fair | `CountAgrees`, `HangUpCloses`, `LineServed` |
| `hash_map` | 2 threads, 2 calls each, 3 colliding keys, 2 values, initial size 1 | `TypeOK`, `EntriesExact`, `ImplementsMap` |
| `hash_load` | 2 threads, 3 calls each: inserts, deletes, freezing and thawing, two hash functions, two marks | `QuiescentLoad`, `Placed`, `MarksOrdered` |
| `hash_frozen` | as above | `FrozenMeansNoResize`: **violated**, see below |
| `server_shared` | 2 interfaces, 2 player addresses, 2 connections, 5 descriptors | `SharingSound`, `WhoComplete`, `OwnDescriptor`, `NoDescriptorLeak`, `WhoSound` |
| `server_live` | 1 interface of 2 addresses, 2 player addresses, 2 connections that may hang up; fair | `Departs`, `AcceptorReturns` |
| `dns_cache` | 2 acceptors, 2 addresses (one without a name), 3 entries, 6 lookups, ints up to 4 | `EntriesKept`, `SameAnswer`, `NameSound` |
| `mempool` | 4 pages of 3 chunks | `ChunksExact`, `PoolSound`, `Exclusive` |
| `alloc` | 3 objects, 1 plain value, 2 names, 2 references of the caller at a time | `ReferencesSound`, `NoLeak`, `ImplementsAttrMap` |

Why the bounds are enough for the cases of interest:

* *List.*  Three nodes give a first, a middle and a last one; two threads with three
  calls each give two cursors on one node, both removing it, and an insert or a scan
  by either in between; an address is freed and reused within the calls left.  The
  set `Node` is symmetric: no definition singles out a node.  For list_items
  two nodes and three threads do: one thread deletes the node that another pops, and both
  insert and unlink between the two reads.  An unsigned long is a byte (`ULongMax`), which
  the numbers below zero wrap around.
* *Session.*  A buffer of three bytes reaches empty, partial, full and overflow in
  four bytes; with five bytes a peer logs in and sends another valid name.  Four
  bytes cut an option at each point, with a line end before or after it.  `select`
  may find any number of bytes, so every segmentation occurs.
* *Hash.*  Starting at size 1, the first entry grows the table and failed deletes
  shrink it.  Two of the three keys share a bucket up to size 4 and separate at 8,
  the size for three entries.  `MaxEntries` is 4 for four calls and 6 for six, so that no
  insert is refused.
* *Server.*  With two player addresses an address is freed and allocated again while the
  other session's command_who holds it.  Two interfaces are what it takes for
  descriptor 0 to be closed, given to a connection and closed again.  In `server_shared` nobody
  hangs up (`MaxHangUps`): a session may end at any time by quitting, which is the same to
  the safety properties.  Player and interface addresses are symmetric.
* *Dns.*  Two acceptors look up one address at once and start two resolvers; later lookups
  find it, and the third entry is another address's or a third for the same.  Six lookups
  with `IntMax` 4 take a counter past its end and free the entry.
* *Mempool.*  Four pages are what the longest of the bad behaviours above needs; with
  three chunks a page can be neither full nor about to empty.
* *Alloc.*  Three objects give chains, sharing and cycles of attributes, and two references
  of the caller are what it takes to set one object as an attribute of another.

Deadlock checking is off: a list whose clients have used up their calls, or a
session that is closed, has nothing left to do.  That calls return is the liveness
property `CallsReturn` instead.

Some properties depend on how the lists are used:

* `ListItemsNear` allows for what the calls of the others do.  With two threads removing the
  same node, `list->deleted` is raised twice and lowered once, and `list_items` is wrong from
  then on, below zero as an unsigned long.  Where each datum is removed by one thread
  (`Owned`), which is the server's use, that never happens (`RemovedOnce`, proved), and the
  result is off by the changes during the call only.
* `DeleteComplete` is about a datum inserted by the deleting thread only.
* `OwnDescriptor` holds while at most one accept has failed.  A failed accept closes the player
  that was waiting, whose descriptor is still 0: the first closes the standard
  input, the next connection gets number 0, and the next failure closes that one.
* `WhoSound` leaves out a player that was freed after list_next had returned it: the code
  reads it all the same, and may print anything.  `SharingSound` says that it was allocated
  when list_next returned it.
* `EntriesKept` and `SameAnswer` hold while the references left behind fit into an
  int (`InRange`): after about two thousand million lookups of one address the counter is
  negative, and the next search that passes the entry frees it.
* `NameSound` leaves out names that were copied after another resolver had entered
  gethostbyaddr.  It does not say that a host with a name is cached under it: if
  gethostbyaddr failed when it was asked first, the address stands for the name as long as
  the server runs (`SameAnswer`).
* `LineServed` leaves out an input that ends inside a telnet option (`CutInOption`): the count is
  then negative, and the line waits until the peer leaves.
* `NoDescriptorLeak` is about connections.  The listening descriptors that are `Lost` stay open.
* `QuiescentLoad` bounds the load from above only, in a table whose flag and thresholds were
  never set.
* `PoolSound` holds until `spoiled`.
* `Placed` and `EntriesExact` hold while "hash_func" is not in `raced`, `MarksOrdered` while
  "marks" is not.

Each condition excludes something that the code does: without it, TLC finds the behaviour.

### Fairness

`List!FairSpec` assumes weak fairness of each thread's steps inside a call: the code
blocks on `list->lock` only, and a runnable thread is scheduled.  Starting a call is
not fair.  Weak fairness suffices on the lock because the number of calls is bounded,
so another thread cannot take it for ever.  `ListCount!CountFairSpec` assumes the same;
nobody has to call list_items.

`Session!FairSpec` assumes weak fairness of the thread's own steps: a thread that is
not blocked in select or read runs.  The peer is never obliged to send or to leave, and
select and pthread_detach may fail but need not.

`Server!FairSpec` assumes weak fairness of an acceptor outside accept and of a session
outside select, and strong fairness of `EndSession`: a peer that has gone has left
finitely many lines, so that its session comes to their end (`HangUpCloses`).  Nobody has
to connect, to log in, to call who or to quit.

### Finding

`3w3_hash.h` documents HASH_FROZEN as "Automatic resizing not allowed".  The flag is
tested before hash_rehash takes the lock (`3w3_hash.c:193`), so a thread that has passed the
test resizes the table after another thread's `hash_setflag` has returned.
`hash_frozen` shows it in a few steps.  The server never sets the flag.

## 4. Proofs

All theorems hold for every value of the constants that satisfies the named ASSUMEs
of the component's module, which TLC evaluates in the runs.  Every safety property that a
passing run checks, and every refinement, is the subject of a theorem.

Two means of proof recur.  What one would prove by induction over a list is proved with
sets closed under a pointer, or by looking at a least counterexample (`CommonLemmas`): the
library's induction theorems take an operator as a parameter, which the installed provers
cannot instantiate.  And what counters should be is stated as the cardinality of a set of
reasons (cursors, places, holders), so that a step is an element that comes or goes.

**List** (`ListProofs`), from `ThreadFinite`, `NodeFinite`, `NullNotObject`, `CallsType`,
`MaxCallsNat`.

* *Memory.*  `TypeOK`, `CursorSafe`, `RefcountExact`, `Reclaimed`, `WellLinked` and
  `ItemsExact` are invariants, for any threads, nodes, data and sets of calls, concurrent
  pops included.  None of them is inductive alone.  list_deref decides on the counters, so
  that no cursor stands on the node it frees needs `RefcountExact`; that a call's counters
  are right at its next step needs to know where its cursor is (`Control`); that list_unlink
  writes through allocated neighbours needs `Links`; that a push on a list whose first node
  is its last leaves no other node behind needs `NoCycle`, which says that each non-empty
  set of nodes has an exit along `next`.  `IInv` conjoins these.
* *Walks.*  `ScanComplete` and `DeleteComplete` follow from `WalkInv`.
  Its core is `Ahead`: the nodes that a walk still owes are in every set of nodes that is
  closed under the walk's pointer and holds the node its cursor goes to next (`Reaches`).
  Two lemmas carry it over every step of every other thread: `SpliceReaches` (a node is
  taken out) and `ExtendReaches` (a node is added at an end).  `Pending` says that
  list_delete_data has its datum's nodes among them, `MarkedOnce` that under `Owned` a node
  that is about to be removed was not removed before.
* *list_items.*  In every state `list->deleted` is the number of marked nodes plus
  `surplus`, so that `items - deleted` is the number of live nodes less `surplus` (`Counts`,
  from `ItemsExact`).  Each critical section changes that difference by at most one, and
  either counter by at most one (`StepCount`); so between the two reads the counter
  read first has drifted by at most `changes` (`Drift`), which is `CountInv`.  `ListItemsNear`
  follows, as an action property of `CountSpec`.  `RemovedOnce` is `MarkedOnce` seen from there.
* *Refinement.*  `ImplementsLiveList`: there is exactly one listing of the live nodes such
  that what is later is reached from what is earlier (`OrderedUnique`, since no node is
  reached from itself), and every critical section appends to it, prepends to it, removes
  one element of it, or leaves it as it is.

**Session** (`SessionProofs`), from the ASSUMEs of `Session`: `TypeOK`, `BufferClean`,
`NameValid`, `CountAgrees` are invariants and `LoginLasts` is an action property, for
every buffer size, name limit, alphabet, command table and number of bytes.  `SInv` is
their conjunction.  login_get_name checks the characters up to the first NUL and copies
`length` bytes: that these are the same is `BufferClean`, so `NameValid` rests on it.
The part of `CountAgrees` at the loop's top needs the part after IAC, and the other way round.
`ImplementsLineBuffer`: under `BufferClean` the C string in the buffer is its first
`ibuffer_ptr` bytes, which each byte extends, shortens or clears.  `SessionLineKept`: a
line end that changes no flag, as the second half of a pair, finds `P_READY` set by the first
(`EndsReady`), so that process_input never returns to select with a line end unserved.

**Hash** (`HashProofs`), from `HashFuncType`, `MarksType`, `SizesSuffice`, `OpsType`,
`NoneNotData`, `MaxCallsNat`: `TypeOK`, `Placed`, `EntriesExact`, `QuiescentLoad` and
`MarksOrdered` are invariants.  `IInv` adds what a setter carries from its test to its write
(`Args`, `Replaceable`, `MarksWritten`), that no entry is lost track of (`Counted`), and
`Load`: a load above the mark is some thread's business, which is still to read the
counters.  `Load` is what makes `QuiescentLoad` inductive although the counters are read
without the lock.  That sizes are powers of two enters the proof where a rehash finds a size
for the entries.  The refinement is `Spec /\ []("hash_func" \notin raced) => ImplementsMap`:
once hash_sethashfunction has written while there were entries, lookups miss them and the
table is a map no longer.  No call of the server sets the function.

**Server** (`ServerProofs`), from `ServerSets`, `NullApart`, `Apart`, `FdNat`, `Bounds`.

* `SharingSound`, from `Sharing`: the part of its life each player is in says which lists it
  is in (`InInterfaceList`, `InPlayerList`) and which thread will free it (`Ownership`,
  `Connections`); positions in `player_list` are distinct because one is left for each
  acceptor that has still to push (`Positions`).
* `NoDescriptorLeak` is inductive with `Sharing`.  `OwnDescriptor` needs to know that a
  player without a connection is closed by an acceptor that failed (`Failures`), and that 0
  is the standard input until the failed acceptor has closed it (`OwnDescriptors`).
* `WhoSound` and `WhoComplete` follow the cursor of command_who: the name is whole before
  the flag is (`Names`, `Whole`), and what is still to be shown lies ahead of the cursor or
  under it (`Due`).

**Dns** (`DnsProofs`), from `ThreadsFinite`, `HostType`, `NullApart`, `IntMaxNat`,
`BoundsNat`: `EntriesKept`, `SameAnswer` and `NameSound` are invariants.  `IInv` says what is filled in at
each stage (`Stages`, `Copied`), that the counters are what the list, the cursors and the
hits account for as long as they fit (`Counters`), and that an address has no more entries
than lookups that began before an answer was cached (`Few`), and that a walk leaves
only other addresses behind its cursor, so that it finds the first entry for its own, behind
which every later push goes (`Firsts`).

**Mempool** (`MempoolProofs`), from `CppPositive`, `PagesFinite`, `NullNoPage`.
`ChunksExact` and the action property `Exclusive` come from `Exact`: the counters of each
page agree with its free list and its holders, and a chunk has one holder.  This holds
beyond the corruption of the page list (`spoiled`), up to an access outside the mapped
pages.  `PoolSound` comes from `Linked`: until `spoiled`, there is a sequence of distinct
pages, those that have room, which `mp->pages`, `next` and `prev` link in order; only the
head's `prev` may be out of date.

**Alloc** (`AllocProofs`), from `ValuesDistinct`, `SetsFinite`, `BoundsNat`:
`ReferencesSound` and `NoLeak` are invariants.  `IInv` says that the names in a list are
distinct (`Keyed`), that a count is the references of the caller, the places in attribute
lists and the releases under way (`RcExact`), and who is allocated and who is being given
back (`Lives`, `Freeing`).  `NoLeak` (what is left is reached by the caller, or from a cycle
of attributes) takes, among the objects from which one is reached, the one that reaches the
most: it is held by the caller, or reaches itself.  `ImplementsAttrMap` rests on `Keyed`:
attr_set replaces what attr_get would find.

Only model-checked: the liveness properties `CallsReturn`, `HangUpCloses`, `LineServed`,
`Departs` and `AcceptorReturns`, because fairness and ENABLED are outside the
prover's reach.  The violation in `hash_frozen` is a behaviour, and needs no proof.

## 5. Plan

Done: `List`, `Session`, `Hash`, `Server`, `Dns`, `Mempool` and `Alloc` with their runs, and
proofs of all their safety properties and refinements.

Left:

1. `Server` uses the lists as atomic ones, and `ListImplementsLiveList`, `ListScanComplete`
   and `ListDeleteComplete` are the reasons why it may.  A module that puts one such list
   under the players of `Server`, instead of an argument in this text, would need the
   products of both state spaces.
2. Action properties that only the proofs use so far: for instance, that an object of
   `Alloc` is destroyed once in each of its lives.
3. Shorter proofs: `Hash` and `Mempool` repeat facts about powers of two and about functions
   that could be lemmas.

## 6. Not modelled

* `src/sqlite/` and `src/pcre/`: vendored libraries, more than nine tenths of the
  repository's lines.  The server calls neither; main prints SQLite's version number.  A
  model of them would say nothing about this program, so the share of the whole
  repository that is mapped stays very small.  Of the server's own code, `src/src/`,
  about half of all lines are mapped, and most of the rest are includes, declarations
  and the parts below.
* The configuration reader: the call is compiled out (`#if 0`) and nothing reads the options.
* The logger and afunix: never called.
* The banner file: read once before any thread starts; `dfile_get` hands out the same
  pointer.  Its missing NUL is among the hazards.
* The functions that only write to a peer (`socket_write`, `socket_writef`,
  `socket_prompt`), option parsing, and the messages on stderr.
* `hash_destroy`, which nothing calls.
