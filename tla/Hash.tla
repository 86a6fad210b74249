-------------------------------- MODULE Hash --------------------------------
(***************************************************************************)
(* The resizing hash table of 3w3_hash.c, shared by threads (the server's  *)
(* command_hash is created with locking on).                               *)
(*                                                                         *)
(* An operation searches and changes the table in one critical section;    *)
(* after it, without the lock, it reads ht->flags, ht->entries and         *)
(* ht->size to decide about a resize, and hash_rehash takes the lock again.*)
(* The chains are kept as a set: each entry carries the bucket it is in.   *)
(***************************************************************************)
EXTENDS Integers, Sequences, FiniteSets, FiniteSetsExt

CONSTANTS
  Thread, Key, Data, None,
  HashFunc,   \* the hash functions, hash_func first: the hash each gives a key
  Marks,      \* the thresholds clients set, in twentieths
  InitSize,   \* the size given to hash_new
  Ops,        \* per thread: the operations it calls
  MaxCalls,   \* bound: how many calls each thread makes
  MaxEntries  \* bound: how many entries there is memory for

OpName == {"hash_search", "hash_find", "hash_replace", "hash_delete", "hash_keys",
           "hash_rehash", "hash_setflag", "hash_clearflag", "hash_setthresholds",
           "hash_sethashfunction"}

ASSUME HashFuncType == HashFunc \in Seq([Key -> Nat]) /\ HashFunc # <<>>
ASSUME MarksType    == Marks \subseteq 1..20
\* The sizes hash_size counts through (without the last, 2^31).  Any pair of marks asks
\* for at most twenty buckets an entry, and the largest size is enough for that.
Sizes == {2^i : i \in 0..30}

ASSUME SizesSuffice == InitSize \in 0..2^30 /\ MaxEntries \in Nat /\ 20 * MaxEntries <= 2^30
ASSUME OpsType      == Ops \in [Thread -> SUBSET OpName]
ASSUME NoneNotData  == None \notin Data
ASSUME MaxCallsNat  == MaxCalls \in Nat

VARIABLES
  size, entries, table,   \* ht->size, ht->entries and the entries themselves
  frozen,                 \* HASH_FROZEN in ht->flags
  func,                   \* ht->hash_func
  low_mark, high_mark,    \* in twentieths
  pc,                     \* per thread: the step of the resize decision
  mark, seen,             \* per thread: the threshold to test, ht->entries as read
  arg,                    \* per thread: what its setter is about to write
  ret,                    \* per thread: the result of its last call
  left,                   \* per thread: calls still to make
  tuned,                  \* history: HASH_FROZEN or the thresholds have been set some time
  raced                   \* history: the setters whose test was outdated when they wrote

tableVars == <<size, entries, table>>
configVars == <<frozen, tuned, func, low_mark, high_mark>>
vars == <<tableVars, configVars, pc, mark, seen, arg, ret, left, raced>>

Entry == [key : Key, data : Data, slot : Nat]

\* The table's fields have their types, and ht->size is a power of two, without which the
\* mask in hash_value would miss buckets.
TypeOK ==
  /\ size \in Sizes
  /\ entries \in 0..MaxEntries
  /\ table \in SUBSET Entry
  /\ frozen \in BOOLEAN
  /\ pc \in [Thread -> {"idle", "flags", "entries", "size", "rehash", "keys",
                     "hash_func", "high_mark", "low_mark"}]
  /\ mark \in [Thread -> {"high", "low"}]
  /\ seen \in [Thread -> Nat]
  /\ arg \in [Thread -> Seq(Nat)]
  /\ left \in [Thread -> 0..MaxCalls]
  /\ tuned \in BOOLEAN
  /\ func \in 1..Len(HashFunc)
  /\ low_mark \in 1..20
  /\ high_mark \in 1..20
  /\ raced \subseteq {"hash_func", "marks"}

\* Mutant: the size is not rounded to a power of two.
hash_size_NoRounding(s) == s

\* The least power of two that is not below s.
hash_size(s) == Min({p \in Sizes : p >= s})

\* ht->hash_func(key) & (s - 1), for s a power of two.
hash_value(k, s) == HashFunc[func][k] % s

\* hash_new
Init ==
  /\ size = hash_size(InitSize)
  /\ entries = 0
  /\ table = {}
  /\ frozen = FALSE
  /\ pc = [t \in Thread |-> "idle"]
  /\ mark = [t \in Thread |-> "high"]
  /\ seen = [t \in Thread |-> 0]
  /\ ret = [t \in Thread |-> <<0, None>>]
  /\ left = [t \in Thread |-> MaxCalls]
  /\ tuned = FALSE
  /\ func = 1
  /\ low_mark = 6
  /\ high_mark = 14
  /\ arg = [t \in Thread |-> <<>>]
  /\ raced = {}

-----------------------------------------------------------------------------
(* The critical sections *)

\* Mutant: the lookup masks with twice the size.
Hits_WrongMask(k) == {e \in table : e.slot = hash_value(k, 2 * size) /\ e.key = k}

\* The entries of bucket hv that hash_cmp says have key k.
Hits(k) == {e \in table : e.slot = hash_value(k, size) /\ e.key = k}
Hit(k)  == CHOOSE e \in Hits(k) : TRUE

\* A thread stands between the test of a setter and the writes that rely on it.
Setting(step) == \E t \in Thread : pc[t] \in step

Outdates(setter, step) == raced' = raced \cup (IF Setting(step) THEN {setter} ELSE {})

hash_addentry(k, d) ==
  /\ entries < MaxEntries
  /\ table' = table \cup {[key |-> k, data |-> d, slot |-> hash_value(k, size)]}
  /\ entries' = entries + 1
  /\ Outdates("hash_func", {"hash_func"})

Calling(t, o) ==
  /\ o \in Ops[t]
  /\ pc[t] = "idle"
  /\ left[t] > 0
  /\ left' = [left EXCEPT ![t] = @ - 1]

Return(t, r) == ret' = [ret EXCEPT ![t] = r]

\* A new entry is followed by a look at high_mark, a failed delete at low_mark.
DecideResize(t, m) ==
  /\ pc' = [pc EXCEPT ![t] = "flags"]
  /\ mark' = [mark EXCEPT ![t] = m]

hash_search(t, k, d) ==
  /\ Calling(t, "hash_search")
  /\ IF Hits(k) = {}
     THEN hash_addentry(k, d) /\ Return(t, <<1, d>>) /\ DecideResize(t, "high")
     ELSE Return(t, <<0, Hit(k).data>>) /\ UNCHANGED <<table, entries, pc, mark, raced>>
  /\ UNCHANGED <<size, configVars, seen, arg>>

hash_find(t, k) ==
  /\ Calling(t, "hash_find")
  /\ Return(t, IF Hits(k) = {} THEN <<1, None>> ELSE <<0, Hit(k).data>>)
  /\ UNCHANGED <<tableVars, configVars, pc, mark, seen, arg, raced>>

hash_replace(t, k, d) ==
  /\ Calling(t, "hash_replace")
  /\ IF Hits(k) = {}
     THEN hash_addentry(k, d) /\ Return(t, <<1, None>>) /\ DecideResize(t, "high")
     ELSE /\ table' = (table \ {Hit(k)}) \cup {[Hit(k) EXCEPT !.data = d]}
          /\ Return(t, <<0, Hit(k).data>>)
          /\ UNCHANGED <<entries, pc, mark, raced>>
  /\ UNCHANGED <<size, configVars, seen, arg>>

hash_delete(t, k) ==
  /\ Calling(t, "hash_delete")
  /\ IF Hits(k) = {}
     THEN Return(t, <<1, None>>) /\ DecideResize(t, "low") /\ UNCHANGED <<table, entries>>
     ELSE /\ table' = table \ {Hit(k)}
          /\ entries' = entries - 1
          /\ Return(t, <<0, Hit(k).data>>)
          /\ UNCHANGED <<pc, mark>>
  /\ UNCHANGED <<size, configVars, seen, arg, raced>>

\* The size that puts the load for n entries between the marks; for the marks that
\* hash_new sets, twice n.
NewSize(n) == hash_size((40 * n) \div (high_mark + low_mark))

\* Mutant: a chain keeps one entry only.
Rehash_CutsChains ==
  LET ns    == NewSize(entries)
      moved == {[e EXCEPT !.slot = hash_value(e.key, ns)] : e \in table}
  IN  /\ size' = ns
      /\ table' = {e \in moved : e = CHOOSE f \in moved : f.slot = e.slot}

\* Put every entry in its bucket of a table of the new size.
Rehash ==
  LET ns == NewSize(entries)
  IN  IF ns = size
      THEN UNCHANGED <<size, table>>
      ELSE /\ size' = ns
           /\ table' = {[e EXCEPT !.slot = hash_value(e.key, ns)] : e \in table}

\* hash_rehash called by a client.
hash_rehash(t) ==
  /\ Calling(t, "hash_rehash")
  /\ Rehash
  /\ UNCHANGED <<entries, configVars, pc, mark, seen, arg, ret, raced>>

\* hash_setflag and hash_clearflag with HASH_FROZEN; hash_setflags does either.
SetFrozen(t, on) ==
  /\ Calling(t, IF on THEN "hash_setflag" ELSE "hash_clearflag")
  /\ frozen' = on
  /\ tuned' = (tuned \/ on)
  /\ UNCHANGED <<tableVars, func, low_mark, high_mark, pc, mark, seen, arg, ret, raced>>

\* Mutant: the function of a table with entries is changed.
hash_sethashfunction_Unchecked(t, f) ==
  /\ Calling(t, "hash_sethashfunction")
  /\ arg' = [arg EXCEPT ![t] = <<f>>]
  /\ pc' = [pc EXCEPT ![t] = "hash_func"]
  /\ UNCHANGED <<tableVars, configVars, mark, seen, ret, raced>>

\* hash_sethashfunction tests ht->entries and writes ht->hash_func without the lock.
hash_sethashfunction(t, f) ==
  /\ Calling(t, "hash_sethashfunction")
  /\ IF entries # 0
     THEN UNCHANGED <<pc, arg>>
     ELSE arg' = [arg EXCEPT ![t] = <<f>>] /\ pc' = [pc EXCEPT ![t] = "hash_func"]
  /\ UNCHANGED <<tableVars, configVars, mark, seen, ret, raced>>

WriteHashFunc(t) ==
  /\ pc[t] = "hash_func"
  /\ func' = arg[t][1]
  /\ pc' = [pc EXCEPT ![t] = "idle"]
  /\ arg' = [arg EXCEPT ![t] = <<>>]
  /\ UNCHANGED <<tableVars, frozen, tuned, low_mark, high_mark, mark, seen, ret, left, raced>>

\* Mutant: only thresholds that are both given are compared.
BadMarks_GivenOnly(l, h) == l > 0 /\ h > 0 /\ h < l

\* A mark that is not given (0 here, negative in the code) stays as it is.
Given(m, old) == IF m = 0 THEN old ELSE m

BadMarks(l, h) == Given(h, high_mark) < Given(l, low_mark)

\* hash_setthresholds tests the marks it would leave, then writes them one by one,
\* without the lock.
hash_setthresholds(t, l, h) ==
  /\ Calling(t, "hash_setthresholds")
  /\ IF BadMarks(l, h)
     THEN UNCHANGED <<pc, arg, raced>>
     ELSE /\ arg' = [arg EXCEPT ![t] = <<Given(l, low_mark), Given(h, high_mark)>>]
          /\ pc' = [pc EXCEPT ![t] = "high_mark"]
          /\ Outdates("marks", {"high_mark", "low_mark"})
  /\ tuned' = TRUE
  /\ UNCHANGED <<tableVars, frozen, func, low_mark, high_mark, mark, seen, ret>>

WriteHighMark(t) ==
  /\ pc[t] = "high_mark"
  /\ high_mark' = arg[t][2]
  /\ pc' = [pc EXCEPT ![t] = "low_mark"]
  /\ UNCHANGED <<tableVars, frozen, tuned, func, low_mark, mark, seen, arg, ret, left, raced>>

WriteLowMark(t) ==
  /\ pc[t] = "low_mark"
  /\ low_mark' = arg[t][1]
  /\ pc' = [pc EXCEPT ![t] = "idle"]
  /\ arg' = [arg EXCEPT ![t] = <<>>]
  /\ UNCHANGED <<tableVars, frozen, tuned, func, high_mark, mark, seen, ret, left, raced>>

\* hash_keys tests ht->entries before it takes the lock.
hash_keys(t) ==
  /\ Calling(t, "hash_keys")
  /\ IF entries = 0
     THEN Return(t, <<0, {}>>) /\ UNCHANGED pc
     ELSE pc' = [pc EXCEPT ![t] = "keys"] /\ UNCHANGED ret
  /\ UNCHANGED <<tableVars, configVars, mark, seen, arg, raced>>

CopyKeys(t) ==
  /\ pc[t] = "keys"
  /\ Return(t, <<entries, {e.key : e \in table}>>)
  /\ pc' = [pc EXCEPT ![t] = "idle"]
  /\ UNCHANGED <<tableVars, configVars, mark, seen, arg, left, raced>>

-----------------------------------------------------------------------------
(* The resize decision, outside the lock *)

ReadFlags(t) ==
  /\ pc[t] = "flags"
  /\ pc' = [pc EXCEPT ![t] = IF frozen THEN "idle" ELSE "entries"]
  /\ UNCHANGED <<tableVars, configVars, mark, seen, arg, ret, left, raced>>

ReadEntries(t) ==
  /\ pc[t] = "entries"
  /\ seen' = [seen EXCEPT ![t] = entries]
  /\ pc' = [pc EXCEPT ![t] = "size"]
  /\ UNCHANGED <<tableVars, configVars, mark, arg, ret, left, raced>>

\* entries / size > high_mark and entries / size < low_mark
OverMark(m, n, s) == IF m = "high" THEN 20 * n > high_mark * s ELSE 20 * n < low_mark * s

ReadSize(t) ==
  /\ pc[t] = "size"
  /\ pc' = [pc EXCEPT ![t] = IF OverMark(mark[t], seen[t], size) THEN "rehash" ELSE "idle"]
  /\ UNCHANGED <<tableVars, configVars, mark, seen, arg, ret, left, raced>>

\* Mutant: the new size follows from the count read before the lock was taken.
AutoRehash_StaleCount(t) ==
  LET ns == NewSize(seen[t])
  IN  /\ pc[t] = "rehash"
      /\ size' = ns
      /\ table' = {[e EXCEPT !.slot = hash_value(e.key, ns)] : e \in table}
      /\ pc' = [pc EXCEPT ![t] = "idle"]
      /\ UNCHANGED <<entries, configVars, mark, seen, arg, ret, left, raced>>

AutoRehash(t) ==
  /\ pc[t] = "rehash"
  /\ Rehash
  /\ pc' = [pc EXCEPT ![t] = "idle"]
  /\ UNCHANGED <<entries, configVars, mark, seen, arg, ret, left, raced>>

Step(t) ==
  \/ ReadFlags(t) \/ ReadEntries(t) \/ ReadSize(t) \/ AutoRehash(t) \/ CopyKeys(t)
  \/ WriteHashFunc(t) \/ WriteHighMark(t) \/ WriteLowMark(t)

Next ==
  \E t \in Thread :
    \/ Step(t)
    \/ hash_rehash(t)
    \/ hash_keys(t)
    \/ \E on \in BOOLEAN : SetFrozen(t, on)
    \/ \E f \in 1..Len(HashFunc) : hash_sethashfunction(t, f)
    \/ \E l, h \in Marks \cup {0} : hash_setthresholds(t, l, h)
    \/ \E k \in Key : hash_find(t, k) \/ hash_delete(t, k)
    \/ \E k \in Key, d \in Data : hash_search(t, k, d) \/ hash_replace(t, k, d)

Spec == Init /\ [][Next]_vars

-----------------------------------------------------------------------------
(* Properties *)

\* Every entry is in the bucket where a lookup with the current size searches,
\* also when the resizes of several threads interleave with inserts, and when the
\* hash function is changed, unless an insert came between the test and the change.
Placed == "hash_func" \notin raced => \A e \in table : e.slot = hash_value(e.key, size)

\* ht->entries is the number of entries, which hash_keys sizes its array by, and no key has
\* two: hash_search and hash_replace look before they add, where Placed holds.
EntriesExact ==
  "hash_func" \notin raced =>
    /\ entries = Cardinality(table)
    /\ \A e, f \in table : e.key = f.key => e = f

\* When every call has returned, and if neither HASH_FROZEN nor a threshold was ever set,
\* the load is at most high_mark, although each thread decides on stale counts without the
\* lock.  There is no such bound from below: low_mark is looked at after a failed delete only.
QuiescentLoad ==
  (\A t \in Thread : pc[t] = "idle") /\ ~tuned => 20 * entries <= high_mark * size

\* The thresholds are in order again after every hash_setthresholds, whichever marks
\* it was given, unless two of them overlapped.
MarksOrdered ==
  "marks" \notin raced /\ ~Setting({"high_mark", "low_mark"}) => low_mark <= high_mark

\* HASH_FROZEN: "Automatic resizing not allowed" (3w3_hash.h).
FrozenMeansNoResize ==
  [][frozen /\ (\E t \in Thread : AutoRehash(t)) => size' = size]_vars

\* The map the table stands for, as a lookup sees it.
Lookup == [k \in Key |-> IF Hits(k) = {} THEN None ELSE Hit(k).data]

Abstract == INSTANCE KVMap WITH map <- Lookup

\* Every operation takes effect at once and returns what a map would return;
\* resizing is invisible.
ImplementsMap == Abstract!Spec
=============================================================================
