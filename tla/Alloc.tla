------------------------------- MODULE Alloc -------------------------------
(***************************************************************************)
(* The reference-counted allocation of 3w3_alloc.c and the attributes an   *)
(* object carries.                                                         *)
(*                                                                         *)
(* A value is plain data (its ref and free functions are NULL) or an       *)
(* object, set with ref and FREE: attr_set takes over a reference of the   *)
(* caller, attr_get gives it a new one.  FREE then recurses through the    *)
(* attributes; todo is its stack: values to release (FREE for an object,   *)
(* nothing for plain data) and memory to give back.  The code has no lock: *)
(* one thread runs it.                                                     *)
(***************************************************************************)
EXTENDS Integers, Sequences, FiniteSets, SequencesExt

CONSTANTS
  Obj,       \* the objects malloc can supply
  Datum,     \* plain values
  Name,      \* names of attributes
  None,      \* NULL
  MaxRefs,   \* bound: references the caller holds at a time
  MaxAttrs   \* bound: the n of attr_getall

Value == Obj \cup Datum

ASSUME ValuesDistinct == None \notin Value /\ Obj \cap Datum = {}
ASSUME SetsFinite     == IsFiniteSet(Obj) /\ IsFiniteSet(Name)
ASSUME BoundsNat      == MaxRefs \in Nat /\ MaxAttrs \in Nat

VARIABLES
  live,      \* the objects whose memory is allocated
  rc, attr,  \* fields of alloc_t
  todo,      \* what the running call has still to do
  refs,      \* per object: the references the caller holds
  ret,       \* the result of the last call, if it was attr_get or attr_getall
  destroyed  \* history: tca->free calls for an object since it was allocated

vars == <<live, rc, attr, todo, refs, ret, destroyed>>

Attri == [name : Name, value : Value]

\* Every field has its type; rc is never negative.
TypeOK ==
  /\ live \in SUBSET Obj
  /\ rc \in [Obj -> Nat]
  /\ attr \in [Obj -> Seq(Attri)]
  /\ todo \in Seq(({"FREE"} \X Value) \cup ({"free"} \X Obj))
  /\ refs \in [Obj -> Nat]
  /\ ret \in Seq(Name \X (Value \cup {None})) \cup (Name \X (Value \cup {None}))
  /\ destroyed \in [Obj -> Nat]

Init ==
  /\ live = {}
  /\ rc = [o \in Obj |-> 0]
  /\ attr = [o \in Obj |-> <<>>]
  /\ todo = <<>>
  /\ refs = [o \in Obj |-> 0]
  /\ ret = <<>>
  /\ destroyed = [o \in Obj |-> 0]

\* The caller can begin another call.
Idle == todo = <<>>

Held(o) == Idle /\ refs[o] > 0

\* The caller can take k more references.
Room(k) == MapThenSumSet(LAMBDA o : refs[o], Obj) + k <= MaxRefs

-----------------------------------------------------------------------------
(* allocd, ref, FREE *)

allocd(o) ==
  /\ Idle /\ Room(1)
  /\ o \notin live
  /\ live' = live \cup {o}
  /\ rc' = [rc EXCEPT ![o] = 1]
  /\ attr' = [attr EXCEPT ![o] = <<>>]
  /\ refs' = [refs EXCEPT ![o] = 1]
  /\ destroyed' = [destroyed EXCEPT ![o] = 0]
  /\ ret' = <<>>
  /\ UNCHANGED todo

\* ref for each object in a sequence of values: the caller has the references then.
Occurrences(s, o) == Cardinality({i \in 1..Len(s) : s[i] = o})

RefAll(s) ==
  /\ Room(Cardinality({i \in 1..Len(s) : s[i] \in Obj}))
  /\ rc' = [o \in Obj |-> rc[o] + Occurrences(s, o)]
  /\ refs' = [o \in Obj |-> refs[o] + Occurrences(s, o)]

ref(o) ==
  /\ Held(o)
  /\ RefAll(<<o>>)
  /\ ret' = <<>>
  /\ UNCHANGED <<live, attr, todo, destroyed>>

\* The caller calls FREE.
CallFREE(o) ==
  /\ Held(o)
  /\ refs' = [refs EXCEPT ![o] = @ - 1]
  /\ todo' = <<<<"FREE", o>>>>
  /\ ret' = <<>>
  /\ UNCHANGED <<live, rc, attr, destroyed>>

\* Mutant: the attributes are forgotten.
Releases_Forgets(s) == <<>>

Releases(s) == [i \in 1..Len(s) |-> <<"FREE", s[i].value>>]

LastReference(o) == rc[o] = 1

\* FREE: the last reference runs the destructor and releases the attributes before
\* the memory itself.
FREE(o) ==
  /\ todo # <<>> /\ Head(todo) = <<"FREE", o>>
  /\ rc' = [rc EXCEPT ![o] = @ - 1]
  /\ IF LastReference(o)
     THEN /\ destroyed' = [destroyed EXCEPT ![o] = @ + 1]
          /\ todo' = Releases(attr[o]) \o <<<<"free", o>>>> \o Tail(todo)
          /\ attr' = [attr EXCEPT ![o] = <<>>]
     ELSE /\ todo' = Tail(todo)
          /\ UNCHANGED <<destroyed, attr>>
  /\ ret' = <<>>
  /\ UNCHANGED <<live, refs>>

\* attr_free of an attribute with plain data: there is no free function to call.
attr_free(d) ==
  /\ todo # <<>> /\ Head(todo) = <<"FREE", d>>
  /\ todo' = Tail(todo)
  /\ ret' = <<>>
  /\ UNCHANGED <<live, rc, attr, refs, destroyed>>

free(o) ==
  /\ todo # <<>> /\ Head(todo) = <<"free", o>>
  /\ live' = live \ {o}
  /\ todo' = Tail(todo)
  /\ ret' = <<>>
  /\ UNCHANGED <<rc, attr, refs, destroyed>>

-----------------------------------------------------------------------------
(* Attributes *)

\* Where the attribute is in the list, or 0.
Position(s, n) == SelectInSeq(s, LAMBDA a : a.name = n)

\* The value that attr_get finds.
Lookup(o, n) ==
  LET i == Position(attr[o], n)
  IN  IF i = 0 THEN None ELSE attr[o][i].value

\* Mutant: the last attribute is taken for another without a look at its name.
NewList_AppendsAtLast(s, n, v) ==
  LET i == Position(s, n)
  IN  IF i = 0 \/ i = Len(s) THEN Append(s, [name |-> n, value |-> v])
      ELSE ReplaceAt(s, i, [name |-> n, value |-> v])

\* The list after attr_set: the attribute is replaced in place, or appended.
NewList(s, n, v) ==
  LET i == Position(s, n)
  IN  IF i = 0 THEN Append(s, [name |-> n, value |-> v])
      ELSE ReplaceAt(s, i, [name |-> n, value |-> v])

\* attr_free of the attribute that is replaced or deleted.
OldValue(o, n) ==
  IF Position(attr[o], n) = 0 THEN <<>> ELSE <<<<"FREE", Lookup(o, n)>>>>

\* The caller passes on a reference with an object.  It must keep one on o itself, on
\* which it calls.
attr_set(o, n, v) ==
  /\ Held(o)
  /\ v \in Obj => refs[v] > (IF v = o THEN 1 ELSE 0)
  /\ refs' = [x \in Obj |-> IF x = v THEN refs[x] - 1 ELSE refs[x]]
  /\ attr' = [attr EXCEPT ![o] = NewList(@, n, v)]
  /\ todo' = OldValue(o, n)
  /\ ret' = <<>>
  /\ UNCHANGED <<live, rc, destroyed>>

\* Mutant: no reference is taken for the caller.
attr_get_NoReference(o, n) ==
  /\ Held(o)
  /\ ret' = <<n, Lookup(o, n)>>
  /\ refs' = [x \in Obj |-> IF x = Lookup(o, n) /\ Room(1) THEN refs[x] + 1 ELSE refs[x]]
  /\ UNCHANGED <<live, rc, attr, todo, destroyed>>

attr_get(o, n) ==
  /\ Held(o)
  /\ ret' = <<n, Lookup(o, n)>>
  /\ RefAll(<<Lookup(o, n)>>)
  /\ UNCHANGED <<live, attr, todo, destroyed>>

\* The first k attributes.
attr_getall(o, k) ==
  LET s == SubSeq(attr[o], 1, IF k < Len(attr[o]) THEN k ELSE Len(attr[o]))
  IN  /\ Held(o)
      /\ ret' = [i \in 1..Len(s) |-> <<s[i].name, s[i].value>>]
      /\ RefAll([i \in 1..Len(s) |-> s[i].value])
      /\ UNCHANGED <<live, attr, todo, destroyed>>

attr_del(o, n) ==
  /\ Held(o)
  /\ LET i == Position(attr[o], n)
     IN  attr' = [attr EXCEPT ![o] = IF i = 0 THEN @ ELSE RemoveAt(@, i)]
  /\ todo' = OldValue(o, n)
  /\ ret' = <<>>
  /\ UNCHANGED <<live, rc, refs, destroyed>>

-----------------------------------------------------------------------------
Step ==
  \/ \E o \in Obj : FREE(o) \/ free(o)
  \/ \E d \in Datum : attr_free(d)

Next ==
  \/ Step
  \/ \E o \in Obj :
       \/ allocd(o) \/ ref(o) \/ CallFREE(o)
       \/ \E n \in Name : attr_get(o, n) \/ attr_del(o, n) \/ \E v \in Value : attr_set(o, n, v)
       \/ \E k \in 0..MaxAttrs : attr_getall(o, k)

Spec == Init /\ [][Next]_vars

-----------------------------------------------------------------------------
(* Properties *)

\* Where the attributes are: an object and a place in its list.
Pairs == UNION {{o} \X (1..Len(attr[o])) : o \in Obj}

\* The attributes whose value is x.
Places(x) == {p \in Pairs : attr[p[1]][p[2]].value = x}

\* rc counts the caller's references, the attributes that hold the object and the
\* FREE calls under way.
RcExact ==
  \A o \in Obj :
    rc[o] = refs[o] + Cardinality(Places(o)) + Occurrences(todo, <<"FREE", o>>)

\* What the caller or an attribute refers to is allocated and not destroyed, and so is
\* what FREE is about to look at.
NoDangling ==
  /\ \A o \in Obj : refs[o] > 0 => o \in live /\ destroyed[o] = 0
  /\ \A p \in Pairs : LET v == attr[p[1]][p[2]].value
                      IN  v \in Obj => v \in live /\ destroyed[v] = 0
  /\ \A i \in 1..Len(todo) : todo[i][2] \in Obj => todo[i][2] \in live

\* No reference is lost or counted twice, in whatever order attributes are set, replaced,
\* fetched and deleted: FREE destroys an object once, and when nothing refers to it.
ReferencesSound ==
  TypeOK /\ RcExact /\ NoDangling /\ \A o \in Obj : destroyed[o] <= 1

\* The values of the attributes of o.
Values(o) == {attr[o][i].value : i \in 1..Len(attr[o])}

\* Which objects are reached from o along one attribute or more: those in every set that
\* holds what o refers to and what its members refer to.
Reached(o) ==
  {x \in Obj : \A S \in SUBSET Obj :
     (\A y \in S \cup {o} : Values(y) \cap Obj \subseteq S) => x \in S}

\* When no call is under way, an object that the caller cannot reach has been freed,
\* unless a cycle of attributes keeps it.
NoLeak ==
  Idle => \A o \in live : \E x \in Obj :
            /\ refs[x] > 0 \/ x \in Reached(x)
            /\ x = o \/ o \in Reached(x)

\* The attributes of an object are a map: a name has one value, the last one set.
Attributes == INSTANCE AttrMap WITH map <- [o \in Obj |-> [n \in Name |-> Lookup(o, n)]]

ImplementsAttrMap == Attributes!Spec
=============================================================================
