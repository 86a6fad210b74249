---------------------------- MODULE ServerProofs ----------------------------
(***************************************************************************)
(* Proofs about Server, for every number of interfaces, players,           *)
(* descriptors, addresses, connections and hang-ups.                       *)
(***************************************************************************)
EXTENDS Server, CommonLemmas, FiniteSetTheorems, TLAPS

\* Where an acceptor holds a player, and in which part of its life the player is.
Ownership ==
  /\ \A l \in Listener :
       /\ apc[l] \in {"none", "start", "loop", "exit"} => new_player[l] = NULL
       /\ apc[l] \in {"accept", "push1", "push2", "create"} => new_player[l] # NULL
       /\ new_player[l] # NULL =>
            /\ home[new_player[l]] = l
            /\ apc[l] # "wait" => pc[new_player[l]] = "new"
            /\ apc[l] = "wait" => pc[new_player[l]] \in Closing
  /\ \A p \in Player :
       /\ pc[p] = "none" <=> p \notin players
       /\ p \in players => home[p] \in Listener
       /\ pc[p] = "new" => new_player[home[p]] = p

\* An interface is allocated from its creation until its acceptor releases it, and
\* by then it has left the two lists.
Interfaces ==
  /\ mpc \in {"register", "spawn"} => up \in listeners /\ apc[up] = "none"
  /\ \A l \in Listener : apc[l] \notin {"none", "wait", "exit"} => l \in listeners
  /\ \A l \in interface_list : l \in listeners /\ apc[l] # "release"
  /\ \A l \in socket_list : l \in listeners /\ apc[l] \notin {"drop2", "release"}

\* Which players are in the list of their interface.
InInterfaceList ==
  /\ \A l \in Listener, p \in Player : p \in plist[l] =>
       /\ home[p] = l
       /\ pc[p] \in InUse \cup {"new", "close", "unlink"}
       /\ pc[p] = "new" => apc[l] \in {"push2", "create"}
  /\ \A p \in Player : pc[p] \in InUse => p \in plist[home[p]]
  /\ \A l \in Listener : apc[l] \in {"push2", "create"} => new_player[l] \in plist[l]

\* Which players are in player_list, and that their entries differ in who and at.
InPlayerList ==
  /\ \A e \in player_list :
       /\ pc[e.who] \in InUse \cup {"new", "close", "unlink", "unlist"}
       /\ pc[e.who] = "new" => apc[home[e.who]] = "create"
       /\ pc[e.who] # "unlist" => e.who \in plist[home[e.who]]
       /\ conn[e.who] # 0
  /\ \A p \in Player : pc[p] \in InUse => \E e \in player_list : e.who = p
  /\ \A l \in Listener : apc[l] = "create" => \E e \in player_list : e.who = new_player[l]
  /\ \A d, e \in player_list : d.who = e.who \/ d.at = e.at => d = e

\* The acceptors that have a connection to push.
Pending == {l \in Listener : apc[l] \in {"push1", "push2"}}

\* The positions given out so far leave one for every connection still to push.
Positions ==
  /\ Cardinality(Pending) <= accepted
  /\ \A e \in player_list : e.at + Cardinality(Pending) <= accepted
  /\ \A p \in Player : cursor[p] + Cardinality(Pending) <= accepted

\* Every connection has one player, and a player whose acceptor waits has none.
Connections ==
  /\ \A p \in Player : conn[p] <= accepted
  /\ \A p, q \in Player : conn[p] = conn[q] /\ conn[p] # 0 => p = q
  /\ \A p \in Player : conn[p] = 0 => fd[p] = 0 /\ pc[p] \notin InUse
  /\ \A p \in Player : pc[p] = "none" => conn[p] = 0
  /\ \A l \in Listener :
       /\ apc[l] \in {"push1", "push2", "create"} => conn[new_player[l]] # 0
       /\ apc[l] \in {"accept", "shut", "drop1", "drop2", "release"} /\ new_player[l] # NULL =>
            conn[new_player[l]] = 0

\* The inductive invariant of SharingSound.
Sharing ==
  /\ TypeOK
  /\ Ownership
  /\ Interfaces
  /\ InInterfaceList
  /\ InPlayerList
  /\ Positions
  /\ Connections

-----------------------------------------------------------------------------
(* The steps *)

\* The steps of a session between its start and its player_close.
Inside(p) ==
  \/ WriteName(p) \/ SetLoggedIn(p)
  \/ BeginWho(p) \/ NextPlayer(p) \/ EndWho(p) \/ ReadFlags(p) \/ PrintName(p)
Leaves(p) == EndSession(p) \/ QuitSession(p)

USE DEF memVars, listVars, fieldVars, mainVars, acceptVars, whoVars, worldVars

\* list_next gives command_who the first entry ahead of its cursor.
LEMMA FirstAhead ==
  ASSUME TypeOK, NEW p \in Player, Ahead(p) # {}
  PROVE  LET d == CHOOSE d \in Ahead(p) : \A o \in Ahead(p) : d.at <= o.at
         IN  d \in Ahead(p) /\ \A o \in Ahead(p) : d.at <= o.at
<1> DEFINE S == {e.at : e \in Ahead(p)}
<1>1. \A e \in Ahead(p) : e \in player_list /\ e.at \in Nat
  BY Bounds DEF Ahead, TypeOK, Conn
<1>2. S \in SUBSET Nat /\ S # {}
  BY <1>1
<1>3. \E x \in S : \A y \in S : x <= y
  BY <1>2, LeastNatural
<1>4. \E d \in Ahead(p) : \A o \in Ahead(p) : d.at <= o.at
  BY <1>3
<1> QED BY <1>4

\* list_push gives the new entry a position behind every entry and every cursor, and
\* one that the connections accepted so far leave free.
LEMMA PushedAt ==
  ASSUME TypeOK, Positions, NEW l \in Listener, apc[l] = "push2", NEW q
  PROVE  \E k \in Conn :
           /\ Pushed(q) = player_list \cup {[at |-> k, who |-> q]}
           /\ \A e \in player_list : e.at < k
           /\ \A p \in Player : cursor[p] < k
           /\ k + Cardinality(Pending) - 1 <= accepted
<1> DEFINE S == {0} \cup {e.at : e \in player_list} \cup Range(cursor)
<1>1. IsFiniteSet(Pending) /\ Cardinality(Pending) \in Nat /\ Cardinality(Pending) # 0
  <2>1. IsFiniteSet(Pending)
    BY ServerSets, FS_Subset DEF Pending
  <2>2. l \in Pending
    BY DEF Pending
  <2> QED BY <2>1, <2>2, FS_CardinalityType, FS_EmptySet
<1>2. accepted \in Nat /\ MaxConns \in Nat /\ accepted <= MaxConns
  BY Bounds DEF TypeOK, Conn
<1>3. \A x \in S : x \in Nat /\ x + Cardinality(Pending) <= accepted
  <2>1. \A e \in player_list : e.at \in Nat
    BY Bounds DEF TypeOK, Conn
  <2>2. Range(cursor) = {cursor[p] : p \in Player} /\ \A p \in Player : cursor[p] \in Nat
    BY Bounds DEF Range, TypeOK, Conn
  <2> QED BY <2>1, <2>2, <1>1, <1>2 DEF Positions
<1>4. \A x \in S : x <= accepted
  BY <1>1, <1>2, <1>3
<1>5. Max(S) \in S /\ \A y \in S : y <= Max(S)
  <2>1. S \in SUBSET Nat /\ S # {}
    BY <1>3
  <2> QED BY <2>1, <1>2, <1>4, MaxIsGreatest
<1>6. Max(S) \in Nat /\ Max(S) + Cardinality(Pending) <= accepted
  BY <1>3, <1>5
<1>7. 1 + Max(S) \in Conn
  BY <1>1, <1>2, <1>6 DEF Conn
<1>8. \A e \in player_list : e.at \in S /\ e.at \in Nat
  BY <1>3
<1>9. \A p \in Player : cursor[p] \in S /\ cursor[p] \in Nat
  BY <1>3 DEF Range, TypeOK
<1>10. Pushed(q) = player_list \cup {[at |-> 1 + Max(S), who |-> q]}
  BY DEF Pushed
<1> QED BY <1>1, <1>2, <1>5, <1>6, <1>7, <1>8, <1>9, <1>10
\* A step of a session that stays between its start and its player_close.
LEMMA InsideStep ==
  ASSUME TypeOK, NEW p \in Player, Inside(p)
  PROVE  /\ pc[p] \in InUse
         /\ \E x \in InUse : pc' = [pc EXCEPT ![p] = x]
         /\ UNCHANGED <<memVars, listVars, fd, home, conn, mainVars, acceptVars, worldVars>>
BY
DEF Inside, WriteName, SetLoggedIn, BeginWho, NextPlayer, MoveTo, EndWho, ReadFlags, PrintName,
       SessionGoes, InUse, InWho

\* NextPlayer moves the cursor to the first entry ahead of it.
LEMMA NextPlayerMoves ==
  ASSUME TypeOK, NEW p \in Player, NextPlayer(p)
  PROVE  \E d \in Ahead(p) :
           /\ \A o \in Ahead(p) : d.at <= o.at
           /\ MoveTo(p, d)
           /\ UNCHANGED <<memVars, listVars, fieldVars, mainVars, acceptVars, due, worldVars>>
BY FirstAhead DEF NextPlayer

\* The descriptors are 0 up to a limit, so that those of an interface have a last one.
LEMMA LastFd ==
  ASSUME TypeOK, NEW fs \in kSubset(Addresses, FreeFds)
  PROVE  fs \subseteq FreeFds /\ Max(fs) \in fs /\ \A f \in fs : f <= Max(fs)
<1>1. fs \subseteq FreeFds /\ Cardinality(fs) = Addresses
  BY DEF kSubset
<1>2. fs \subseteq Fd
  BY <1>1 DEF FreeFds
<1>3. fs # {}
  BY <1>1, FS_EmptySet, Bounds
<1>4. PICK limit \in Nat : \A f \in fs : f <= limit
  <2>1. PICK limit \in Fd : Fd = 0..limit
    BY FdNat
  <2>2. limit \in Nat /\ \A f \in fs : f <= limit
    BY <1>2, <2>1, FdNat
  <2> QED BY <2>2
<1>5. fs \in SUBSET Nat
  BY <1>2, FdNat
<1> QED BY <1>1, <1>3, <1>4, <1>5, MaxIsGreatest

\* accept finds a free descriptor when there is one.
LEMMA FirstFreeFd ==
  ASSUME FreeFds # {}
  PROVE  Min(FreeFds) \in Fd /\ desc[Min(FreeFds)] = NULL
<1>1. FreeFds \in SUBSET Nat
  BY FdNat DEF FreeFds
<1>2. Min(FreeFds) \in FreeFds
  BY <1>1, MinIsLeast
<1> QED BY <1>2 DEF FreeFds

\* The types are preserved: a new entry has a position left for it, list_next gives
\* command_who a player, and descriptors are found within the limit.
LEMMA TypeStep == Sharing /\ Next => TypeOK'
<1> SUFFICES ASSUME Sharing, Next PROVE TypeOK'
  OBVIOUS
<1> USE DEF Sharing
<1>1. ASSUME NEW l \in Listener, CreateInterface(l) PROVE TypeOK'
  <2>1. PICK fs \in kSubset(Addresses, FreeFds) :
          /\ desc' = [f \in Fd |-> IF f \notin fs THEN desc[f]
                                   ELSE IF f = Max(fs) THEN l ELSE Lost]
          /\ lfd' = [lfd EXCEPT ![l] = Max(fs)]
    BY <1>1 DEF CreateInterface
  <2>2. Max(fs) \in Fd
    BY LastFd DEF FreeFds
  <2>3. desc' \in [Fd -> Object]
    BY <2>1 DEF TypeOK, Object
  <2> QED BY <1>1, <2>1, <2>2, <2>3 DEF CreateInterface, TypeOK
<1>2. ASSUME InterfaceFails PROVE TypeOK'
  BY <1>2 DEF InterfaceFails, TypeOK
<1>3. ASSUME Register PROVE TypeOK'
  BY <1>3 DEF Register, Interfaces, TypeOK, InUse, InWho, Closing
<1>4. ASSUME Spawn PROVE TypeOK'
  BY <1>4 DEF Spawn, TypeOK
<1>5. ASSUME Report PROVE TypeOK'
  BY <1>5 DEF Report, TypeOK
<1>6. ASSUME NEW l \in Listener, StartAcceptor(l) PROVE TypeOK'
  BY <1>6 DEF StartAcceptor, AcceptorGoes, TypeOK
<1>7. ASSUME NEW l \in Listener, NEW p \in Player, player_new(l, p) PROVE TypeOK'
  BY <1>7 DEF player_new, AcceptorGoes, TypeOK
<1>8. ASSUME NEW l \in Listener, PlayerNewFails(l) PROVE TypeOK'
  BY <1>8 DEF PlayerNewFails, AcceptorGoes, TypeOK
<1>9. ASSUME NEW l \in Listener, Accept(l) PROVE TypeOK'
  <2>1. new_player[l] \in Player
    BY <1>9 DEF Accept, AcceptorGoes, TypeOK, Ownership
  <2>2. Min(FreeFds) \in Fd
    BY <1>9, FirstFreeFd DEF Accept
  <2>3. accepted + 1 \in Conn
    BY <1>9, Bounds DEF Accept, TypeOK, Conn
  <2> QED BY <1>9, <2>1, <2>2, <2>3 DEF Accept, AcceptorGoes, TypeOK, Object
<1>10. ASSUME NEW l \in Listener, AcceptFails(l) PROVE TypeOK'
  BY <1>10 DEF AcceptFails, AcceptorGoes, TypeOK
<1>11. ASSUME NEW l \in Listener, PushInterfaceList(l) PROVE TypeOK'
  <2>1. new_player[l] \in Player
    BY <1>11 DEF PushInterfaceList, AcceptorGoes, TypeOK, Ownership
  <2> QED BY <1>11, <2>1 DEF PushInterfaceList, AcceptorGoes, TypeOK
<1>12. ASSUME NEW l \in Listener, PushPlayerList(l) PROVE TypeOK'
  <2>1. new_player[l] \in Player
    BY <1>12 DEF PushPlayerList, AcceptorGoes, TypeOK, Ownership
  <2>2. PICK k \in Conn : Pushed(new_player[l]) = player_list \cup {[at |-> k, who |-> new_player[l]]}
    BY <1>12, PushedAt DEF PushPlayerList, AcceptorGoes
  <2>3. player_list' \in SUBSET [at : Conn, who : Player]
    BY <1>12, <2>1, <2>2 DEF PushPlayerList, TypeOK
  <2> QED BY <1>12, <2>3 DEF PushPlayerList, AcceptorGoes, TypeOK
<1>13. ASSUME NEW l \in Listener, StartSession(l) PROVE TypeOK'
  BY <1>13 DEF StartSession, AcceptorGoes, TypeOK, InUse, InWho, Closing
<1>14. ASSUME NEW l \in Listener, SessionFails(l) PROVE TypeOK'
  BY <1>14 DEF SessionFails, AcceptorGoes, TypeOK, InUse, InWho, Closing
<1>15. ASSUME NEW l \in Listener, ShutListener(l) PROVE TypeOK'
  BY <1>15 DEF ShutListener, AcceptorGoes, TypeOK, Object
<1>16. ASSUME NEW l \in Listener, DropSocket(l) PROVE TypeOK'
  BY <1>16 DEF DropSocket, AcceptorGoes, TypeOK
<1>17. ASSUME NEW l \in Listener, DropInterface(l) PROVE TypeOK'
  BY <1>17 DEF DropInterface, AcceptorGoes, TypeOK
<1>18. ASSUME NEW l \in Listener, ReleaseListener(l) PROVE TypeOK'
  BY <1>18 DEF ReleaseListener, AcceptorGoes, TypeOK, InUse, InWho, Closing
<1>19. ASSUME NEW l \in Listener, AfterClose(l) PROVE TypeOK'
  BY <1>19 DEF AfterClose, AcceptorGoes, TypeOK
<1>20. ASSUME NEW p \in Player, CloseSocket(p) PROVE TypeOK'
  BY <1>20 DEF CloseSocket, SessionGoes, Object, TypeOK, InUse, InWho, Closing
<1>21. ASSUME NEW p \in Player, Unlink(p) PROVE TypeOK'
  BY <1>21 DEF Unlink, SessionGoes, TypeOK, InUse, InWho, Closing
<1>22. ASSUME NEW p \in Player, Unlist(p) PROVE TypeOK'
  BY <1>22 DEF Unlist, SessionGoes, TypeOK, InUse, InWho, Closing
<1>23. ASSUME NEW p \in Player, FreePlayer(p) PROVE TypeOK'
  BY <1>23, FdNat DEF FreePlayer, SessionGoes, TypeOK
<1>24. ASSUME NEW p \in Player, Leaves(p) PROVE TypeOK'
  BY <1>24 DEF SessionGoes, Leaves, EndSession, QuitSession, TypeOK, InUse, InWho, Closing
<1>25. ASSUME NEW p \in Player, WriteName(p) PROVE TypeOK'
  BY <1>25 DEF WriteName, SessionGoes, TypeOK, InUse, InWho, Closing
<1>26. ASSUME NEW p \in Player, SetLoggedIn(p) PROVE TypeOK'
  BY <1>26 DEF SetLoggedIn, SessionGoes, TypeOK, InUse, InWho, Closing
<1>27. ASSUME NEW p \in Player, BeginWho(p) PROVE TypeOK'
  <2>1. \A e \in player_list : conn[e.who] \in Conn
    BY DEF InPlayerList, TypeOK
  <2>2. due' \in [Player -> SUBSET Conn]
    BY <1>27, <2>1 DEF BeginWho, TypeOK
  <2> QED BY <1>27, <2>2 DEF BeginWho, SessionGoes, TypeOK, InUse, InWho
<1>28. ASSUME NEW p \in Player, NextPlayer(p) PROVE TypeOK'
  <2>1. PICK d \in Ahead(p) :
          /\ MoveTo(p, d)
          /\ UNCHANGED <<memVars, listVars, fieldVars, mainVars, acceptVars, due, worldVars>>
    BY <1>28, NextPlayerMoves
  <2>2. d.at \in Conn /\ d.who \in Player
    BY DEF TypeOK, Ahead
  <2>3. d.who # NULL /\ conn[d.who] \in Conn \cup {0}
    BY <2>2, NullApart DEF TypeOK
  <2> QED BY <2>1, <2>2, <2>3 DEF MoveTo, SessionGoes, TypeOK, InUse, InWho
<1>29. ASSUME NEW p \in Player, EndWho(p) PROVE TypeOK'
  BY <1>29 DEF EndWho, SessionGoes, TypeOK, InUse, InWho, Closing
<1>30. ASSUME NEW p \in Player, ReadFlags(p) PROVE TypeOK'
  BY <1>30 DEF ReadFlags, SessionGoes, TypeOK, InUse, InWho, Closing
<1>31. ASSUME NEW p \in Player, PrintName(p) PROVE TypeOK'
  BY <1>31 DEF PrintName, SessionGoes, TypeOK, InUse, InWho, Closing
<1>32. ASSUME NEW c \in Conn, PeerHangsUp(c) PROVE TypeOK'
  BY <1>32 DEF PeerHangsUp, TypeOK
<1> QED BY <1>1, <1>2, <1>3, <1>4, <1>5, <1>6, <1>7, <1>8, <1>9, <1>10, <1>11, <1>12, <1>13,
           <1>14, <1>15, <1>16, <1>17, <1>18, <1>19, <1>20, <1>21, <1>22, <1>23, <1>24, <1>25,
           <1>26, <1>27, <1>28, <1>29, <1>30, <1>31, <1>32
     DEF Next, Main, Acceptor, Session, Close, Leaves, Inside

\* Every player keeps its one owner.
LEMMA OwnershipStep == Sharing /\ Next => Ownership'
<1> SUFFICES ASSUME Sharing, Next PROVE Ownership'
  OBVIOUS
<1> USE DEF Sharing
<1>1. ASSUME NEW l \in Listener, CreateInterface(l) PROVE Ownership'
  BY <1>1 DEF CreateInterface, Ownership
<1>2. ASSUME InterfaceFails PROVE Ownership'
  BY <1>2 DEF InterfaceFails, Ownership
<1>3. ASSUME Register PROVE Ownership'
  BY <1>3 DEF Register, Ownership
<1>4. ASSUME Spawn PROVE Ownership'
  BY <1>4, NullApart DEF Spawn, Interfaces, TypeOK, Ownership, InUse, InWho, Closing
<1>5. ASSUME Report PROVE Ownership'
  BY <1>5 DEF Report, Ownership
<1>6. ASSUME NEW l \in Listener, StartAcceptor(l) PROVE Ownership'
  BY <1>6 DEF StartAcceptor, AcceptorGoes, Ownership
<1>7. ASSUME NEW l \in Listener, NEW p \in Player, player_new(l, p) PROVE Ownership'
  BY <1>7, NullApart DEF player_new, AcceptorGoes, TypeOK, Ownership, InUse, InWho, Closing
<1>8. ASSUME NEW l \in Listener, PlayerNewFails(l) PROVE Ownership'
  BY <1>8 DEF PlayerNewFails, AcceptorGoes, Ownership
<1>9. ASSUME NEW l \in Listener, Accept(l) PROVE Ownership'
  BY <1>9 DEF Accept, AcceptorGoes, Ownership
<1>10. ASSUME NEW l \in Listener, AcceptFails(l) PROVE Ownership'
  BY <1>10 DEF AcceptFails, AcceptorGoes, Ownership
<1>11. ASSUME NEW l \in Listener, PushInterfaceList(l) PROVE Ownership'
  BY <1>11 DEF PushInterfaceList, AcceptorGoes, Ownership
<1>12. ASSUME NEW l \in Listener, PushPlayerList(l) PROVE Ownership'
  BY <1>12 DEF PushPlayerList, AcceptorGoes, Ownership
<1>13. ASSUME NEW l \in Listener, StartSession(l) PROVE Ownership'
  BY <1>13 DEF StartSession, AcceptorGoes, TypeOK, Ownership
<1>14. ASSUME NEW l \in Listener, SessionFails(l) PROVE Ownership'
  BY <1>14 DEF SessionFails, AcceptorGoes, TypeOK, Ownership, InUse, InWho, Closing
<1>15. ASSUME NEW l \in Listener, ShutListener(l) PROVE Ownership'
  BY <1>15 DEF ShutListener, AcceptorGoes, Ownership
<1>16. ASSUME NEW l \in Listener, DropSocket(l) PROVE Ownership'
  BY <1>16 DEF DropSocket, AcceptorGoes, Ownership
<1>17. ASSUME NEW l \in Listener, DropInterface(l) PROVE Ownership'
  BY <1>17 DEF DropInterface, AcceptorGoes, Ownership
<1>18. ASSUME NEW l \in Listener, ReleaseListener(l) PROVE Ownership'
  BY <1>18 DEF ReleaseListener, AcceptorGoes, TypeOK, Ownership, InUse, InWho, Closing
<1>19. ASSUME NEW l \in Listener, AfterClose(l) PROVE Ownership'
  BY <1>19 DEF AfterClose, AcceptorGoes, Ownership
<1>20. ASSUME NEW p \in Player, CloseSocket(p) PROVE Ownership'
  BY <1>20 DEF CloseSocket, SessionGoes, TypeOK, Ownership, InUse, InWho, Closing
<1>21. ASSUME NEW p \in Player, Unlink(p) PROVE Ownership'
  BY <1>21 DEF Unlink, SessionGoes, TypeOK, Ownership, InUse, InWho, Closing
<1>22. ASSUME NEW p \in Player, Unlist(p) PROVE Ownership'
  BY <1>22 DEF Unlist, SessionGoes, TypeOK, Ownership, InUse, InWho, Closing
<1>23. ASSUME NEW p \in Player, FreePlayer(p) PROVE Ownership'
  BY <1>23 DEF FreePlayer, SessionGoes, TypeOK, Ownership
<1>24. ASSUME NEW p \in Player, Leaves(p) PROVE Ownership'
BY <1>24
DEF SessionGoes, Leaves, EndSession, QuitSession, TypeOK, Ownership, InUse, InWho, Closing
<1>25. ASSUME NEW p \in Player, Inside(p) PROVE Ownership'
  BY <1>25, InsideStep DEF TypeOK, Ownership, InUse, InWho, Closing
<1>26. ASSUME NEW c \in Conn, PeerHangsUp(c) PROVE Ownership'
  BY <1>26 DEF PeerHangsUp, Ownership
<1> QED BY <1>1, <1>2, <1>3, <1>4, <1>5, <1>6, <1>7, <1>8, <1>9, <1>10, <1>11, <1>12, <1>13,
           <1>14, <1>15, <1>16, <1>17, <1>18, <1>19, <1>20, <1>21, <1>22, <1>23, <1>24, <1>25,
           <1>26
     DEF Next, Main, Acceptor, Session, Close, Leaves, Inside

\* An interface is freed by its own acceptor, after the lists have lost it.
LEMMA InterfacesStep == Sharing /\ Next => Interfaces'
<1> SUFFICES ASSUME Sharing, Next PROVE Interfaces'
  OBVIOUS
<1> USE DEF Sharing
<1>1. ASSUME NEW l \in Listener, CreateInterface(l) PROVE Interfaces'
  BY <1>1 DEF CreateInterface, Interfaces
<1>2. ASSUME InterfaceFails PROVE Interfaces'
  BY <1>2 DEF InterfaceFails, Interfaces
<1>3. ASSUME Register PROVE Interfaces'
  BY <1>3 DEF Register, Interfaces
<1>4. ASSUME Spawn PROVE Interfaces'
  BY <1>4 DEF Spawn, Interfaces
<1>5. ASSUME Report PROVE Interfaces'
  BY <1>5 DEF Report, Interfaces
<1>6. ASSUME NEW l \in Listener, StartAcceptor(l) PROVE Interfaces'
  BY <1>6 DEF StartAcceptor, AcceptorGoes, Interfaces
<1>7. ASSUME NEW l \in Listener, NEW p \in Player, player_new(l, p) PROVE Interfaces'
  BY <1>7 DEF player_new, AcceptorGoes, Interfaces
<1>8. ASSUME NEW l \in Listener, PlayerNewFails(l) PROVE Interfaces'
  BY <1>8 DEF PlayerNewFails, AcceptorGoes, Interfaces
<1>9. ASSUME NEW l \in Listener, Accept(l) PROVE Interfaces'
  BY <1>9 DEF Accept, AcceptorGoes, Interfaces
<1>10. ASSUME NEW l \in Listener, AcceptFails(l) PROVE Interfaces'
  BY <1>10 DEF AcceptFails, AcceptorGoes, Interfaces
<1>11. ASSUME NEW l \in Listener, PushInterfaceList(l) PROVE Interfaces'
  BY <1>11 DEF PushInterfaceList, AcceptorGoes, Interfaces
<1>12. ASSUME NEW l \in Listener, PushPlayerList(l) PROVE Interfaces'
  BY <1>12 DEF PushPlayerList, AcceptorGoes, Interfaces
<1>13. ASSUME NEW l \in Listener, StartSession(l) PROVE Interfaces'
  BY <1>13 DEF StartSession, AcceptorGoes, Interfaces
<1>14. ASSUME NEW l \in Listener, SessionFails(l) PROVE Interfaces'
  BY <1>14 DEF SessionFails, AcceptorGoes, Interfaces
<1>15. ASSUME NEW l \in Listener, ShutListener(l) PROVE Interfaces'
  BY <1>15 DEF ShutListener, AcceptorGoes, Interfaces
<1>16. ASSUME NEW l \in Listener, DropSocket(l) PROVE Interfaces'
  BY <1>16 DEF DropSocket, AcceptorGoes, Interfaces
<1>17. ASSUME NEW l \in Listener, DropInterface(l) PROVE Interfaces'
  BY <1>17 DEF DropInterface, AcceptorGoes, Interfaces
<1>18. ASSUME NEW l \in Listener, ReleaseListener(l) PROVE Interfaces'
  BY <1>18 DEF ReleaseListener, AcceptorGoes, TypeOK, Interfaces
<1>19. ASSUME NEW l \in Listener, AfterClose(l) PROVE Interfaces'
  BY <1>19 DEF AfterClose, AcceptorGoes, Interfaces
<1>20. ASSUME NEW p \in Player, CloseSocket(p) PROVE Interfaces'
  BY <1>20 DEF CloseSocket, SessionGoes, Interfaces
<1>21. ASSUME NEW p \in Player, Unlink(p) PROVE Interfaces'
  BY <1>21 DEF Unlink, SessionGoes, Interfaces
<1>22. ASSUME NEW p \in Player, Unlist(p) PROVE Interfaces'
  BY <1>22 DEF Unlist, SessionGoes, Interfaces
<1>23. ASSUME NEW p \in Player, FreePlayer(p) PROVE Interfaces'
  BY <1>23 DEF FreePlayer, SessionGoes, Interfaces
<1>24. ASSUME NEW p \in Player, Leaves(p) PROVE Interfaces'
  BY <1>24 DEF SessionGoes, Leaves, EndSession, QuitSession, Interfaces
<1>25. ASSUME NEW p \in Player, Inside(p) PROVE Interfaces'
  BY <1>25, InsideStep DEF Interfaces
<1>26. ASSUME NEW c \in Conn, PeerHangsUp(c) PROVE Interfaces'
  BY <1>26 DEF PeerHangsUp, Interfaces
<1> QED BY <1>1, <1>2, <1>3, <1>4, <1>5, <1>6, <1>7, <1>8, <1>9, <1>10, <1>11, <1>12, <1>13,
           <1>14, <1>15, <1>16, <1>17, <1>18, <1>19, <1>20, <1>21, <1>22, <1>23, <1>24, <1>25,
           <1>26
     DEF Next, Main, Acceptor, Session, Close, Leaves, Inside

\* The list of an interface keeps exactly its players that are not closed yet.
LEMMA InInterfaceListStep == Sharing /\ Next => InInterfaceList'
<1> SUFFICES ASSUME Sharing, Next PROVE InInterfaceList'
  OBVIOUS
<1> USE DEF Sharing
<1>1. ASSUME NEW l \in Listener, CreateInterface(l) PROVE InInterfaceList'
  BY <1>1 DEF CreateInterface, InInterfaceList
<1>2. ASSUME InterfaceFails PROVE InInterfaceList'
  BY <1>2 DEF InterfaceFails, InInterfaceList
<1>3. ASSUME Register PROVE InInterfaceList'
  BY <1>3 DEF Register, InInterfaceList
<1>4. ASSUME Spawn PROVE InInterfaceList'
  BY <1>4, NullApart DEF Spawn, Interfaces, TypeOK, InInterfaceList, InUse, InWho, Closing
<1>5. ASSUME Report PROVE InInterfaceList'
  BY <1>5 DEF Report, InInterfaceList
<1>6. ASSUME NEW l \in Listener, StartAcceptor(l) PROVE InInterfaceList'
  BY <1>6 DEF StartAcceptor, AcceptorGoes, InInterfaceList
<1>7. ASSUME NEW l \in Listener, NEW p \in Player, player_new(l, p) PROVE InInterfaceList'
BY <1>7, NullApart
DEF player_new, AcceptorGoes, TypeOK, Ownership, InInterfaceList, InUse, InWho, Closing
<1>8. ASSUME NEW l \in Listener, PlayerNewFails(l) PROVE InInterfaceList'
  BY <1>8 DEF PlayerNewFails, AcceptorGoes, InInterfaceList
<1>9. ASSUME NEW l \in Listener, Accept(l) PROVE InInterfaceList'
  BY <1>9 DEF Accept, AcceptorGoes, InInterfaceList
<1>10. ASSUME NEW l \in Listener, AcceptFails(l) PROVE InInterfaceList'
  BY <1>10 DEF AcceptFails, AcceptorGoes, InInterfaceList
<1>11. ASSUME NEW l \in Listener, PushInterfaceList(l) PROVE InInterfaceList'
  BY <1>11, NullApart DEF PushInterfaceList, AcceptorGoes, TypeOK, Ownership, InInterfaceList
<1>12. ASSUME NEW l \in Listener, PushPlayerList(l) PROVE InInterfaceList'
  BY <1>12 DEF PushPlayerList, AcceptorGoes, InInterfaceList
<1>13. ASSUME NEW l \in Listener, StartSession(l) PROVE InInterfaceList'
BY <1>13, NullApart
DEF StartSession, AcceptorGoes, TypeOK, Ownership, InInterfaceList, InUse, InWho, Closing
<1>14. ASSUME NEW l \in Listener, SessionFails(l) PROVE InInterfaceList'
  BY <1>14, NullApart DEF SessionFails, AcceptorGoes, TypeOK, Ownership, InInterfaceList
<1>15. ASSUME NEW l \in Listener, ShutListener(l) PROVE InInterfaceList'
  BY <1>15 DEF ShutListener, AcceptorGoes, InInterfaceList
<1>16. ASSUME NEW l \in Listener, DropSocket(l) PROVE InInterfaceList'
  BY <1>16 DEF DropSocket, AcceptorGoes, InInterfaceList
<1>17. ASSUME NEW l \in Listener, DropInterface(l) PROVE InInterfaceList'
  BY <1>17 DEF DropInterface, AcceptorGoes, InInterfaceList
<1>18. ASSUME NEW l \in Listener, ReleaseListener(l) PROVE InInterfaceList'
  BY <1>18 DEF ReleaseListener, AcceptorGoes, TypeOK, InInterfaceList, InUse, InWho, Closing
<1>19. ASSUME NEW l \in Listener, AfterClose(l) PROVE InInterfaceList'
  BY <1>19 DEF AfterClose, AcceptorGoes, InInterfaceList
<1>20. ASSUME NEW p \in Player, CloseSocket(p) PROVE InInterfaceList'
  BY <1>20 DEF CloseSocket, SessionGoes, TypeOK, InInterfaceList, InUse, InWho, Closing
<1>21. ASSUME NEW p \in Player, Unlink(p) PROVE InInterfaceList'
BY <1>21, NullApart
DEF Unlink, SessionGoes, TypeOK, Ownership, InInterfaceList, InUse, InWho, Closing
<1>22. ASSUME NEW p \in Player, Unlist(p) PROVE InInterfaceList'
  BY <1>22 DEF Unlist, SessionGoes, TypeOK, InInterfaceList, InUse, InWho, Closing
<1>23. ASSUME NEW p \in Player, FreePlayer(p) PROVE InInterfaceList'
  <2>1. pc[p] = "free" /\ pc' = [pc EXCEPT ![p] = "none"] /\ UNCHANGED <<apc, plist>>
    BY <1>23 DEF FreePlayer, SessionGoes
  <2>2. \A q \in Player \ {p} : pc'[q] = pc[q] /\ home'[q] = home[q]
    BY <1>23 DEF FreePlayer, SessionGoes, TypeOK
  <2>3. \A l \in Listener : p \notin plist[l] /\ (apc[l] # "wait" => new_player[l] # p)
    BY <2>1, NullApart DEF InInterfaceList, Ownership, InUse, InWho
  <2>4. \A l \in Listener : apc[l] # "wait" => new_player'[l] = new_player[l]
    BY <1>23, <2>3 DEF FreePlayer
  <2> QED BY <2>1, <2>2, <2>3, <2>4 DEF TypeOK, InInterfaceList, InUse, InWho
<1>24. ASSUME NEW p \in Player, Leaves(p) PROVE InInterfaceList'
BY <1>24
DEF SessionGoes, Leaves, EndSession, QuitSession, TypeOK, InInterfaceList, InUse, InWho, Closing
<1>25. ASSUME NEW p \in Player, Inside(p) PROVE InInterfaceList'
  <2>1. PICK x \in InUse : pc[p] \in InUse /\ pc' = [pc EXCEPT ![p] = x]
    BY <1>25, InsideStep
  <2>2. UNCHANGED <<apc, new_player, home, players, plist, player_list, conn, accepted, fd>>
    BY <1>25, InsideStep
  <2> QED BY <2>1, <2>2 DEF TypeOK, InInterfaceList, InUse, InWho, Closing
<1>26. ASSUME NEW c \in Conn, PeerHangsUp(c) PROVE InInterfaceList'
  BY <1>26 DEF PeerHangsUp, InInterfaceList
<1> QED BY <1>1, <1>2, <1>3, <1>4, <1>5, <1>6, <1>7, <1>8, <1>9, <1>10, <1>11, <1>12, <1>13,
           <1>14, <1>15, <1>16, <1>17, <1>18, <1>19, <1>20, <1>21, <1>22, <1>23, <1>24, <1>25,
           <1>26
     DEF Next, Main, Acceptor, Session, Close, Leaves, Inside

\* player_list keeps one entry for each player between its push and its removal.
LEMMA InPlayerListStep == Sharing /\ Next => InPlayerList'
<1> SUFFICES ASSUME Sharing, Next PROVE InPlayerList'
  OBVIOUS
<1> USE DEF Sharing
<1>1. ASSUME NEW l \in Listener, CreateInterface(l) PROVE InPlayerList'
  BY <1>1 DEF CreateInterface, InPlayerList
<1>2. ASSUME InterfaceFails PROVE InPlayerList'
  BY <1>2 DEF InterfaceFails, InPlayerList
<1>3. ASSUME Register PROVE InPlayerList'
  BY <1>3 DEF Register, InPlayerList
<1>4. ASSUME Spawn PROVE InPlayerList'
  BY <1>4, NullApart DEF Spawn, Interfaces, TypeOK, InPlayerList, InUse, InWho, Closing
<1>5. ASSUME Report PROVE InPlayerList'
  BY <1>5 DEF Report, InPlayerList
<1>6. ASSUME NEW l \in Listener, StartAcceptor(l) PROVE InPlayerList'
  BY <1>6 DEF StartAcceptor, AcceptorGoes, InPlayerList
<1>7. ASSUME NEW l \in Listener, NEW p \in Player, player_new(l, p) PROVE InPlayerList'
BY <1>7, NullApart
DEF player_new, AcceptorGoes, TypeOK, Ownership, InInterfaceList, InPlayerList, Connections,
         InUse, InWho, Closing
<1>8. ASSUME NEW l \in Listener, PlayerNewFails(l) PROVE InPlayerList'
  BY <1>8 DEF PlayerNewFails, AcceptorGoes, InPlayerList
<1>9. ASSUME NEW l \in Listener, Accept(l) PROVE InPlayerList'
  BY <1>9, NullApart DEF Accept, AcceptorGoes, TypeOK, Ownership, InPlayerList
<1>10. ASSUME NEW l \in Listener, AcceptFails(l) PROVE InPlayerList'
  BY <1>10 DEF AcceptFails, AcceptorGoes, InPlayerList
<1>11. ASSUME NEW l \in Listener, PushInterfaceList(l) PROVE InPlayerList'
  BY <1>11 DEF PushInterfaceList, AcceptorGoes, InPlayerList
<1>12. ASSUME NEW l \in Listener, PushPlayerList(l) PROVE InPlayerList'
  <2>1. PICK k \in Conn :
          /\ player_list' = player_list \cup {[at |-> k, who |-> new_player[l]]}
          /\ \A e \in player_list : e.at < k
    BY <1>12, PushedAt DEF PushPlayerList, AcceptorGoes
  <2>2. new_player[l] \in Player /\ pc[new_player[l]] = "new" /\ home[new_player[l]] = l
    BY <1>12 DEF PushPlayerList, AcceptorGoes, TypeOK, Ownership
  <2>3. \A e \in player_list : e.who # new_player[l]
    BY <1>12, <2>2 DEF PushPlayerList, AcceptorGoes, InPlayerList
  <2>4. k \in Nat /\ \A e \in player_list : e.at \in Nat
    BY Bounds DEF TypeOK, Conn
  <2>5. \A d, e \in player_list' : d.who = e.who \/ d.at = e.at => d = e
    BY <2>1, <2>3, <2>4 DEF InPlayerList
  <2>6. new_player[l] \in plist[l] /\ conn[new_player[l]] # 0
    BY <1>12 DEF PushPlayerList, AcceptorGoes, InInterfaceList, Connections
  <2>7. apc' = [apc EXCEPT ![l] = "create"] /\ UNCHANGED <<pc, home, plist, conn, new_player>>
    BY <1>12 DEF PushPlayerList, AcceptorGoes
  <2>8. \A e \in player_list' :
          /\ pc[e.who] \in InUse \cup {"new", "close", "unlink", "unlist"}
          /\ pc[e.who] = "new" => apc'[home[e.who]] = "create"
          /\ pc[e.who] # "unlist" => e.who \in plist[home[e.who]]
          /\ conn[e.who] # 0
    BY <2>1, <2>2, <2>6, <2>7 DEF InPlayerList, TypeOK
  <2>9. \A m \in Listener : apc'[m] = "create" => \E e \in player_list' : e.who = new_player[m]
    <3>1. [at |-> k, who |-> new_player[l]].who = new_player[l]
      OBVIOUS
    <3>2. \A m \in Listener \ {l} : apc'[m] = apc[m]
      BY <2>7 DEF TypeOK
    <3> QED BY <2>1, <3>1, <3>2 DEF InPlayerList
  <2> QED BY <2>1, <2>5, <2>7, <2>8, <2>9 DEF InPlayerList
<1>13. ASSUME NEW l \in Listener, StartSession(l) PROVE InPlayerList'
BY <1>13, NullApart
DEF StartSession, AcceptorGoes, TypeOK, Ownership, InInterfaceList, InPlayerList, Connections,
         InUse, InWho, Closing
<1>14. ASSUME NEW l \in Listener, SessionFails(l) PROVE InPlayerList'
  BY <1>14, NullApart DEF SessionFails, AcceptorGoes, TypeOK, Ownership, InPlayerList
<1>15. ASSUME NEW l \in Listener, ShutListener(l) PROVE InPlayerList'
  BY <1>15 DEF ShutListener, AcceptorGoes, InPlayerList
<1>16. ASSUME NEW l \in Listener, DropSocket(l) PROVE InPlayerList'
  BY <1>16 DEF DropSocket, AcceptorGoes, InPlayerList
<1>17. ASSUME NEW l \in Listener, DropInterface(l) PROVE InPlayerList'
  BY <1>17 DEF DropInterface, AcceptorGoes, InPlayerList
<1>18. ASSUME NEW l \in Listener, ReleaseListener(l) PROVE InPlayerList'
BY <1>18, NullApart
DEF ReleaseListener, AcceptorGoes, TypeOK, Ownership, InInterfaceList, InPlayerList,
         Connections, InUse, InWho, Closing
<1>19. ASSUME NEW l \in Listener, AfterClose(l) PROVE InPlayerList'
  BY <1>19 DEF AfterClose, AcceptorGoes, InPlayerList
<1>20. ASSUME NEW p \in Player, CloseSocket(p) PROVE InPlayerList'
  BY <1>20 DEF CloseSocket, SessionGoes, TypeOK, InPlayerList, InUse, InWho, Closing
<1>21. ASSUME NEW p \in Player, Unlink(p) PROVE InPlayerList'
  BY <1>21 DEF Unlink, SessionGoes, TypeOK, InPlayerList, InUse, InWho, Closing
<1>22. ASSUME NEW p \in Player, Unlist(p) PROVE InPlayerList'
BY <1>22, NullApart
DEF Unlist, SessionGoes, TypeOK, Ownership, InInterfaceList, InPlayerList, Connections, InUse,
         InWho, Closing
<1>23. ASSUME NEW p \in Player, FreePlayer(p) PROVE InPlayerList'
  BY <1>23 DEF FreePlayer, SessionGoes, TypeOK, InPlayerList, InUse, InWho, Closing
<1>24. ASSUME NEW p \in Player, Leaves(p) PROVE InPlayerList'
BY <1>24
DEF SessionGoes, Leaves, EndSession, QuitSession, TypeOK, InPlayerList, InUse, InWho, Closing
<1>25. ASSUME NEW p \in Player, Inside(p) PROVE InPlayerList'
  <2>1. PICK x \in InUse : pc[p] \in InUse /\ pc' = [pc EXCEPT ![p] = x]
    BY <1>25, InsideStep
  <2>2. UNCHANGED <<apc, new_player, home, players, plist, player_list, conn, accepted, fd>>
    BY <1>25, InsideStep
  <2> QED BY <2>1, <2>2 DEF TypeOK, InPlayerList, InUse, InWho, Closing
<1>26. ASSUME NEW c \in Conn, PeerHangsUp(c) PROVE InPlayerList'
  BY <1>26 DEF PeerHangsUp, InPlayerList
<1> QED BY <1>1, <1>2, <1>3, <1>4, <1>5, <1>6, <1>7, <1>8, <1>9, <1>10, <1>11, <1>12, <1>13,
           <1>14, <1>15, <1>16, <1>17, <1>18, <1>19, <1>20, <1>21, <1>22, <1>23, <1>24, <1>25,
           <1>26
     DEF Next, Main, Acceptor, Session, Close, Leaves, Inside

\* A connection keeps its one player.
LEMMA ConnectionsStep == Sharing /\ Next => Connections'
<1> SUFFICES ASSUME Sharing, Next PROVE Connections'
  OBVIOUS
<1> USE DEF Sharing
<1>1. ASSUME NEW l \in Listener, CreateInterface(l) PROVE Connections'
  BY <1>1 DEF CreateInterface, Connections
<1>2. ASSUME InterfaceFails PROVE Connections'
  BY <1>2 DEF InterfaceFails, Connections
<1>3. ASSUME Register PROVE Connections'
  BY <1>3 DEF Register, Connections
<1>4. ASSUME Spawn PROVE Connections'
  BY <1>4 DEF Spawn, Connections
<1>5. ASSUME Report PROVE Connections'
  BY <1>5 DEF Report, Connections
<1>6. ASSUME NEW l \in Listener, StartAcceptor(l) PROVE Connections'
  BY <1>6 DEF StartAcceptor, AcceptorGoes, Connections
<1>7. ASSUME NEW l \in Listener, NEW p \in Player, player_new(l, p) PROVE Connections'
BY <1>7, NullApart
DEF player_new, AcceptorGoes, TypeOK, Ownership, Connections, InUse, InWho, Closing
<1>8. ASSUME NEW l \in Listener, PlayerNewFails(l) PROVE Connections'
  BY <1>8, NullApart DEF PlayerNewFails, AcceptorGoes, TypeOK, Ownership, Connections
<1>9. ASSUME NEW l \in Listener, Accept(l) PROVE Connections'
  <2> DEFINE q == new_player[l]
  <2>1. /\ q \in Player /\ pc[q] = "new" /\ conn[q] = 0
        /\ \A m \in Listener \ {l} : new_player[m] # q
    BY <1>9, NullApart DEF Accept, AcceptorGoes, TypeOK, Ownership, Connections
  <2>2. /\ accepted' = accepted + 1
        /\ conn' = [conn EXCEPT ![q] = accepted + 1]
        /\ \A r \in Player \ {q} : fd'[r] = fd[r]
        /\ apc[l] = "accept" /\ apc' = [apc EXCEPT ![l] = "push1"]
        /\ UNCHANGED <<pc, new_player>>
    BY <1>9 DEF Accept, AcceptorGoes, TypeOK
  <2>3. accepted \in Nat /\ \A r \in Player : conn[r] \in Nat /\ conn[r] <= accepted
    BY Bounds DEF TypeOK, Conn, Connections
  <2> HIDE DEF q
  <2>4. \A r \in Player : conn'[r] = IF r = q THEN accepted + 1 ELSE conn[r]
    BY <2>1, <2>2 DEF TypeOK
  <2>5. /\ \A r \in Player : conn'[r] <= accepted'
        /\ \A r, t \in Player : conn'[r] = conn'[t] /\ conn'[r] # 0 => r = t
    BY <2>2, <2>3, <2>4 DEF Connections
  <2>6. /\ \A r \in Player : conn'[r] = 0 => fd'[r] = 0 /\ pc'[r] \notin InUse
        /\ \A r \in Player : pc'[r] = "none" => conn'[r] = 0
    BY <2>1, <2>2, <2>3, <2>4 DEF Connections
  <2>7. ASSUME NEW m \in Listener
        PROVE  /\ apc'[m] \in {"push1", "push2", "create"} => conn'[new_player'[m]] # 0
               /\ apc'[m] \in {"accept", "shut", "drop1", "drop2", "release"} /\ new_player'[m] # NULL =>
                    conn'[new_player'[m]] = 0
    <3>1. CASE m = l
      BY <2>2, <2>3, <2>4, <2>1, <3>1 DEF TypeOK, q
    <3>2. CASE m # l
      BY <2>1, <2>2, <2>4, <2>7, <3>2, NullApart DEF TypeOK, Connections, Ownership
    <3> QED BY <3>1, <3>2
  <2> QED BY <2>5, <2>6, <2>7 DEF Connections
<1>10. ASSUME NEW l \in Listener, AcceptFails(l) PROVE Connections'
  BY <1>10 DEF AcceptFails, AcceptorGoes, Connections
<1>11. ASSUME NEW l \in Listener, PushInterfaceList(l) PROVE Connections'
  BY <1>11 DEF PushInterfaceList, AcceptorGoes, Connections
<1>12. ASSUME NEW l \in Listener, PushPlayerList(l) PROVE Connections'
  BY <1>12 DEF PushPlayerList, AcceptorGoes, Connections
<1>13. ASSUME NEW l \in Listener, StartSession(l) PROVE Connections'
  BY <1>13 DEF StartSession, AcceptorGoes, TypeOK, Connections
<1>14. ASSUME NEW l \in Listener, SessionFails(l) PROVE Connections'
  BY <1>14 DEF SessionFails, AcceptorGoes, Connections
<1>15. ASSUME NEW l \in Listener, ShutListener(l) PROVE Connections'
  BY <1>15 DEF ShutListener, AcceptorGoes, Connections
<1>16. ASSUME NEW l \in Listener, DropSocket(l) PROVE Connections'
  BY <1>16 DEF DropSocket, AcceptorGoes, Connections
<1>17. ASSUME NEW l \in Listener, DropInterface(l) PROVE Connections'
  BY <1>17 DEF DropInterface, AcceptorGoes, Connections
<1>18. ASSUME NEW l \in Listener, ReleaseListener(l) PROVE Connections'
  BY <1>18 DEF ReleaseListener, AcceptorGoes, TypeOK, Connections, InUse, InWho, Closing
<1>19. ASSUME NEW l \in Listener, AfterClose(l) PROVE Connections'
  BY <1>19 DEF AfterClose, AcceptorGoes, Connections
<1>20. ASSUME NEW p \in Player, CloseSocket(p) PROVE Connections'
  BY <1>20 DEF CloseSocket, SessionGoes, TypeOK, Connections, InUse, InWho, Closing
<1>21. ASSUME NEW p \in Player, Unlink(p) PROVE Connections'
  BY <1>21 DEF Unlink, SessionGoes, TypeOK, Connections, InUse, InWho, Closing
<1>22. ASSUME NEW p \in Player, Unlist(p) PROVE Connections'
  BY <1>22 DEF Unlist, SessionGoes, TypeOK, Connections, InUse, InWho, Closing
<1>23. ASSUME NEW p \in Player, FreePlayer(p) PROVE Connections'
  <2>1. pc[p] = "free" /\ pc' = [pc EXCEPT ![p] = "none"] /\ UNCHANGED <<apc, accepted>>
    BY <1>23 DEF FreePlayer, SessionGoes
  <2>2. \A q \in Player : /\ q # p => pc'[q] = pc[q] /\ fd'[q] = fd[q]
                          /\ conn'[q] = IF q = p THEN 0 ELSE conn[q]
                          /\ fd'[p] = 0 /\ pc'[p] = "none"
    BY <1>23 DEF FreePlayer, SessionGoes, TypeOK
  <2>3. \A l \in Listener : apc[l] # "wait" => new_player[l] # p
    BY <2>1, NullApart DEF Ownership
  <2>4. \A l \in Listener : apc[l] # "wait" => new_player'[l] = new_player[l]
    BY <1>23, <2>3 DEF FreePlayer
  <2>5. 0 <= accepted
    BY Bounds DEF TypeOK, Conn
  <2>6. /\ \A q \in Player : conn'[q] <= accepted'
        /\ \A q, r \in Player : conn'[q] = conn'[r] /\ conn'[q] # 0 => q = r
        /\ \A q \in Player : conn'[q] = 0 => fd'[q] = 0 /\ pc'[q] \notin InUse
        /\ \A q \in Player : pc'[q] = "none" => conn'[q] = 0
    BY <2>1, <2>2, <2>5 DEF Connections, InUse, InWho
  <2>7. \A l \in Listener :
       /\ apc[l] \in {"push1", "push2", "create"} => conn'[new_player[l]] # 0
       /\ apc[l] \in {"accept", "shut", "drop1", "drop2", "release"} /\ new_player[l] # NULL =>
            conn'[new_player[l]] = 0
    BY <2>2, <2>3, NullApart DEF Connections, Ownership, TypeOK
  <2> QED BY <2>1, <2>4, <2>6, <2>7 DEF Connections
<1>24. ASSUME NEW p \in Player, Leaves(p) PROVE Connections'
BY <1>24
DEF SessionGoes, Leaves, EndSession, QuitSession, TypeOK, Connections, InUse, InWho, Closing
<1>25. ASSUME NEW p \in Player, Inside(p) PROVE Connections'
  <2>1. PICK x \in InUse : pc[p] \in InUse /\ pc' = [pc EXCEPT ![p] = x]
    BY <1>25, InsideStep
  <2>2. UNCHANGED <<apc, new_player, home, players, plist, player_list, conn, accepted, fd>>
    BY <1>25, InsideStep
  <2> QED BY <2>1, <2>2 DEF TypeOK, Connections, InUse, InWho, Closing
<1>26. ASSUME NEW c \in Conn, PeerHangsUp(c) PROVE Connections'
  BY <1>26 DEF PeerHangsUp, Connections
<1> QED BY <1>1, <1>2, <1>3, <1>4, <1>5, <1>6, <1>7, <1>8, <1>9, <1>10, <1>11, <1>12, <1>13,
           <1>14, <1>15, <1>16, <1>17, <1>18, <1>19, <1>20, <1>21, <1>22, <1>23, <1>24, <1>25,
           <1>26
     DEF Next, Main, Acceptor, Session, Close, Leaves, Inside

\* Only an accept and a list_push change the connections still to push.
Stays ==
  /\ Pending' = Pending /\ accepted' = accepted
  /\ player_list' \subseteq player_list
  /\ \A p \in Player : cursor'[p] \in {0, cursor[p]} \cup {e.at : e \in player_list}

\* A position is left for every connection that is still to be pushed.
LEMMA PositionsStep == Sharing /\ Next => Positions'
<1> SUFFICES ASSUME Sharing, Next PROVE Positions'
  OBVIOUS
<1> USE DEF Sharing
<1>a. IsFiniteSet(Pending) /\ Cardinality(Pending) \in Nat
  BY ServerSets, FS_Subset, FS_CardinalityType DEF Pending
<1>b. /\ accepted \in Nat
      /\ \A e \in player_list : e.at \in Nat
      /\ \A p \in Player : cursor[p] \in Nat
  BY Bounds DEF TypeOK, Conn
<1>c. ASSUME Stays PROVE Positions'
  BY <1>a, <1>b, <1>c DEF Positions, Stays
<1>1. ASSUME NEW l \in Listener, CreateInterface(l) PROVE Positions'
  BY <1>1, <1>c DEF CreateInterface, Stays, Pending
<1>2. ASSUME InterfaceFails PROVE Positions'
  BY <1>2, <1>c DEF InterfaceFails, Stays, Pending
<1>3. ASSUME Register PROVE Positions'
  BY <1>3, <1>c DEF Register, Stays, Pending
<1>4. ASSUME Spawn PROVE Positions'
  BY <1>4, <1>c DEF Spawn, TypeOK, Interfaces, Stays, Pending
<1>5. ASSUME Report PROVE Positions'
  BY <1>5, <1>c DEF Report, Stays, Pending
<1>6. ASSUME NEW l \in Listener, StartAcceptor(l) PROVE Positions'
  BY <1>6, <1>c DEF StartAcceptor, AcceptorGoes, Stays, Pending
<1>7. ASSUME NEW l \in Listener, NEW p \in Player, player_new(l, p) PROVE Positions'
  BY <1>7, <1>c DEF player_new, AcceptorGoes, Stays, Pending
<1>8. ASSUME NEW l \in Listener, PlayerNewFails(l) PROVE Positions'
  BY <1>8, <1>c DEF PlayerNewFails, AcceptorGoes, Stays, Pending
<1>9. ASSUME NEW l \in Listener, Accept(l) PROVE Positions'
  <2>1. Pending' = Pending \cup {l} /\ l \notin Pending /\ accepted' = accepted + 1
    BY <1>9 DEF Accept, AcceptorGoes, Pending, TypeOK
  <2>2. Cardinality(Pending') = Cardinality(Pending) + 1
    BY <1>a, <2>1, FS_AddElement
  <2>3. UNCHANGED <<player_list, cursor>>
    BY <1>9 DEF Accept
  <2>4. Cardinality(Pending') <= accepted'
    BY <1>a, <1>b, <2>1, <2>2 DEF Positions
  <2>5. \A e \in player_list : e.at + Cardinality(Pending') <= accepted'
    BY <1>a, <1>b, <2>1, <2>2 DEF Positions
  <2>6. \A p \in Player : cursor[p] + Cardinality(Pending') <= accepted'
    BY <1>a, <1>b, <2>1, <2>2 DEF Positions
  <2> QED BY <2>3, <2>4, <2>5, <2>6 DEF Positions
<1>10. ASSUME NEW l \in Listener, AcceptFails(l) PROVE Positions'
  BY <1>10, <1>c DEF AcceptFails, AcceptorGoes, Stays, Pending
<1>11. ASSUME NEW l \in Listener, PushInterfaceList(l) PROVE Positions'
  BY <1>11, <1>c DEF PushInterfaceList, AcceptorGoes, Stays, Pending
<1>12. ASSUME NEW l \in Listener, PushPlayerList(l) PROVE Positions'
  <2>1. Pending' = Pending \ {l} /\ l \in Pending /\ UNCHANGED <<accepted, cursor>>
    BY <1>12 DEF PushPlayerList, AcceptorGoes, Pending, TypeOK
  <2>2. Cardinality(Pending') = Cardinality(Pending) - 1
    BY <1>a, <2>1, FS_RemoveElement
  <2>3. PICK k \in Conn :
          /\ player_list' = player_list \cup {[at |-> k, who |-> new_player[l]]}
          /\ k + Cardinality(Pending) - 1 <= accepted
    BY <1>12, PushedAt DEF PushPlayerList, AcceptorGoes
  <2>4. k \in Nat
    BY Bounds DEF Conn
  <2>5. Cardinality(Pending') <= accepted
    BY <1>a, <1>b, <2>2 DEF Positions
  <2>6. \A e \in player_list' : e.at + Cardinality(Pending') <= accepted
    BY <1>a, <1>b, <2>2, <2>3, <2>4 DEF Positions
  <2>7. \A p \in Player : cursor[p] + Cardinality(Pending') <= accepted
    BY <1>a, <1>b, <2>2 DEF Positions
  <2> QED BY <2>1, <2>5, <2>6, <2>7 DEF Positions
<1>13. ASSUME NEW l \in Listener, StartSession(l) PROVE Positions'
  BY <1>13, <1>c DEF StartSession, AcceptorGoes, Stays, Pending
<1>14. ASSUME NEW l \in Listener, SessionFails(l) PROVE Positions'
  BY <1>14, <1>c DEF SessionFails, AcceptorGoes, Stays, Pending
<1>15. ASSUME NEW l \in Listener, ShutListener(l) PROVE Positions'
  BY <1>15, <1>c DEF ShutListener, AcceptorGoes, Stays, Pending
<1>16. ASSUME NEW l \in Listener, DropSocket(l) PROVE Positions'
  BY <1>16, <1>c DEF DropSocket, AcceptorGoes, Stays, Pending
<1>17. ASSUME NEW l \in Listener, DropInterface(l) PROVE Positions'
  BY <1>17, <1>c DEF DropInterface, AcceptorGoes, Stays, Pending
<1>18. ASSUME NEW l \in Listener, ReleaseListener(l) PROVE Positions'
  BY <1>18, <1>c DEF ReleaseListener, AcceptorGoes, Stays, Pending
<1>19. ASSUME NEW l \in Listener, AfterClose(l) PROVE Positions'
  BY <1>19, <1>c DEF AfterClose, AcceptorGoes, Stays, Pending
<1>20. ASSUME NEW p \in Player, CloseSocket(p) PROVE Positions'
  BY <1>20, <1>c DEF CloseSocket, SessionGoes, Stays, Pending
<1>21. ASSUME NEW p \in Player, Unlink(p) PROVE Positions'
  BY <1>21, <1>c DEF Unlink, SessionGoes, Stays, Pending
<1>22. ASSUME NEW p \in Player, Unlist(p) PROVE Positions'
  BY <1>22, <1>c DEF Unlist, SessionGoes, Stays, Pending
<1>23. ASSUME NEW p \in Player, FreePlayer(p) PROVE Positions'
  BY <1>23, <1>c DEF FreePlayer, SessionGoes, Stays, Pending
<1>24. ASSUME NEW p \in Player, Leaves(p) PROVE Positions'
  BY <1>24, <1>c DEF SessionGoes, Leaves, EndSession, QuitSession, Stays, Pending
<1>25. ASSUME NEW p \in Player, WriteName(p) PROVE Positions'
  BY <1>25, <1>c DEF WriteName, SessionGoes, Stays, Pending
<1>26. ASSUME NEW p \in Player, SetLoggedIn(p) PROVE Positions'
  BY <1>26, <1>c DEF SetLoggedIn, SessionGoes, Stays, Pending
<1>27. ASSUME NEW p \in Player, BeginWho(p) PROVE Positions'
  BY <1>27, <1>c DEF BeginWho, SessionGoes, Stays, Pending
<1>28. ASSUME NEW p \in Player, NextPlayer(p) PROVE Positions'
  <2>1. PICK d \in Ahead(p) : MoveTo(p, d) /\ UNCHANGED <<player_list, apc, accepted>>
    BY <1>28, NextPlayerMoves
  <2>2. d \in player_list /\ cursor' = [cursor EXCEPT ![p] = d.at]
    BY <2>1 DEF MoveTo, Ahead
  <2> QED BY <1>c, <2>1, <2>2 DEF Stays, Pending, TypeOK
<1>29. ASSUME NEW p \in Player, EndWho(p) PROVE Positions'
  BY <1>29, <1>c DEF EndWho, SessionGoes, Stays, Pending
<1>30. ASSUME NEW p \in Player, ReadFlags(p) PROVE Positions'
  BY <1>30, <1>c DEF ReadFlags, SessionGoes, Stays, Pending
<1>31. ASSUME NEW p \in Player, PrintName(p) PROVE Positions'
  BY <1>31, <1>c DEF PrintName, SessionGoes, Stays, Pending
<1>32. ASSUME NEW c \in Conn, PeerHangsUp(c) PROVE Positions'
  BY <1>32, <1>c DEF PeerHangsUp, Stays, Pending
<1> QED BY <1>1, <1>2, <1>3, <1>4, <1>5, <1>6, <1>7, <1>8, <1>9, <1>10, <1>11, <1>12, <1>13,
           <1>14, <1>15, <1>16, <1>17, <1>18, <1>19, <1>20, <1>21, <1>22, <1>23, <1>24, <1>25,
           <1>26, <1>27, <1>28, <1>29, <1>30, <1>31, <1>32
     DEF Next, Main, Acceptor, Session, Close, Leaves, Inside

\* The invariant holds before main has created an interface.
LEMMA SharingInit == Init => Sharing
<1> SUFFICES ASSUME Init PROVE Sharing
  OBVIOUS
<1>1. TypeOK
  BY FdNat, Bounds DEF Init, TypeOK, Conn, Object
<1>2. Ownership /\ Interfaces /\ InInterfaceList /\ InPlayerList
  BY NullApart DEF Init, Ownership, Interfaces, InInterfaceList, InPlayerList, InUse, InWho
<1>3. Positions
  <2>1. Pending = {}
    BY DEF Init, Pending
  <2> QED BY <2>1, FS_EmptySet DEF Init, Positions
<1>4. Connections
  BY DEF Init, Connections, InUse, InWho
<1> QED BY <1>1, <1>2, <1>3, <1>4 DEF Sharing

\* The invariant is preserved.
LEMMA SharingStep == Sharing /\ [Next]_vars => Sharing'
<1>1. Sharing /\ Next => Sharing'
BY TypeStep, OwnershipStep, InterfacesStep, InInterfaceListStep, InPlayerListStep,
     PositionsStep,
     ConnectionsStep DEF Sharing
<1>2. Sharing /\ UNCHANGED vars => Sharing'
  <2> SUFFICES ASSUME Sharing, UNCHANGED vars PROVE Sharing'
    OBVIOUS
  <2> USE DEF Sharing, vars
  <2>1. TypeOK'
    BY DEF TypeOK
  <2>2. Ownership' /\ Interfaces' /\ InInterfaceList' /\ InPlayerList' /\ Connections'
    BY DEF Ownership, Interfaces, InInterfaceList, InPlayerList, Connections
  <2>3. Positions'
    <3>1. Pending' = Pending
      BY DEF Pending
    <3> QED BY <3>1 DEF Positions
  <2> QED BY <2>1, <2>2, <2>3
<1> QED BY <1>1, <1>2

\* Sharing holds in every reachable state.
LEMMA SharingInvariant == Spec => []Sharing
BY SharingInit, SharingStep, PTL DEF Spec

\* Sharing gives what command_who, player_close and the acceptors rely on.
LEMMA SharingImplies == Sharing => SharingSound
<1> SUFFICES ASSUME Sharing PROVE SharingSound
  OBVIOUS
<1> USE DEF Sharing
<1>1. TypeOK
  OBVIOUS
<1>2. ListsAllocated
BY
DEF ListsAllocated, TypeOK, Ownership, Interfaces, InInterfaceList, InPlayerList, InUse, InWho
<1>3. Listed
  <2> SUFFICES ASSUME NEW p \in Player
               PROVE  LET entries == {e \in player_list : e.who = p}
                      IN  /\ Cardinality(entries) <= 1
                          /\ pc[p] \in InUse => entries # {} /\ p \in plist[home[p]]
                          /\ entries # {} => p \in plist[home[p]] \/ pc[p] = "unlist"
    BY DEF Listed
  <2> DEFINE entries == {e \in player_list : e.who = p}
  <2>1. Cardinality(entries) <= 1
    <3>1. CASE entries = {}
      BY <3>1, FS_EmptySet
    <3>2. CASE entries # {}
      <4>1. PICK e \in entries : TRUE
        BY <3>2
      <4>2. entries = {e}
        BY <4>1 DEF InPlayerList
      <4>3. Cardinality({e}) = 1
        BY FS_Singleton
      <4> QED BY <4>2, <4>3
    <3> QED BY <3>1, <3>2
  <2>2. pc[p] \in InUse => entries # {} /\ p \in plist[home[p]]
    BY DEF InPlayerList, InInterfaceList
  <2>3. entries # {} => p \in plist[home[p]] \/ pc[p] = "unlist"
    BY DEF InPlayerList
  <2> QED BY <2>1, <2>2, <2>3
<1>4. OneOwner
  <2> SUFFICES ASSUME NEW p \in players
               PROVE  LET holders == {l \in Listener : new_player[l] = p}
                      IN  /\ Cardinality(holders) <= 1
                          /\ pc[p] \in InUse => holders = {}
                          /\ pc[p] = "new" => holders # {}
    BY DEF OneOwner
  <2> DEFINE holders == {l \in Listener : new_player[l] = p}
  <2>0. p \in Player /\ p # NULL
    BY NullApart DEF TypeOK
  <2>1. \A l \in holders : home[p] = l
    BY <2>0 DEF Ownership
  <2>2. holders = {} \/ holders = {home[p]}
    BY <2>1
  <2>3. Cardinality(holders) <= 1
    <3>1. Cardinality({home[p]}) = 1 /\ Cardinality({}) = 0
      BY FS_EmptySet, FS_Singleton
    <3> QED BY <2>2, <3>1
  <2>4. pc[p] \in InUse => holders = {}
    BY <2>0 DEF Ownership, InUse, InWho, Closing
  <2>5. pc[p] = "new" => holders # {}
    BY <2>0 DEF Ownership
  <2> QED BY <2>3, <2>4, <2>5
<1> QED BY <1>1, <1>2, <1>3, <1>4 DEF SharingSound

\* In every reachable state the lists hold allocated players and interfaces only, agree
\* with one another and with the threads, and every player has one owner that will free
\* it (player_close, socket_pthread_per_accept, command_who).
THEOREM Sound == Spec => []SharingSound
BY SharingInvariant, SharingImplies, PTL

-----------------------------------------------------------------------------
(* Descriptors *)

\* The owner of an open connection gives it up only by closing it.
LEMMA NoLeakStep == Sharing /\ NoDescriptorLeak /\ Next => NoDescriptorLeak'
<1> SUFFICES ASSUME Sharing /\ NoDescriptorLeak, Next PROVE NoDescriptorLeak'
  OBVIOUS
<1> USE DEF Sharing
<1>1. ASSUME NEW l \in Listener, CreateInterface(l) PROVE NoDescriptorLeak'
  BY <1>1, NullApart, Apart DEF CreateInterface, TypeOK, Ownership, NoDescriptorLeak
<1>2. ASSUME InterfaceFails PROVE NoDescriptorLeak'
  BY <1>2 DEF InterfaceFails, NoDescriptorLeak
<1>3. ASSUME Register PROVE NoDescriptorLeak'
  BY <1>3 DEF Register, NoDescriptorLeak
<1>4. ASSUME Spawn PROVE NoDescriptorLeak'
  BY <1>4 DEF Spawn, NoDescriptorLeak
<1>5. ASSUME Report PROVE NoDescriptorLeak'
  BY <1>5 DEF Report, NoDescriptorLeak
<1>6. ASSUME NEW l \in Listener, StartAcceptor(l) PROVE NoDescriptorLeak'
  BY <1>6 DEF StartAcceptor, AcceptorGoes, NoDescriptorLeak
<1>7. ASSUME NEW l \in Listener, NEW p \in Player, player_new(l, p) PROVE NoDescriptorLeak'
  BY <1>7 DEF player_new, AcceptorGoes, NoDescriptorLeak
<1>8. ASSUME NEW l \in Listener, PlayerNewFails(l) PROVE NoDescriptorLeak'
  BY <1>8 DEF PlayerNewFails, AcceptorGoes, NoDescriptorLeak
<1>9. ASSUME NEW l \in Listener, Accept(l) PROVE NoDescriptorLeak'
  <2> DEFINE q == new_player[l]
  <2>1. /\ q \in players /\ pc[q] = "new" /\ conn[q] = 0
        /\ Min(FreeFds) \in Fd
    BY <1>9, FirstFreeFd, NullApart DEF Accept, AcceptorGoes, TypeOK, Ownership, Connections
  <2>2. /\ desc' = [desc EXCEPT ![Min(FreeFds)] = accepted + 1]
        /\ conn' = [conn EXCEPT ![q] = accepted + 1]
        /\ fd' = [fd EXCEPT ![q] = Min(FreeFds)]
        /\ UNCHANGED <<players, pc>>
    BY <1>9 DEF Accept
  <2>3. \A r \in players : conn[r] \in Conn => r # q
    BY <2>1, Bounds DEF Conn
  <2> HIDE DEF q
  <2> QED BY <2>1, <2>2, <2>3 DEF NoDescriptorLeak, TypeOK, Closing
<1>10. ASSUME NEW l \in Listener, AcceptFails(l) PROVE NoDescriptorLeak'
  BY <1>10 DEF AcceptFails, AcceptorGoes, NoDescriptorLeak
<1>11. ASSUME NEW l \in Listener, PushInterfaceList(l) PROVE NoDescriptorLeak'
  BY <1>11 DEF PushInterfaceList, AcceptorGoes, NoDescriptorLeak
<1>12. ASSUME NEW l \in Listener, PushPlayerList(l) PROVE NoDescriptorLeak'
  BY <1>12 DEF PushPlayerList, AcceptorGoes, NoDescriptorLeak
<1>13. ASSUME NEW l \in Listener, StartSession(l) PROVE NoDescriptorLeak'
  BY <1>13 DEF StartSession, AcceptorGoes, TypeOK, NoDescriptorLeak, InUse, InWho, Closing
<1>14. ASSUME NEW l \in Listener, SessionFails(l) PROVE NoDescriptorLeak'
  BY <1>14 DEF SessionFails, AcceptorGoes, NoDescriptorLeak
<1>15. ASSUME NEW l \in Listener, ShutListener(l) PROVE NoDescriptorLeak'
  BY <1>15, NullApart, Apart DEF ShutListener, AcceptorGoes, TypeOK, Ownership, NoDescriptorLeak
<1>16. ASSUME NEW l \in Listener, DropSocket(l) PROVE NoDescriptorLeak'
  BY <1>16 DEF DropSocket, AcceptorGoes, NoDescriptorLeak
<1>17. ASSUME NEW l \in Listener, DropInterface(l) PROVE NoDescriptorLeak'
  BY <1>17 DEF DropInterface, AcceptorGoes, NoDescriptorLeak
<1>18. ASSUME NEW l \in Listener, ReleaseListener(l) PROVE NoDescriptorLeak'
  BY <1>18 DEF ReleaseListener, AcceptorGoes, NoDescriptorLeak
<1>19. ASSUME NEW l \in Listener, AfterClose(l) PROVE NoDescriptorLeak'
  BY <1>19 DEF AfterClose, AcceptorGoes, NoDescriptorLeak
<1>20. ASSUME NEW p \in Player, CloseSocket(p) PROVE NoDescriptorLeak'
  BY <1>20, NullApart, Apart DEF CloseSocket, SessionGoes, TypeOK, Ownership, NoDescriptorLeak
<1>21. ASSUME NEW p \in Player, Unlink(p) PROVE NoDescriptorLeak'
  BY <1>21 DEF Unlink, SessionGoes, TypeOK, NoDescriptorLeak, InUse, InWho, Closing
<1>22. ASSUME NEW p \in Player, Unlist(p) PROVE NoDescriptorLeak'
  BY <1>22 DEF Unlist, SessionGoes, TypeOK, NoDescriptorLeak, InUse, InWho, Closing
<1>23. ASSUME NEW p \in Player, FreePlayer(p) PROVE NoDescriptorLeak'
  BY <1>23 DEF FreePlayer, SessionGoes, TypeOK, NoDescriptorLeak, InUse, InWho, Closing
<1>24. ASSUME NEW p \in Player, Leaves(p) PROVE NoDescriptorLeak'
  BY <1>24 DEF SessionGoes, Leaves, EndSession, QuitSession, TypeOK, NoDescriptorLeak
<1>25. ASSUME NEW p \in Player, Inside(p) PROVE NoDescriptorLeak'
  BY <1>25, InsideStep DEF TypeOK, NoDescriptorLeak, InUse, InWho, Closing
<1>26. ASSUME NEW c \in Conn, PeerHangsUp(c) PROVE NoDescriptorLeak'
  BY <1>26 DEF PeerHangsUp, NoDescriptorLeak
<1> QED BY <1>1, <1>2, <1>3, <1>4, <1>5, <1>6, <1>7, <1>8, <1>9, <1>10, <1>11, <1>12, <1>13,
           <1>14, <1>15, <1>16, <1>17, <1>18, <1>19, <1>20, <1>21, <1>22, <1>23, <1>24, <1>25,
           <1>26
     DEF Next, Main, Acceptor, Session, Close, Leaves, Inside

\* A failing accept: its acceptor goes on to its end, and it is that acceptor which
\* closes the player without a connection.
Failures ==
  /\ \A l \in failed :
       /\ apc[l] \in {"shut", "drop1", "drop2", "release", "wait", "exit"}
       /\ apc[l] = "wait" => l \notin listeners
  /\ \A l \in Listener :
       apc[l] \in {"shut", "drop1", "drop2", "release"} /\ new_player[l] # NULL => l \in failed
  /\ \A p \in Player : pc[p] = "close" /\ conn[p] = 0 =>
       home[p] \in failed /\ new_player[home[p]] = p

\* The acceptor l has the player of its failed accept still to close.
ClosesZero(l) ==
  /\ new_player[l] # NULL
  /\ apc[l] \in {"shut", "drop1", "drop2", "release"} \/ pc[new_player[l]] = "close"

\* While at most one accept has failed every descriptor is its owner's, and 0 is the
\* standard input until the failed accept's player is closed.
OwnDescriptors ==
  Cardinality(failed) <= 1 =>
    /\ \A p \in Player : pc[p] \in InUse \cup {"new", "close"} /\ conn[p] # 0 => desc[fd[p]] = conn[p]
    /\ \A l \in listeners : apc[l] \notin {"drop1", "drop2", "release"} => desc[lfd[l]] = l
    /\ (\A l \in failed : ClosesZero(l)) => desc[0] = Stdin

\* A failed acceptor closes its player and ends.
LEMMA FailuresStep == Sharing /\ Failures /\ Next => Failures'
<1> SUFFICES ASSUME Sharing /\ Failures, Next PROVE Failures'
  OBVIOUS
<1> USE DEF Sharing
<1>1. ASSUME NEW l \in Listener, CreateInterface(l) PROVE Failures'
  BY <1>1 DEF CreateInterface, Failures
<1>2. ASSUME InterfaceFails PROVE Failures'
  BY <1>2 DEF InterfaceFails, Failures
<1>3. ASSUME Register PROVE Failures'
  BY <1>3 DEF Register, Failures
<1>4. ASSUME Spawn PROVE Failures'
BY <1>4, NullApart
DEF Spawn, TypeOK, Ownership, Interfaces, Connections, Failures, InUse, InWho, Closing
<1>5. ASSUME Report PROVE Failures'
  BY <1>5 DEF Report, Failures
<1>6. ASSUME NEW l \in Listener, StartAcceptor(l) PROVE Failures'
  BY <1>6 DEF StartAcceptor, AcceptorGoes, Failures
<1>7. ASSUME NEW l \in Listener, NEW p \in Player, player_new(l, p) PROVE Failures'
  BY <1>7 DEF player_new, AcceptorGoes, TypeOK, Failures
<1>8. ASSUME NEW l \in Listener, PlayerNewFails(l) PROVE Failures'
  BY <1>8, NullApart DEF PlayerNewFails, AcceptorGoes, TypeOK, Ownership, Failures
<1>9. ASSUME NEW l \in Listener, Accept(l) PROVE Failures'
  BY <1>9, NullApart DEF Accept, AcceptorGoes, TypeOK, Ownership, Failures
<1>10. ASSUME NEW l \in Listener, AcceptFails(l) PROVE Failures'
  BY <1>10 DEF AcceptFails, AcceptorGoes, TypeOK, Failures
<1>11. ASSUME NEW l \in Listener, PushInterfaceList(l) PROVE Failures'
  BY <1>11 DEF PushInterfaceList, AcceptorGoes, Failures
<1>12. ASSUME NEW l \in Listener, PushPlayerList(l) PROVE Failures'
  BY <1>12 DEF PushPlayerList, AcceptorGoes, Failures
<1>13. ASSUME NEW l \in Listener, StartSession(l) PROVE Failures'
  BY <1>13 DEF StartSession, AcceptorGoes, Failures
<1>14. ASSUME NEW l \in Listener, SessionFails(l) PROVE Failures'
BY <1>14, NullApart
DEF SessionFails, AcceptorGoes, TypeOK, Ownership, Interfaces, Connections, Failures, InUse,
         InWho, Closing
<1>15. ASSUME NEW l \in Listener, ShutListener(l) PROVE Failures'
  BY <1>15 DEF ShutListener, AcceptorGoes, Failures
<1>16. ASSUME NEW l \in Listener, DropSocket(l) PROVE Failures'
  BY <1>16 DEF DropSocket, AcceptorGoes, Failures
<1>17. ASSUME NEW l \in Listener, DropInterface(l) PROVE Failures'
  BY <1>17 DEF DropInterface, AcceptorGoes, Failures
<1>18. ASSUME NEW l \in Listener, ReleaseListener(l) PROVE Failures'
  BY <1>18, NullApart DEF ReleaseListener, AcceptorGoes, TypeOK, Ownership, Failures
<1>19. ASSUME NEW l \in Listener, AfterClose(l) PROVE Failures'
  BY <1>19 DEF AfterClose, AcceptorGoes, Failures
<1>20. ASSUME NEW p \in Player, CloseSocket(p) PROVE Failures'
  BY <1>20 DEF CloseSocket, SessionGoes, Failures
<1>21. ASSUME NEW p \in Player, Unlink(p) PROVE Failures'
  BY <1>21 DEF Unlink, SessionGoes, Failures
<1>22. ASSUME NEW p \in Player, Unlist(p) PROVE Failures'
  BY <1>22 DEF Unlist, SessionGoes, Failures
<1>23. ASSUME NEW p \in Player, FreePlayer(p) PROVE Failures'
  BY <1>23 DEF FreePlayer, SessionGoes, TypeOK, Failures
<1>24. ASSUME NEW p \in Player, Leaves(p) PROVE Failures'
BY <1>24, NullApart
DEF SessionGoes, Leaves, EndSession, QuitSession, TypeOK, Ownership, Interfaces, Connections,
         Failures, InUse, InWho, Closing
<1>25. ASSUME NEW p \in Player, Inside(p) PROVE Failures'
  BY <1>25, InsideStep DEF TypeOK, Failures, InUse, InWho, Closing
<1>26. ASSUME NEW c \in Conn, PeerHangsUp(c) PROVE Failures'
  BY <1>26 DEF PeerHangsUp, Failures
<1> QED BY <1>1, <1>2, <1>3, <1>4, <1>5, <1>6, <1>7, <1>8, <1>9, <1>10, <1>11, <1>12, <1>13,
           <1>14, <1>15, <1>16, <1>17, <1>18, <1>19, <1>20, <1>21, <1>22, <1>23, <1>24, <1>25,
           <1>26
     DEF Next, Main, Acceptor, Session, Close, Leaves, Inside

\* What the owners keep when a step leaves every open descriptor as it is.
LEMMA OpenKept ==
  ASSUME Sharing, OwnDescriptors, Cardinality(failed) <= 1
  PROVE  /\ \A p \in Player : pc[p] \in InUse \cup {"new", "close"} /\ conn[p] # 0 =>
              conn[p] \in Conn /\ fd[p] \in Fd /\ desc[fd[p]] = conn[p]
         /\ \A l \in listeners : apc[l] \notin {"drop1", "drop2", "release"} =>
              l \in Listener /\ lfd[l] \in Fd /\ desc[lfd[l]] = l
         /\ (\A l \in failed : ClosesZero(l)) => desc[0] = Stdin
         /\ 0 \in Fd
<1>1. 0 \in Fd
  BY FdNat
<1> QED BY <1>1 DEF Sharing, OwnDescriptors, TypeOK

\* With one failed accept at most no step closes or replaces another's descriptor.
LEMMA OwnDescriptorsStep == Sharing /\ Failures /\ OwnDescriptors /\ Next => OwnDescriptors'
<1> SUFFICES ASSUME Sharing /\ Failures /\ OwnDescriptors, Next PROVE OwnDescriptors'
  OBVIOUS
<1> USE DEF Sharing
<1>1. ASSUME NEW l \in Listener, CreateInterface(l) PROVE OwnDescriptors'
  <2> SUFFICES ASSUME Cardinality(failed) <= 1
               PROVE  OwnDescriptors'
    BY <1>1 DEF CreateInterface, OwnDescriptors
  <2>1. PICK fs \in kSubset(Addresses, FreeFds) :
          /\ desc' = [f \in Fd |-> IF f \notin fs THEN desc[f]
                                   ELSE IF f = Max(fs) THEN l ELSE Lost]
          /\ lfd' = [lfd EXCEPT ![l] = Max(fs)]
    BY <1>1 DEF CreateInterface
  <2>2. fs \subseteq FreeFds /\ Max(fs) \in fs
    BY LastFd
  <2>3. \A f \in Fd : desc[f] # NULL => desc'[f] = desc[f]
    BY <2>1, <2>2 DEF FreeFds
  <2>4. Max(fs) \in Fd /\ desc'[Max(fs)] = l
    BY <2>1, <2>2 DEF FreeFds
  <2>5. /\ listeners' = listeners \cup {l}
        /\ UNCHANGED <<pc, conn, fd, apc, failed, new_player>>
    BY <1>1 DEF CreateInterface
  <2>6. \A p \in Player : pc[p] \in InUse \cup {"new", "close"} /\ conn[p] # 0 => desc'[fd[p]] = conn[p]
    BY <2>3, OpenKept, NullApart
  <2>7. \A m \in listeners' : apc[m] \notin {"drop1", "drop2", "release"} => desc'[lfd'[m]] = m
    BY <2>1, <2>3, <2>4, <2>5, OpenKept, NullApart DEF TypeOK
  <2>8. (\A m \in failed : ClosesZero(m)) => desc'[0] = Stdin
    BY <2>3, OpenKept, Apart
  <2> QED BY <2>5, <2>6, <2>7, <2>8 DEF OwnDescriptors, ClosesZero
<1>2. ASSUME InterfaceFails PROVE OwnDescriptors'
BY <1>2, NullApart, Apart
DEF InterfaceFails, TypeOK, Ownership, Interfaces, Connections, Failures, OwnDescriptors,
         ClosesZero, InUse, InWho, Closing
<1>3. ASSUME Register PROVE OwnDescriptors'
BY <1>3, NullApart, Apart
DEF Register, TypeOK, Ownership, Interfaces, Connections, Failures, OwnDescriptors, ClosesZero,
         InUse, InWho, Closing
<1>4. ASSUME Spawn PROVE OwnDescriptors'
BY <1>4, NullApart, Apart
DEF Spawn, TypeOK, Ownership, Interfaces, Connections, Failures, OwnDescriptors, ClosesZero,
         InUse, InWho, Closing
<1>5. ASSUME Report PROVE OwnDescriptors'
BY <1>5, NullApart, Apart
DEF Report, TypeOK, Ownership, Interfaces, Connections, Failures, OwnDescriptors, ClosesZero,
         InUse, InWho, Closing
<1>6. ASSUME NEW l \in Listener, StartAcceptor(l) PROVE OwnDescriptors'
BY <1>6, NullApart, Apart
DEF StartAcceptor, AcceptorGoes, TypeOK, Ownership, Interfaces, Connections, Failures,
         OwnDescriptors, ClosesZero, InUse, InWho, Closing
<1>7. ASSUME NEW l \in Listener, NEW p \in Player, player_new(l, p) PROVE OwnDescriptors'
BY <1>7, NullApart, Apart
DEF player_new, AcceptorGoes, TypeOK, Ownership, Interfaces, Connections, Failures,
         OwnDescriptors, ClosesZero, InUse, InWho, Closing
<1>8. ASSUME NEW l \in Listener, PlayerNewFails(l) PROVE OwnDescriptors'
BY <1>8, NullApart, Apart
DEF PlayerNewFails, AcceptorGoes, TypeOK, Ownership, Interfaces, Connections, Failures,
         OwnDescriptors, ClosesZero, InUse, InWho, Closing
<1>9. ASSUME NEW l \in Listener, Accept(l) PROVE OwnDescriptors'
  <2> SUFFICES ASSUME Cardinality(failed) <= 1
               PROVE  OwnDescriptors'
    BY <1>9 DEF Accept, OwnDescriptors
  <2> DEFINE q == new_player[l]
  <2>1. /\ q \in Player /\ pc[q] = "new"
        /\ Min(FreeFds) \in Fd /\ desc[Min(FreeFds)] = NULL
    BY <1>9, FirstFreeFd, NullApart DEF Accept, AcceptorGoes, TypeOK, Ownership
  <2>2. /\ desc' = [desc EXCEPT ![Min(FreeFds)] = accepted + 1]
        /\ conn' = [conn EXCEPT ![q] = accepted + 1]
        /\ fd' = [fd EXCEPT ![q] = Min(FreeFds)]
        /\ apc[l] = "accept" /\ apc' = [apc EXCEPT ![l] = "push1"]
        /\ UNCHANGED <<players, pc, listeners, lfd, failed, new_player>>
    BY <1>9 DEF Accept, AcceptorGoes
  <2> HIDE DEF q
  <2>3. \A f \in Fd : desc[f] # NULL => desc'[f] = desc[f]
    BY <2>1, <2>2 DEF TypeOK
  <2>4. \A p \in Player : pc[p] \in InUse \cup {"new", "close"} /\ conn'[p] # 0 => desc'[fd'[p]] = conn'[p]
    <3> SUFFICES ASSUME NEW p \in Player, pc[p] \in InUse \cup {"new", "close"}, conn'[p] # 0
                 PROVE  desc'[fd'[p]] = conn'[p]
      OBVIOUS
    <3>1. CASE p = q
      BY <2>1, <2>2, <3>1 DEF TypeOK
    <3>2. CASE p # q
      BY <2>1, <2>2, <2>3, <3>2, OpenKept, NullApart DEF TypeOK
    <3> QED BY <3>1, <3>2
  <2>5. \A m \in listeners : apc'[m] \notin {"drop1", "drop2", "release"} => desc'[lfd[m]] = m
    BY <2>2, <2>3, OpenKept, NullApart DEF TypeOK
  <2>6. (\A m \in failed : ClosesZero(m)) => desc'[0] = Stdin
    BY <2>3, OpenKept, Apart
  <2>7. \A m \in failed : ClosesZero(m)' => ClosesZero(m)
    BY <2>2 DEF ClosesZero, TypeOK
  <2> QED BY <2>2, <2>4, <2>5, <2>6, <2>7 DEF OwnDescriptors
<1>10. ASSUME NEW l \in Listener, AcceptFails(l) PROVE OwnDescriptors'
  <2> SUFFICES ASSUME Cardinality(failed') <= 1
               PROVE  OwnDescriptors'
    BY DEF OwnDescriptors
  <2>1. failed' = failed \cup {l} /\ l \notin failed /\ IsFiniteSet(failed)
    BY <1>10, ServerSets, FS_Subset DEF AcceptFails, AcceptorGoes, Failures, TypeOK
  <2>2. Cardinality(failed') = Cardinality(failed) + 1 /\ Cardinality(failed) \in Nat
    BY <2>1, FS_AddElement, FS_CardinalityType
  <2>3. Cardinality(failed) = 0
    BY <2>2
  <2>4. failed = {} /\ Cardinality(failed) <= 1
    BY <2>1, <2>3, FS_EmptySet
  <2>5. /\ UNCHANGED <<desc, pc, conn, fd, listeners, lfd, new_player>>
        /\ apc' = [apc EXCEPT ![l] = "shut"] /\ apc[l] = "accept"
    BY <1>10 DEF AcceptFails, AcceptorGoes
  <2> QED BY <2>4, <2>5 DEF OwnDescriptors, TypeOK
<1>11. ASSUME NEW l \in Listener, PushInterfaceList(l) PROVE OwnDescriptors'
BY <1>11, NullApart, Apart
DEF PushInterfaceList, AcceptorGoes, TypeOK, Ownership, Interfaces, Connections, Failures,
         OwnDescriptors, ClosesZero, InUse, InWho, Closing
<1>12. ASSUME NEW l \in Listener, PushPlayerList(l) PROVE OwnDescriptors'
BY <1>12, NullApart, Apart
DEF PushPlayerList, AcceptorGoes, TypeOK, Ownership, Interfaces, Connections, Failures,
         OwnDescriptors, ClosesZero, InUse, InWho, Closing
<1>13. ASSUME NEW l \in Listener, StartSession(l) PROVE OwnDescriptors'
BY <1>13, NullApart, Apart
DEF StartSession, AcceptorGoes, TypeOK, Ownership, Interfaces, Connections, Failures,
         OwnDescriptors, ClosesZero, InUse, InWho, Closing
<1>14. ASSUME NEW l \in Listener, SessionFails(l) PROVE OwnDescriptors'
BY <1>14, NullApart, Apart
DEF SessionFails, AcceptorGoes, TypeOK, Ownership, Interfaces, Connections, Failures,
         OwnDescriptors, ClosesZero, InUse, InWho, Closing
<1>15. ASSUME NEW l \in Listener, ShutListener(l) PROVE OwnDescriptors'
BY <1>15, NullApart, Apart
DEF ShutListener, AcceptorGoes, TypeOK, Ownership, Interfaces, Connections, Failures,
         OwnDescriptors, ClosesZero, InUse, InWho, Closing
<1>16. ASSUME NEW l \in Listener, DropSocket(l) PROVE OwnDescriptors'
BY <1>16, NullApart, Apart
DEF DropSocket, AcceptorGoes, TypeOK, Ownership, Interfaces, Connections, Failures,
         OwnDescriptors, ClosesZero, InUse, InWho, Closing
<1>17. ASSUME NEW l \in Listener, DropInterface(l) PROVE OwnDescriptors'
BY <1>17, NullApart, Apart
DEF DropInterface, AcceptorGoes, TypeOK, Ownership, Interfaces, Connections, Failures,
         OwnDescriptors, ClosesZero, InUse, InWho, Closing
<1>18. ASSUME NEW l \in Listener, ReleaseListener(l) PROVE OwnDescriptors'
BY <1>18, NullApart, Apart
DEF ReleaseListener, AcceptorGoes, TypeOK, Ownership, Interfaces, Connections, Failures,
         OwnDescriptors, ClosesZero, InUse, InWho, Closing
<1>19. ASSUME NEW l \in Listener, AfterClose(l) PROVE OwnDescriptors'
BY <1>19, NullApart, Apart
DEF AfterClose, AcceptorGoes, TypeOK, Ownership, Interfaces, Connections, Failures,
         OwnDescriptors, ClosesZero, InUse, InWho, Closing
<1>20. ASSUME NEW p \in Player, CloseSocket(p) PROVE OwnDescriptors'
  <2> SUFFICES ASSUME Cardinality(failed) <= 1
               PROVE  OwnDescriptors'
    BY <1>20 DEF CloseSocket, OwnDescriptors
  <2>1. /\ pc[p] = "close" /\ pc' = [pc EXCEPT ![p] = "unlink"]
        /\ desc' = [desc EXCEPT ![fd[p]] = NULL]
        /\ UNCHANGED <<conn, fd, home, listeners, lfd, apc, failed, new_player>>
    BY <1>20 DEF CloseSocket, SessionGoes
  <2>2. fd[p] \in Fd /\ \A f \in Fd : f # fd[p] => desc'[f] = desc[f]
    BY <2>1 DEF TypeOK
  <2>3. \A l \in failed : ClosesZero(l)' => ClosesZero(l)
    BY <2>1 DEF ClosesZero, TypeOK
  <2>4. CASE conn[p] = 0
    <3>1. home[p] \in failed /\ new_player[home[p]] = p /\ fd[p] = 0
      BY <2>1, <2>4 DEF Failures, Connections
    <3>2. failed = {home[p]}
      <4>1. IsFiniteSet(failed) /\ Cardinality(failed) \in Nat
        BY ServerSets, FS_Subset, FS_CardinalityType DEF TypeOK
      <4>2. Cardinality(failed) = 1
        BY <3>1, <4>1, FS_EmptySet
      <4>3. \E x : failed = {x}
        BY <4>1, <4>2, FS_Singleton
      <4> QED BY <3>1, <4>3
    <3>3. ClosesZero(home[p]) /\ ~ClosesZero(home[p])'
      <4>1. home[p] \in Listener /\ apc[home[p]] = "wait"
        BY <2>1, <3>1, NullApart DEF Ownership, TypeOK
      <4>2. ~ClosesZero(home[p])'
        BY <2>1, <3>1, <4>1 DEF ClosesZero, TypeOK
      <4> QED BY <2>1, <3>1, <4>2, NullApart DEF ClosesZero
    <3>4. desc[0] = Stdin
      BY <3>2, <3>3, OpenKept
    <3>5. \A q \in Player : pc'[q] \in InUse \cup {"new", "close"} /\ conn[q] # 0 => desc'[fd[q]] = conn[q]
      BY <2>1, <2>2, <3>1, <3>4, OpenKept, Apart DEF TypeOK, InUse, InWho
    <3>6. \A l \in listeners : apc[l] \notin {"drop1", "drop2", "release"} => desc'[lfd[l]] = l
      BY <2>2, <3>1, <3>4, OpenKept, Apart
    <3> QED BY <2>1, <3>2, <3>3, <3>5, <3>6 DEF OwnDescriptors
  <2>5. CASE conn[p] # 0
    <3>1. desc[fd[p]] = conn[p] /\ conn[p] \in Conn
      BY <2>1, <2>5, OpenKept
    <3>2. \A q \in Player : pc'[q] \in InUse \cup {"new", "close"} /\ conn[q] # 0 => desc'[fd[q]] = conn[q]
      <4> SUFFICES ASSUME NEW q \in Player, pc'[q] \in InUse \cup {"new", "close"}, conn[q] # 0
                   PROVE  desc'[fd[q]] = conn[q]
        OBVIOUS
      <4>1. q # p /\ pc[q] \in InUse \cup {"new", "close"}
        BY <2>1 DEF TypeOK, InUse, InWho
      <4>2. conn[q] # conn[p]
        BY <4>1 DEF Connections
      <4> QED BY <2>2, <3>1, <4>1, <4>2, OpenKept
    <3>3. \A l \in listeners : apc[l] \notin {"drop1", "drop2", "release"} => desc'[lfd[l]] = l
      BY <2>2, <3>1, OpenKept, Apart
    <3>4. (\A l \in failed : ClosesZero(l)) => desc'[0] = Stdin
      BY <2>2, <3>1, OpenKept, Apart
    <3> QED BY <2>1, <2>3, <3>2, <3>3, <3>4 DEF OwnDescriptors
  <2> QED BY <2>4, <2>5
<1>21. ASSUME NEW p \in Player, Unlink(p) PROVE OwnDescriptors'
BY <1>21, NullApart, Apart
DEF Unlink, SessionGoes, TypeOK, Ownership, Interfaces, Connections, Failures, OwnDescriptors,
         ClosesZero, InUse, InWho, Closing
<1>22. ASSUME NEW p \in Player, Unlist(p) PROVE OwnDescriptors'
BY <1>22, NullApart, Apart
DEF Unlist, SessionGoes, TypeOK, Ownership, Interfaces, Connections, Failures, OwnDescriptors,
         ClosesZero, InUse, InWho, Closing
<1>23. ASSUME NEW p \in Player, FreePlayer(p) PROVE OwnDescriptors'
  <2>1. /\ pc[p] = "free" /\ pc' = [pc EXCEPT ![p] = "none"]
        /\ UNCHANGED <<desc, listeners, lfd, apc, failed>>
    BY <1>23 DEF FreePlayer, SessionGoes
  <2>2. \A q \in Player : q # p => pc'[q] = pc[q] /\ fd'[q] = fd[q] /\ conn'[q] = conn[q]
    BY <1>23 DEF FreePlayer, SessionGoes, TypeOK
  <2>3. \A l \in Listener : new_player'[l] # NULL => new_player'[l] = new_player[l] /\ new_player[l] # p
    BY <1>23 DEF FreePlayer
  <2>4. \A l \in failed : ClosesZero(l)' => ClosesZero(l)
    BY <2>1, <2>2, <2>3 DEF ClosesZero, TypeOK
  <2>5. pc'[p] = "none"
    BY <2>1 DEF TypeOK
  <2> QED BY <2>1, <2>2, <2>4, <2>5 DEF OwnDescriptors, InUse, InWho
<1>24. ASSUME NEW p \in Player, Leaves(p) PROVE OwnDescriptors'
BY <1>24, NullApart, Apart
DEF SessionGoes, Leaves, EndSession, QuitSession, TypeOK, Ownership, Interfaces, Connections,
         Failures, OwnDescriptors, ClosesZero, InUse, InWho, Closing
<1>25. ASSUME NEW p \in Player, Inside(p) PROVE OwnDescriptors'
BY <1>25, InsideStep, NullApart, Apart
DEF TypeOK, Ownership, Interfaces, Connections, Failures, OwnDescriptors, ClosesZero, InUse,
         InWho, Closing
<1>26. ASSUME NEW c \in Conn, PeerHangsUp(c) PROVE OwnDescriptors'
BY <1>26, NullApart, Apart
DEF PeerHangsUp, TypeOK, Ownership, Interfaces, Connections, Failures, OwnDescriptors,
         ClosesZero, InUse, InWho, Closing
<1> QED BY <1>1, <1>2, <1>3, <1>4, <1>5, <1>6, <1>7, <1>8, <1>9, <1>10, <1>11, <1>12, <1>13,
           <1>14, <1>15, <1>16, <1>17, <1>18, <1>19, <1>20, <1>21, <1>22, <1>23, <1>24, <1>25,
           <1>26
     DEF Next, Main, Acceptor, Session, Close, Leaves, Inside

\* A descriptor of a connection is open only while a player that will close it exists;
\* nothing is said of listening descriptors.
THEOREM NoLeak == Spec => []NoDescriptorLeak
<1>1. Init => NoDescriptorLeak
  BY Apart DEF Init, NoDescriptorLeak
<1>2. Sharing /\ NoDescriptorLeak /\ UNCHANGED vars => NoDescriptorLeak'
  BY DEF NoDescriptorLeak, vars
<1>3. Sharing /\ NoDescriptorLeak /\ [Next]_vars => NoDescriptorLeak'
  BY <1>2, NoLeakStep
<1> QED BY <1>1, <1>3, SharingInvariant, PTL DEF Spec

\* As long as at most one accept has failed, a session reads from and player_close shuts
\* its own connection.
THEOREM Own == Spec => []OwnDescriptor
<1> DEFINE Inv == Failures /\ OwnDescriptors
<1>1. Init => Inv
  BY FdNat, NullApart DEF Init, Failures, OwnDescriptors
<1>2. Sharing /\ Inv /\ [Next]_vars => Inv'
  <2>1. Inv /\ UNCHANGED vars => Inv'
    BY DEF vars, Failures, OwnDescriptors, ClosesZero
  <2> QED BY <2>1, FailuresStep, OwnDescriptorsStep
<1>3. Inv => OwnDescriptor
  BY DEF OwnDescriptors, OwnDescriptor
<1> HIDE DEF Inv
<1> QED BY <1>1, <1>2, <1>3, SharingInvariant, PTL DEF Spec

-----------------------------------------------------------------------------
(* command_who *)

\* LOGGED_IN is set on a whole name, which stays until the player is freed.
Names ==
  \A p \in Player :
    /\ logged[p] => name[p] = conn[p] /\ pc[p] \in InUse \cup Closing
    /\ pc[p] = "naming" => name[p] = conn[p]

\* The player command_who has found logged in has its whole name, if it is still there.
Whole ==
  \A p \in Player :
    /\ pc[p] \in {"flags", "print"} => target[p] \in 1..accepted
    /\ pc[p] = "print" /\ Fresh(p) => name[scan[p]] = target[p]

\* What command_who still has to show lies ahead of its cursor, or under it.
Due ==
  \A p \in Player :
    /\ pc[p] \notin InWho => due[p] = {} /\ cursor[p] = 0
    /\ \A c \in due[p] : \E e \in player_list :
         /\ conn[e.who] = c /\ logged[e.who]
         /\ \/ e.at > cursor[p]
            \/ pc[p] \in {"flags", "print"} /\ e.at = cursor[p] /\ e.who = scan[p] /\ target[p] = c

\* A name is written before its flag and not again after it.
LEMMA NamesStep == Sharing /\ Names /\ Next => Names'
<1> SUFFICES ASSUME Sharing /\ Names, Next PROVE Names'
  OBVIOUS
<1> USE DEF Sharing
<1>1. ASSUME NEW l \in Listener, CreateInterface(l) PROVE Names'
  BY <1>1 DEF CreateInterface, Names
<1>2. ASSUME InterfaceFails PROVE Names'
  BY <1>2 DEF InterfaceFails, Names
<1>3. ASSUME Register PROVE Names'
  BY <1>3 DEF Register, Names
<1>4. ASSUME Spawn PROVE Names'
  BY <1>4 DEF Spawn, Names
<1>5. ASSUME Report PROVE Names'
  BY <1>5 DEF Report, Names
<1>6. ASSUME NEW l \in Listener, StartAcceptor(l) PROVE Names'
  BY <1>6 DEF StartAcceptor, AcceptorGoes, Names
<1>7. ASSUME NEW l \in Listener, NEW p \in Player, player_new(l, p) PROVE Names'
BY <1>7, NullApart
DEF player_new, AcceptorGoes, TypeOK, Ownership, Connections, Names, InUse, InWho, Closing
<1>8. ASSUME NEW l \in Listener, PlayerNewFails(l) PROVE Names'
  BY <1>8 DEF PlayerNewFails, AcceptorGoes, Names
<1>9. ASSUME NEW l \in Listener, Accept(l) PROVE Names'
BY <1>9, NullApart
DEF Accept, AcceptorGoes, TypeOK, Ownership, Connections, Names, InUse, InWho, Closing
<1>10. ASSUME NEW l \in Listener, AcceptFails(l) PROVE Names'
  BY <1>10 DEF AcceptFails, AcceptorGoes, Names
<1>11. ASSUME NEW l \in Listener, PushInterfaceList(l) PROVE Names'
  BY <1>11 DEF PushInterfaceList, AcceptorGoes, Names
<1>12. ASSUME NEW l \in Listener, PushPlayerList(l) PROVE Names'
  BY <1>12 DEF PushPlayerList, AcceptorGoes, Names
<1>13. ASSUME NEW l \in Listener, StartSession(l) PROVE Names'
  BY <1>13 DEF StartSession, AcceptorGoes, TypeOK, Names, InUse, InWho, Closing
<1>14. ASSUME NEW l \in Listener, SessionFails(l) PROVE Names'
  BY <1>14 DEF SessionFails, AcceptorGoes, TypeOK, Names, InUse, InWho, Closing
<1>15. ASSUME NEW l \in Listener, ShutListener(l) PROVE Names'
  BY <1>15 DEF ShutListener, AcceptorGoes, Names
<1>16. ASSUME NEW l \in Listener, DropSocket(l) PROVE Names'
  BY <1>16 DEF DropSocket, AcceptorGoes, Names
<1>17. ASSUME NEW l \in Listener, DropInterface(l) PROVE Names'
  BY <1>17 DEF DropInterface, AcceptorGoes, Names
<1>18. ASSUME NEW l \in Listener, ReleaseListener(l) PROVE Names'
  BY <1>18 DEF ReleaseListener, AcceptorGoes, TypeOK, Names, InUse, InWho, Closing
<1>19. ASSUME NEW l \in Listener, AfterClose(l) PROVE Names'
  BY <1>19 DEF AfterClose, AcceptorGoes, Names
<1>20. ASSUME NEW p \in Player, CloseSocket(p) PROVE Names'
  BY <1>20 DEF CloseSocket, SessionGoes, TypeOK, Names, InUse, InWho, Closing
<1>21. ASSUME NEW p \in Player, Unlink(p) PROVE Names'
  BY <1>21 DEF Unlink, SessionGoes, TypeOK, Names, InUse, InWho, Closing
<1>22. ASSUME NEW p \in Player, Unlist(p) PROVE Names'
  BY <1>22 DEF Unlist, SessionGoes, TypeOK, Names, InUse, InWho, Closing
<1>23. ASSUME NEW p \in Player, FreePlayer(p) PROVE Names'
  BY <1>23 DEF FreePlayer, SessionGoes, TypeOK, Names
<1>24. ASSUME NEW p \in Player, Leaves(p) PROVE Names'
BY <1>24 DEF SessionGoes, Leaves, EndSession, QuitSession, TypeOK, Names, InUse, InWho, Closing
<1>25. ASSUME NEW p \in Player, WriteName(p) PROVE Names'
  BY <1>25 DEF WriteName, SessionGoes, TypeOK, Names
<1>26. ASSUME NEW p \in Player, SetLoggedIn(p) PROVE Names'
  BY <1>26 DEF SetLoggedIn, SessionGoes, TypeOK, Names, InUse, InWho, Closing
<1>27. ASSUME NEW p \in Player, BeginWho(p) PROVE Names'
  BY <1>27 DEF BeginWho, SessionGoes, TypeOK, Names, InUse, InWho, Closing
<1>28. ASSUME NEW p \in Player, NextPlayer(p) PROVE Names'
  <2>1. PICK d \in Ahead(p) : MoveTo(p, d) /\ UNCHANGED <<logged, name, conn>>
    BY <1>28, NextPlayerMoves
  <2> QED BY <2>1 DEF MoveTo, SessionGoes, TypeOK, Names, InUse, InWho, Closing
<1>29. ASSUME NEW p \in Player, EndWho(p) PROVE Names'
  BY <1>29 DEF EndWho, SessionGoes, TypeOK, Names, InUse, InWho, Closing
<1>30. ASSUME NEW p \in Player, ReadFlags(p) PROVE Names'
  BY <1>30 DEF ReadFlags, SessionGoes, TypeOK, Names, InUse, InWho, Closing
<1>31. ASSUME NEW p \in Player, PrintName(p) PROVE Names'
  BY <1>31 DEF PrintName, SessionGoes, TypeOK, Names, InUse, InWho, Closing
<1>32. ASSUME NEW c \in Conn, PeerHangsUp(c) PROVE Names'
  BY <1>32 DEF PeerHangsUp, Names
<1> QED BY <1>1, <1>2, <1>3, <1>4, <1>5, <1>6, <1>7, <1>8, <1>9, <1>10, <1>11, <1>12, <1>13,
           <1>14, <1>15, <1>16, <1>17, <1>18, <1>19, <1>20, <1>21, <1>22, <1>23, <1>24, <1>25,
           <1>26, <1>27, <1>28, <1>29, <1>30, <1>31, <1>32
     DEF Next, Main, Acceptor, Session, Close, Leaves, Inside

\* A player command_who has seen logged in keeps its name while it exists, and its
\* address has another connection when it is allocated again.
LEMMA WholeStep == Sharing /\ Names /\ Whole /\ Next => Whole'
<1> SUFFICES ASSUME Sharing /\ Names /\ Whole, Next PROVE Whole'
  OBVIOUS
<1> USE DEF Sharing
<1>1. ASSUME NEW l \in Listener, CreateInterface(l) PROVE Whole'
BY <1>1, NullApart
DEF CreateInterface, TypeOK, Ownership, Connections, Names, Whole, Fresh, InUse, InWho, Closing
<1>2. ASSUME InterfaceFails PROVE Whole'
BY <1>2, NullApart
DEF InterfaceFails, TypeOK, Ownership, Connections, Names, Whole, Fresh, InUse, InWho, Closing
<1>3. ASSUME Register PROVE Whole'
BY <1>3, NullApart
DEF Register, TypeOK, Ownership, Connections, Names, Whole, Fresh, InUse, InWho, Closing
<1>4. ASSUME Spawn PROVE Whole'
BY <1>4, NullApart
DEF Spawn, TypeOK, Ownership, Connections, Names, Whole, Fresh, InUse, InWho, Closing
<1>5. ASSUME Report PROVE Whole'
BY <1>5, NullApart
DEF Report, TypeOK, Ownership, Connections, Names, Whole, Fresh, InUse, InWho, Closing
<1>6. ASSUME NEW l \in Listener, StartAcceptor(l) PROVE Whole'
BY <1>6, NullApart
DEF StartAcceptor, AcceptorGoes, TypeOK, Ownership, Connections, Names, Whole, Fresh, InUse,
         InWho, Closing
<1>7. ASSUME NEW l \in Listener, NEW p \in Player, player_new(l, p) PROVE Whole'
BY <1>7, NullApart
DEF player_new, AcceptorGoes, TypeOK, Ownership, Connections, Names, Whole, Fresh, InUse, InWho,
         Closing
<1>8. ASSUME NEW l \in Listener, PlayerNewFails(l) PROVE Whole'
BY <1>8, NullApart
DEF PlayerNewFails, AcceptorGoes, TypeOK, Ownership, Connections, Names, Whole, Fresh, InUse,
         InWho, Closing
<1>9. ASSUME NEW l \in Listener, Accept(l) PROVE Whole'
  <2> DEFINE q == new_player[l]
  <2>1. /\ conn' = [conn EXCEPT ![q] = accepted + 1] /\ accepted' = accepted + 1
        /\ UNCHANGED <<players, pc, scan, target, name>>
    BY <1>9 DEF Accept
  <2>2. q \in Player /\ conn[q] = 0
    BY <1>9, NullApart DEF Accept, AcceptorGoes, TypeOK, Ownership, Connections
  <2>3. accepted \in Nat
    BY Bounds DEF TypeOK, Conn
  <2> HIDE DEF q
  <2> SUFFICES ASSUME NEW p \in Player
               PROVE  /\ pc[p] \in {"flags", "print"} => target[p] \in 1..accepted'
                      /\ pc[p] = "print" /\ Fresh(p)' => name[scan[p]] = target[p]
    BY <2>1 DEF Whole
  <2>4. pc[p] \in {"flags", "print"} => target[p] \in 1..accepted'
    BY <2>1, <2>3 DEF Whole
  <2>5. pc[p] = "print" /\ Fresh(p)' => Fresh(p)
    BY <2>1, <2>2, <2>3 DEF Whole, Fresh, TypeOK
  <2> QED BY <2>4, <2>5 DEF Whole
<1>10. ASSUME NEW l \in Listener, AcceptFails(l) PROVE Whole'
BY <1>10, NullApart
DEF AcceptFails, AcceptorGoes, TypeOK, Ownership, Connections, Names, Whole, Fresh, InUse,
         InWho, Closing
<1>11. ASSUME NEW l \in Listener, PushInterfaceList(l) PROVE Whole'
BY <1>11, NullApart
DEF PushInterfaceList, AcceptorGoes, TypeOK, Ownership, Connections, Names, Whole, Fresh, InUse,
         InWho, Closing
<1>12. ASSUME NEW l \in Listener, PushPlayerList(l) PROVE Whole'
BY <1>12, NullApart
DEF PushPlayerList, AcceptorGoes, TypeOK, Ownership, Connections, Names, Whole, Fresh, InUse,
         InWho, Closing
<1>13. ASSUME NEW l \in Listener, StartSession(l) PROVE Whole'
BY <1>13, NullApart
DEF StartSession, AcceptorGoes, TypeOK, Ownership, Connections, Names, Whole, Fresh, InUse,
         InWho, Closing
<1>14. ASSUME NEW l \in Listener, SessionFails(l) PROVE Whole'
BY <1>14, NullApart
DEF SessionFails, AcceptorGoes, TypeOK, Ownership, Connections, Names, Whole, Fresh, InUse,
         InWho, Closing
<1>15. ASSUME NEW l \in Listener, ShutListener(l) PROVE Whole'
BY <1>15, NullApart
DEF ShutListener, AcceptorGoes, TypeOK, Ownership, Connections, Names, Whole, Fresh, InUse,
         InWho, Closing
<1>16. ASSUME NEW l \in Listener, DropSocket(l) PROVE Whole'
BY <1>16, NullApart
DEF DropSocket, AcceptorGoes, TypeOK, Ownership, Connections, Names, Whole, Fresh, InUse, InWho,
         Closing
<1>17. ASSUME NEW l \in Listener, DropInterface(l) PROVE Whole'
BY <1>17, NullApart
DEF DropInterface, AcceptorGoes, TypeOK, Ownership, Connections, Names, Whole, Fresh, InUse,
         InWho, Closing
<1>18. ASSUME NEW l \in Listener, ReleaseListener(l) PROVE Whole'
BY <1>18, NullApart
DEF ReleaseListener, AcceptorGoes, TypeOK, Ownership, Connections, Names, Whole, Fresh, InUse,
         InWho, Closing
<1>19. ASSUME NEW l \in Listener, AfterClose(l) PROVE Whole'
BY <1>19, NullApart
DEF AfterClose, AcceptorGoes, TypeOK, Ownership, Connections, Names, Whole, Fresh, InUse, InWho,
         Closing
<1>20. ASSUME NEW p \in Player, CloseSocket(p) PROVE Whole'
BY <1>20, NullApart
DEF CloseSocket, SessionGoes, TypeOK, Ownership, Connections, Names, Whole, Fresh, InUse, InWho,
         Closing
<1>21. ASSUME NEW p \in Player, Unlink(p) PROVE Whole'
BY <1>21, NullApart
DEF Unlink, SessionGoes, TypeOK, Ownership, Connections, Names, Whole, Fresh, InUse, InWho,
         Closing
<1>22. ASSUME NEW p \in Player, Unlist(p) PROVE Whole'
BY <1>22, NullApart
DEF Unlist, SessionGoes, TypeOK, Ownership, Connections, Names, Whole, Fresh, InUse, InWho,
         Closing
<1>23. ASSUME NEW p \in Player, FreePlayer(p) PROVE Whole'
BY <1>23, NullApart
DEF FreePlayer, SessionGoes, TypeOK, Ownership, Connections, Names, Whole, Fresh, InUse, InWho,
         Closing
<1>24. ASSUME NEW p \in Player, Leaves(p) PROVE Whole'
BY <1>24, NullApart
DEF SessionGoes, Leaves, EndSession, QuitSession, TypeOK, Ownership, Connections, Names, Whole,
         Fresh, InUse, InWho, Closing
<1>25. ASSUME NEW p \in Player, WriteName(p) PROVE Whole'
BY <1>25, NullApart
DEF WriteName, SessionGoes, TypeOK, Ownership, Connections, Names, Whole, Fresh, InUse, InWho,
         Closing
<1>26. ASSUME NEW p \in Player, SetLoggedIn(p) PROVE Whole'
BY <1>26, NullApart
DEF SetLoggedIn, SessionGoes, TypeOK, Ownership, Connections, Names, Whole, Fresh, InUse, InWho,
         Closing
<1>27. ASSUME NEW p \in Player, BeginWho(p) PROVE Whole'
BY <1>27, NullApart
DEF BeginWho, SessionGoes, TypeOK, Ownership, Connections, Names, Whole, Fresh, InUse, InWho,
         Closing
<1>28. ASSUME NEW p \in Player, NextPlayer(p) PROVE Whole'
  <2>1. PICK d \in Ahead(p) : MoveTo(p, d) /\ UNCHANGED <<players, name, conn, accepted>>
    BY <1>28, NextPlayerMoves
  <2>2. d \in player_list /\ d.who \in Player
    BY DEF Ahead, TypeOK
  <2>3. conn[d.who] \in 1..accepted
    BY <2>2, Bounds DEF InPlayerList, Connections, TypeOK, Conn
  <2>4. /\ pc' = [pc EXCEPT ![p] = "flags"]
        /\ scan' = [scan EXCEPT ![p] = d.who] /\ target' = [target EXCEPT ![p] = conn[d.who]]
    BY <2>1 DEF MoveTo, SessionGoes
  <2>5. pc'[p] = "flags" /\ target'[p] \in 1..accepted
    BY <2>3, <2>4 DEF TypeOK
  <2>6. \A q \in Player \ {p} : pc'[q] = pc[q] /\ scan'[q] = scan[q] /\ target'[q] = target[q]
    BY <2>4 DEF TypeOK
  <2> QED BY <2>1, <2>5, <2>6 DEF Whole, Fresh
<1>29. ASSUME NEW p \in Player, EndWho(p) PROVE Whole'
BY <1>29, NullApart
DEF EndWho, SessionGoes, TypeOK, Ownership, Connections, Names, Whole, Fresh, InUse, InWho,
         Closing
<1>30. ASSUME NEW p \in Player, ReadFlags(p) PROVE Whole'
BY <1>30, NullApart
DEF ReadFlags, SessionGoes, TypeOK, Ownership, Connections, Names, Whole, Fresh, InUse, InWho,
         Closing
<1>31. ASSUME NEW p \in Player, PrintName(p) PROVE Whole'
BY <1>31, NullApart
DEF PrintName, SessionGoes, TypeOK, Ownership, Connections, Names, Whole, Fresh, InUse, InWho,
         Closing
<1>32. ASSUME NEW c \in Conn, PeerHangsUp(c) PROVE Whole'
BY <1>32, NullApart
DEF PeerHangsUp, TypeOK, Ownership, Connections, Names, Whole, Fresh, InUse, InWho, Closing
<1> QED BY <1>1, <1>2, <1>3, <1>4, <1>5, <1>6, <1>7, <1>8, <1>9, <1>10, <1>11, <1>12, <1>13,
           <1>14, <1>15, <1>16, <1>17, <1>18, <1>19, <1>20, <1>21, <1>22, <1>23, <1>24, <1>25,
           <1>26, <1>27, <1>28, <1>29, <1>30, <1>31, <1>32
     DEF Next, Main, Acceptor, Session, Close, Leaves, Inside

\* The cursor of command_who passes nobody it has still to show.
LEMMA DueStep == Sharing /\ Names /\ Due /\ Next => Due'
<1> SUFFICES ASSUME Sharing /\ Names /\ Due, Next PROVE Due'
  OBVIOUS
<1> USE DEF Sharing
<1>1. ASSUME NEW l \in Listener, CreateInterface(l) PROVE Due'
  BY <1>1 DEF CreateInterface, Due
<1>2. ASSUME InterfaceFails PROVE Due'
  BY <1>2 DEF InterfaceFails, Due
<1>3. ASSUME Register PROVE Due'
  BY <1>3 DEF Register, Due
<1>4. ASSUME Spawn PROVE Due'
  BY <1>4 DEF Spawn, Due
<1>5. ASSUME Report PROVE Due'
  BY <1>5 DEF Report, Due
<1>6. ASSUME NEW l \in Listener, StartAcceptor(l) PROVE Due'
  BY <1>6 DEF StartAcceptor, AcceptorGoes, Due
<1>7. ASSUME NEW l \in Listener, NEW p \in Player, player_new(l, p) PROVE Due'
BY <1>7, NullApart
DEF player_new, AcceptorGoes, TypeOK, Ownership, InPlayerList, Connections, Names, Due, Fresh,
         InUse, InWho, Closing
<1>8. ASSUME NEW l \in Listener, PlayerNewFails(l) PROVE Due'
  BY <1>8 DEF PlayerNewFails, AcceptorGoes, Due
<1>9. ASSUME NEW l \in Listener, Accept(l) PROVE Due'
BY <1>9, NullApart
DEF Accept, AcceptorGoes, TypeOK, Ownership, InPlayerList, Connections, Names, Due, Fresh,
         InUse, InWho, Closing
<1>10. ASSUME NEW l \in Listener, AcceptFails(l) PROVE Due'
  BY <1>10 DEF AcceptFails, AcceptorGoes, Due
<1>11. ASSUME NEW l \in Listener, PushInterfaceList(l) PROVE Due'
  BY <1>11 DEF PushInterfaceList, AcceptorGoes, Due
<1>12. ASSUME NEW l \in Listener, PushPlayerList(l) PROVE Due'
  <2>1. player_list \subseteq player_list' /\ UNCHANGED <<pc, conn, logged, due, cursor, scan, target>>
    BY <1>12 DEF PushPlayerList, Pushed
  <2> QED BY <2>1 DEF Due
<1>13. ASSUME NEW l \in Listener, StartSession(l) PROVE Due'
BY <1>13, NullApart
DEF StartSession, AcceptorGoes, TypeOK, Ownership, InPlayerList, Connections, Names, Due, Fresh,
         InUse, InWho, Closing
<1>14. ASSUME NEW l \in Listener, SessionFails(l) PROVE Due'
BY <1>14, NullApart
DEF SessionFails, AcceptorGoes, TypeOK, Ownership, InPlayerList, Connections, Names, Due, Fresh,
         InUse, InWho, Closing
<1>15. ASSUME NEW l \in Listener, ShutListener(l) PROVE Due'
  BY <1>15 DEF ShutListener, AcceptorGoes, Due
<1>16. ASSUME NEW l \in Listener, DropSocket(l) PROVE Due'
  BY <1>16 DEF DropSocket, AcceptorGoes, Due
<1>17. ASSUME NEW l \in Listener, DropInterface(l) PROVE Due'
  BY <1>17 DEF DropInterface, AcceptorGoes, Due
<1>18. ASSUME NEW l \in Listener, ReleaseListener(l) PROVE Due'
BY <1>18, NullApart
DEF ReleaseListener, AcceptorGoes, TypeOK, Ownership, InPlayerList, Connections, Names, Due,
         Fresh, InUse, InWho, Closing
<1>19. ASSUME NEW l \in Listener, AfterClose(l) PROVE Due'
  BY <1>19 DEF AfterClose, AcceptorGoes, Due
<1>20. ASSUME NEW p \in Player, CloseSocket(p) PROVE Due'
  BY <1>20 DEF CloseSocket, SessionGoes, TypeOK, Due, InUse, InWho, Closing
<1>21. ASSUME NEW p \in Player, Unlink(p) PROVE Due'
  BY <1>21 DEF Unlink, SessionGoes, TypeOK, Due, InUse, InWho, Closing
<1>22. ASSUME NEW p \in Player, Unlist(p) PROVE Due'
  BY <1>22 DEF Unlist, SessionGoes, TypeOK, Due, InUse, InWho, Closing
<1>23. ASSUME NEW p \in Player, FreePlayer(p) PROVE Due'
  <2>1. pc[p] = "free" /\ pc' = [pc EXCEPT ![p] = "none"] /\ UNCHANGED <<player_list, due, cursor, scan, target>>
    BY <1>23 DEF FreePlayer, SessionGoes
  <2>2. \A e \in player_list : e.who # p /\ e.who \in Player
    BY <2>1 DEF InPlayerList, TypeOK, InUse, InWho
  <2>3. \A e \in player_list : conn'[e.who] = conn[e.who] /\ logged'[e.who] = logged[e.who]
    BY <1>23, <2>2 DEF FreePlayer, TypeOK
  <2> QED BY <2>1, <2>3 DEF Due, TypeOK, InWho
<1>24. ASSUME NEW p \in Player, Leaves(p) PROVE Due'
  <2>1. pc[p] = "run" /\ pc' = [pc EXCEPT ![p] = "close"]
    BY <1>24 DEF Leaves, EndSession, QuitSession, SessionGoes
  <2>2. UNCHANGED <<player_list, conn, logged, due, cursor, scan, target>>
    BY <1>24 DEF Leaves, EndSession, QuitSession
  <2> QED BY <2>1, <2>2 DEF Due, TypeOK, InWho
<1>25. ASSUME NEW p \in Player, WriteName(p) PROVE Due'
  BY <1>25 DEF WriteName, SessionGoes, TypeOK, Due, InUse, InWho, Closing
<1>26. ASSUME NEW p \in Player, SetLoggedIn(p) PROVE Due'
  BY <1>26 DEF SetLoggedIn, SessionGoes, TypeOK, Due, InUse, InWho, Closing
<1>27. ASSUME NEW p \in Player, BeginWho(p) PROVE Due'
  <2>1. pc[p] = "run" /\ pc' = [pc EXCEPT ![p] = "who"] /\ UNCHANGED <<player_list, conn, logged, cursor, scan, target>>
    BY <1>27 DEF BeginWho, SessionGoes
  <2>2. due' = [due EXCEPT ![p] = {conn[e.who] : e \in {d \in player_list : logged[d.who]}}]
    BY <1>27 DEF BeginWho
  <2>3. cursor[p] = 0 /\ \A e \in player_list : e.at > 0
    BY <2>1, Bounds DEF Due, InWho, TypeOK, Conn
  <2>4. \A c \in due'[p] : \E e \in player_list : conn[e.who] = c /\ logged[e.who] /\ e.at > cursor[p]
    BY <2>2, <2>3 DEF TypeOK
  <2>5. \A q \in Player \ {p} : pc'[q] = pc[q] /\ due'[q] = due[q]
    BY <2>1, <2>2 DEF TypeOK
  <2>6. pc'[p] = "who"
    BY <2>1 DEF TypeOK
  <2> QED BY <2>1, <2>4, <2>5, <2>6 DEF Due, InWho
<1>28. ASSUME NEW p \in Player, NextPlayer(p) PROVE Due'
  <2>1. PICK d \in Ahead(p) : /\ \A o \in Ahead(p) : d.at <= o.at
                              /\ MoveTo(p, d)
                              /\ UNCHANGED <<player_list, conn, logged, due>>
    BY <1>28, NextPlayerMoves
  <2>2. /\ pc[p] = "who" /\ pc' = [pc EXCEPT ![p] = "flags"]
        /\ cursor' = [cursor EXCEPT ![p] = d.at]
        /\ scan' = [scan EXCEPT ![p] = d.who] /\ target' = [target EXCEPT ![p] = conn[d.who]]
    BY <2>1 DEF MoveTo, SessionGoes
  <2>3. pc'[p] = "flags" /\ cursor'[p] = d.at /\ scan'[p] = d.who /\ target'[p] = conn[d.who]
    BY <2>2 DEF TypeOK
  <2>4. \A q \in Player \ {p} : pc'[q] = pc[q] /\ cursor'[q] = cursor[q] /\ scan'[q] = scan[q] /\ target'[q] = target[q]
    BY <2>2 DEF TypeOK
  <2>5. ASSUME NEW c \in due[p]
        PROVE  \E e \in player_list :
                 /\ conn[e.who] = c /\ logged[e.who]
                 /\ e.at > d.at \/ (e.at = d.at /\ e.who = d.who /\ conn[d.who] = c)
    <3>1. PICK e \in player_list : conn[e.who] = c /\ logged[e.who] /\ e.at > cursor[p]
      BY <2>2 DEF Due
    <3>2. d.at <= e.at /\ d \in player_list
      BY <2>1, <3>1 DEF Ahead
    <3>3. d.at \in Nat /\ e.at \in Nat
      BY <3>2, Bounds DEF TypeOK, Conn
    <3>4. CASE e.at = d.at
      BY <3>1, <3>2, <3>4 DEF InPlayerList
    <3>5. CASE e.at > d.at
      BY <3>1, <3>5
    <3> QED BY <3>2, <3>3, <3>4, <3>5
  <2> QED BY <2>1, <2>3, <2>4, <2>5 DEF Due, InWho
<1>29. ASSUME NEW p \in Player, EndWho(p) PROVE Due'
  <2>1. pc[p] = "who" /\ pc' = [pc EXCEPT ![p] = "run"] /\ cursor' = [cursor EXCEPT ![p] = 0] /\ Ahead(p) = {}
    BY <1>29 DEF EndWho, SessionGoes
  <2>2. /\ scan' = [scan EXCEPT ![p] = NULL] /\ target' = [target EXCEPT ![p] = 0]
        /\ UNCHANGED <<player_list, conn, logged, due>>
    BY <1>29 DEF EndWho
  <2>3. due[p] = {}
    BY <2>1 DEF Due, Ahead
  <2>4. \A q \in Player \ {p} : pc'[q] = pc[q] /\ cursor'[q] = cursor[q] /\ scan'[q] = scan[q] /\ target'[q] = target[q]
    BY <2>1, <2>2 DEF TypeOK
  <2>5. pc'[p] = "run" /\ cursor'[p] = 0
    BY <2>1 DEF TypeOK
  <2> QED BY <2>2, <2>3, <2>4, <2>5 DEF Due, InWho
<1>30. ASSUME NEW p \in Player, ReadFlags(p) PROVE Due'
BY <1>30, NullApart
DEF ReadFlags, SessionGoes, TypeOK, Ownership, InPlayerList, Connections, Names, Due, Fresh,
         InUse, InWho, Closing
<1>31. ASSUME NEW p \in Player, PrintName(p) PROVE Due'
BY <1>31, NullApart
DEF PrintName, SessionGoes, TypeOK, Ownership, InPlayerList, Connections, Names, Due, Fresh,
         InUse, InWho, Closing
<1>32. ASSUME NEW c \in Conn, PeerHangsUp(c) PROVE Due'
  BY <1>32 DEF PeerHangsUp, Due
<1> QED BY <1>1, <1>2, <1>3, <1>4, <1>5, <1>6, <1>7, <1>8, <1>9, <1>10, <1>11, <1>12, <1>13,
           <1>14, <1>15, <1>16, <1>17, <1>18, <1>19, <1>20, <1>21, <1>22, <1>23, <1>24, <1>25,
           <1>26, <1>27, <1>28, <1>29, <1>30, <1>31, <1>32
     DEF Next, Main, Acceptor, Session, Close, Leaves, Inside

\* LOGGED_IN is set on whole names, in every reachable state.
LEMMA NamesInvariant == Spec => []Names
<1>1. Init => Names
  BY DEF Init, Names
<1>2. Sharing /\ Names /\ [Next]_vars => Names'
  <2>1. Names /\ UNCHANGED vars => Names'
    BY DEF Names, vars
  <2> QED BY <2>1, NamesStep
<1> QED BY <1>1, <1>2, SharingInvariant, PTL DEF Spec

\* command_who prints the whole name of the player list_next gave it, unless that player
\* was freed, or freed and its address reused, in between.
THEOREM WhoPrintsNames == Spec => WhoSound
<1>1. Init => Whole
  BY DEF Init, Whole
<1>2. Sharing /\ Names /\ Whole /\ [Next]_vars => Whole'
  <2>1. Whole /\ UNCHANGED vars => Whole'
    BY DEF Whole, Fresh, vars
  <2> QED BY <2>1, WholeStep
<1>3. Whole => \A p \in Player : pc[p] = "print" /\ pc'[p] = "who" /\ Fresh(p) => name[scan[p]] = target[p]
  BY DEF Whole
<1> QED BY <1>1, <1>2, <1>3, SharingInvariant, NamesInvariant, PTL DEF Spec, WhoSound

\* When command_who has ended it has shown everybody who was logged in all the while.
THEOREM WhoShowsAll == Spec => []WhoComplete
<1>1. Init => Due
  BY DEF Init, Due
<1>2. Sharing /\ Names /\ Due /\ [Next]_vars => Due'
  <2>1. Due /\ UNCHANGED vars => Due'
    BY DEF Due, vars
  <2> QED BY <2>1, DueStep
<1>3. Due => WhoComplete
  BY DEF Due, WhoComplete
<1> QED BY <1>1, <1>2, <1>3, SharingInvariant, NamesInvariant, PTL DEF Spec
=============================================================================
