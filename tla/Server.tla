------------------------------- MODULE Server -------------------------------
(***************************************************************************)
(* The threads of the server and the players they share: main, which      *)
(* creates the interfaces; one acceptor per interface                      *)
(* (socket_pthread_per_accept); one session per player (socket_select),    *)
(* which logs in, runs command_who over player_list, and ends in           *)
(* player_close.                                                           *)
(*                                                                         *)
(* The lists are used as module List shows that they behave: an insert, a  *)
(* removal and a list_next are atomic, and a cursor goes on to the next    *)
(* live entry although its own entry was removed.  The memory of players   *)
(* and listeners and the table of descriptors are explicit; a session's    *)
(* input is module Session.                                                *)
(***************************************************************************)
EXTENDS Integers, FiniteSets, FiniteSetsExt, Functions

CONSTANTS
  Listener,   \* the interfaces main creates: addresses of socket_t
  Player,     \* the addresses calloc can return for a player_t
  NULL,
  Stdin, Lost,  \* the standard input; a socket whose descriptor was overwritten
  Fd,         \* the descriptors the process may open, 0..limit
  Addresses,  \* how many addresses getaddrinfo finds for an interface
  MaxConns,   \* bound: how many connections are accepted
  MaxHangUps  \* bound: how many peers hang up

\* The connections, in the order accept returned them.
Conn == 1..MaxConns

ASSUME ServerSets == IsFiniteSet(Listener) /\ IsFiniteSet(Player) /\ IsFiniteSet(Fd)
ASSUME NullApart  == NULL \notin Listener \cup Player \cup Conn
ASSUME Apart ==
  /\ {Stdin, Lost, NULL} \cap (Listener \cup Conn) = {} /\ Listener \cap Conn = {}
  /\ NULL \notin {Stdin, Lost}
ASSUME FdNat      == Fd \subseteq Nat /\ \E limit \in Fd : Fd = 0..limit
ASSUME Bounds     == MaxConns \in Nat /\ MaxHangUps \in Nat /\ Addresses \in Nat \ {0}

VARIABLES
  \* memory and descriptors
  players,          \* allocated player_t
  listeners,        \* allocated socket_t of interfaces
  desc,             \* what each open descriptor refers to
  \* shared lists
  player_list,      \* the live entries [at, who], at the order of the pushes
  plist,            \* listener->list, per interface
  socket_list, interface_list,
  \* fields of player_t
  fd, home,         \* socket.fd, and the interface whose list is p->plist
  logged, name,     \* LOGGED_IN in p->flags, and p->name
  conn,             \* history: the connection the player serves
  \* threads
  mpc, up,          \* main: its step, and the interface it is creating
  apc, new_player,  \* per acceptor
  lfd,              \* listener->fd
  pc,               \* per player: where the thread that owns it is
  cursor, scan,     \* per player: node and scan of command_who
  target,           \* history: the connection of scan when list_next returned it
  due,              \* history: connections command_who still has to show
  \* the world
  accepted, gone,   \* connections so far, and those whose peer has hung up
  failed            \* history: interfaces whose accept failed

memVars    == <<players, listeners, desc>>
listVars   == <<player_list, plist, socket_list, interface_list>>
fieldVars  == <<fd, home, logged, name, conn>>
mainVars   == <<mpc, up>>
acceptVars == <<apc, new_player, lfd, failed>>
whoVars    == <<cursor, scan, target, due>>
worldVars  == <<accepted, gone>>
vars == <<memVars, listVars, fieldVars, mainVars, acceptVars, pc, whoVars, worldVars>>

\* What a descriptor refers to: nothing, the standard input, an interface, a
\* connection, or a socket whose descriptor afinet_tcp_listen has overwritten.
Object == {NULL, Stdin, Lost} \cup Listener \cup Conn

InWho == {"who", "flags", "print"}
InUse == {"run", "naming"} \cup InWho
Closing == {"close", "unlink", "unlist", "free"}

\* The fields and the locals have their types, and command_who never
\* dereferences the NULL that list_next returns at the end.
TypeOK ==
  /\ players \in SUBSET Player
  /\ listeners \in SUBSET Listener
  /\ desc \in [Fd -> Object]
  /\ player_list \in SUBSET [at : Conn, who : Player]
  /\ plist \in [Listener -> SUBSET Player]
  /\ socket_list \in SUBSET Listener
  /\ interface_list \in SUBSET Listener
  /\ fd \in [Player -> Fd]
  /\ home \in [Player -> Listener \cup {NULL}]
  /\ logged \in [Player -> BOOLEAN]
  /\ name \in [Player -> Conn \cup {0}]
  /\ conn \in [Player -> Conn \cup {0}]
  /\ mpc \in {"create", "register", "spawn", "report", "exit"}
  /\ up \in Listener \cup {NULL}
  /\ apc \in [Listener -> {"none", "start", "loop", "accept", "push1", "push2", "create",
                           "shut", "drop1", "drop2", "release", "wait", "exit"}]
  /\ new_player \in [Listener -> Player \cup {NULL}]
  /\ lfd \in [Listener -> Fd]
  /\ pc \in [Player -> {"none", "new"} \cup InUse \cup Closing]
  /\ cursor \in [Player -> Conn \cup {0}]
  /\ scan \in [Player -> Player \cup {NULL}]
  /\ \A p \in Player : pc[p] \in {"flags", "print"} => scan[p] # NULL
  /\ target \in [Player -> Conn \cup {0}]
  /\ due \in [Player -> SUBSET Conn]
  /\ accepted \in Conn \cup {0}
  /\ gone \in SUBSET Conn
  /\ failed \in SUBSET Listener

\* main before its first interface_tcp_create: the lists exist and are empty.
Init ==
  /\ players = {} /\ listeners = {}
  /\ desc = [f \in Fd |-> IF f = 0 THEN Stdin ELSE NULL]
  /\ player_list = {} /\ socket_list = {} /\ interface_list = {}
  /\ plist = [l \in Listener |-> {}]
  /\ fd = [p \in Player |-> 0]
  /\ home = [p \in Player |-> NULL]
  /\ logged = [p \in Player |-> FALSE]
  /\ name = [p \in Player |-> 0]
  /\ conn = [p \in Player |-> 0]
  /\ mpc = "create" /\ up = NULL
  /\ apc = [l \in Listener |-> "none"]
  /\ new_player = [l \in Listener |-> NULL]
  /\ lfd = [l \in Listener |-> 0]
  /\ pc = [p \in Player |-> "none"]
  /\ cursor = [p \in Player |-> 0]
  /\ scan = [p \in Player |-> NULL]
  /\ target = [p \in Player |-> 0]
  /\ due = [p \in Player |-> {}]
  /\ accepted = 0 /\ gone = {} /\ failed = {}

\* exit(EXIT_FAILURE) in main ends every thread.
Running == mpc # "exit"

FreeFds == {f \in Fd : desc[f] = NULL}

-----------------------------------------------------------------------------
(* main and interface_tcp_create *)

\* socket_new, afinet_tcp_listen and list_new.  Every address gets a descriptor,
\* the field keeps the last one; the others stay open and are not listened on.
CreateInterface(l) ==
  /\ mpc = "create" /\ up = NULL
  /\ apc[l] = "none"
  /\ \E fs \in kSubset(Addresses, FreeFds) :
       /\ \A f \in fs, g \in FreeFds \ fs : f < g
       /\ desc' = [f \in Fd |-> IF f \notin fs THEN desc[f]
                                ELSE IF f = Max(fs) THEN l ELSE Lost]
       /\ lfd' = [lfd EXCEPT ![l] = Max(fs)]
  /\ listeners' = listeners \cup {l}
  /\ up' = l
  /\ mpc' = "register"
  /\ UNCHANGED <<players, listVars, fieldVars, apc, new_player, failed, pc, whoVars, worldVars>>

\* Any call of interface_tcp_create fails, pthread_create included.
InterfaceFails ==
  /\ mpc \in {"create", "spawn"}
  /\ mpc = "create" => up = NULL /\ \E l \in Listener : apc[l] = "none"
  /\ mpc' = "exit"
  /\ UNCHANGED <<memVars, listVars, fieldVars, up, acceptVars, pc, whoVars, worldVars>>

Register ==
  /\ mpc = "register"
  /\ interface_list' = interface_list \cup {up}
  /\ mpc' = "spawn"
  /\ UNCHANGED <<memVars, player_list, plist, socket_list, fieldVars, up, acceptVars, pc,
                 whoVars, worldVars>>

Spawn ==
  /\ mpc = "spawn"
  /\ apc' = [apc EXCEPT ![up] = "start"]
  /\ mpc' = "report"
  /\ UNCHANGED <<memVars, listVars, fieldVars, up, new_player, lfd, failed, pc, whoVars, worldVars>>

\* The message that the interface is UP reads new->thread.
Report ==
  /\ mpc = "report"
  /\ mpc' = "create" /\ up' = NULL
  /\ UNCHANGED <<memVars, listVars, fieldVars, acceptVars, pc, whoVars, worldVars>>

-----------------------------------------------------------------------------
(* The acceptor: socket_pthread_per_accept *)

AcceptorGoes(l, from, to) ==
  /\ Running
  /\ apc[l] = from
  /\ apc' = [apc EXCEPT ![l] = to]

StartAcceptor(l) ==
  /\ AcceptorGoes(l, "start", "loop")
  /\ socket_list' = socket_list \cup {l}
  /\ UNCHANGED <<memVars, player_list, plist, interface_list, fieldVars, mainVars, new_player,
                 lfd, failed, pc, whoVars, worldVars>>

\* player_new zeroes the player, so that its fd is 0.
player_new(l, p) ==
  /\ p \notin players
  /\ AcceptorGoes(l, "loop", "accept")
  /\ players' = players \cup {p}
  /\ new_player' = [new_player EXCEPT ![l] = p]
  /\ home' = [home EXCEPT ![p] = l]
  /\ pc' = [pc EXCEPT ![p] = "new"]
  /\ UNCHANGED <<listeners, desc, listVars, fd, logged, name, conn, mainVars, lfd, failed, whoVars,
                 worldVars>>

PlayerNewFails(l) ==
  /\ AcceptorGoes(l, "loop", "shut")
  /\ UNCHANGED <<memVars, listVars, fieldVars, mainVars, new_player, lfd, failed, pc, whoVars,
                 worldVars>>

\* accept gives the least free descriptor; errors that are retried change nothing.
Accept(l) ==
  LET p == new_player[l]
  IN  /\ AcceptorGoes(l, "accept", "push1")
      /\ desc[lfd[l]] = l
      /\ accepted < MaxConns /\ FreeFds # {}
      /\ accepted' = accepted + 1
      /\ desc' = [desc EXCEPT ![Min(FreeFds)] = accepted + 1]
      /\ fd' = [fd EXCEPT ![p] = Min(FreeFds)]
      /\ conn' = [conn EXCEPT ![p] = accepted + 1]
      /\ UNCHANGED <<players, listeners, listVars, home, logged, name, mainVars, new_player, lfd,
                     failed, pc, whoVars, gone>>

\* Any other error: the interface is closed and then the player, whose fd is 0.
AcceptFails(l) ==
  /\ AcceptorGoes(l, "accept", "shut")
  /\ failed' = failed \cup {l}
  /\ UNCHANGED <<memVars, listVars, fieldVars, mainVars, new_player, lfd, pc, whoVars, worldVars>>

PushInterfaceList(l) ==
  /\ AcceptorGoes(l, "push1", "push2")
  /\ plist' = [plist EXCEPT ![l] = @ \cup {new_player[l]}]
  /\ UNCHANGED <<memVars, player_list, socket_list, interface_list, fieldVars, mainVars, new_player,
                 lfd, failed, pc, whoVars, worldVars>>

\* list_push appends: later pushes have the greater at.
Pushed(p) ==
  player_list \cup {[at |-> 1 + Max({0} \cup {e.at : e \in player_list} \cup Range(cursor)),
                     who |-> p]}

PushPlayerList(l) ==
  /\ AcceptorGoes(l, "push2", "create")
  /\ player_list' = Pushed(new_player[l])
  /\ UNCHANGED <<memVars, plist, socket_list, interface_list, fieldVars, mainVars, new_player, lfd,
                 failed, pc, whoVars, worldVars>>

\* Mutant: the acceptor holds on to the player whose session it started.
StartSession_KeepsPlayer(l) ==
  /\ AcceptorGoes(l, "create", "loop")
  /\ pc' = [pc EXCEPT ![new_player[l]] = "run"]
  /\ UNCHANGED <<memVars, listVars, fieldVars, mainVars, new_player, lfd, failed, whoVars, worldVars>>

StartSession(l) ==
  /\ AcceptorGoes(l, "create", "loop")
  /\ pc' = [pc EXCEPT ![new_player[l]] = "run"]
  /\ new_player' = [new_player EXCEPT ![l] = NULL]
  /\ UNCHANGED <<memVars, listVars, fieldVars, mainVars, lfd, failed, whoVars, worldVars>>

\* Mutants: the player is freed without a close; the acceptor gives up.
SessionFails_LeavesOpen(l) ==
  /\ AcceptorGoes(l, "create", "wait")
  /\ pc' = [pc EXCEPT ![new_player[l]] = "unlink"]
  /\ UNCHANGED <<memVars, listVars, fieldVars, mainVars, new_player, lfd, failed, whoVars, worldVars>>
SessionFails_GivesUp(l) ==
  /\ AcceptorGoes(l, "create", "exit")
  /\ pc' = [pc EXCEPT ![new_player[l]] = "close"]
  /\ UNCHANGED <<memVars, listVars, fieldVars, mainVars, new_player, lfd, failed, whoVars, worldVars>>

\* pthread_create fails: the acceptor itself closes the player, and goes on.
SessionFails(l) ==
  /\ AcceptorGoes(l, "create", "wait")
  /\ pc' = [pc EXCEPT ![new_player[l]] = "close"]
  /\ UNCHANGED <<memVars, listVars, fieldVars, mainVars, new_player, lfd, failed, whoVars, worldVars>>

\* socket_close on the interface: close, the two lists, free ...
ShutListener(l) ==
  /\ AcceptorGoes(l, "shut", "drop1")
  /\ desc' = [desc EXCEPT ![lfd[l]] = NULL]
  /\ UNCHANGED <<players, listeners, listVars, fieldVars, mainVars, new_player, lfd, failed, pc,
                 whoVars, worldVars>>

DropSocket(l) ==
  /\ AcceptorGoes(l, "drop1", "drop2")
  /\ socket_list' = socket_list \ {l}
  /\ UNCHANGED <<memVars, player_list, plist, interface_list, fieldVars, mainVars, new_player, lfd,
                 failed, pc, whoVars, worldVars>>

DropInterface(l) ==
  /\ AcceptorGoes(l, "drop2", "release")
  /\ interface_list' = interface_list \ {l}
  /\ UNCHANGED <<memVars, player_list, plist, socket_list, fieldVars, mainVars, new_player, lfd,
                 failed, pc, whoVars, worldVars>>

\* ... and player_close on the player that waited in accept.
ReleaseListener(l) ==
  /\ AcceptorGoes(l, "release", "wait")
  /\ listeners' = listeners \ {l}
  /\ pc' = IF new_player[l] = NULL THEN pc ELSE [pc EXCEPT ![new_player[l]] = "close"]
  /\ UNCHANGED <<players, desc, listVars, fieldVars, mainVars, new_player, lfd, failed, whoVars,
                 worldVars>>

\* The acceptor's player_close has returned: with its interface it goes on.
AfterClose(l) ==
  /\ new_player[l] = NULL
  /\ AcceptorGoes(l, "wait", IF l \in listeners THEN "loop" ELSE "exit")
  /\ UNCHANGED <<memVars, listVars, fieldVars, mainVars, new_player, lfd, failed, pc, whoVars,
                 worldVars>>

-----------------------------------------------------------------------------
(* player_close, by the session or the acceptor *)

SessionGoes(p, from, to) ==
  /\ Running
  /\ pc[p] = from
  /\ pc' = [pc EXCEPT ![p] = to]

\* shutdown and close, of whatever the descriptor refers to by now.
CloseSocket(p) ==
  /\ SessionGoes(p, "close", "unlink")
  /\ desc' = [desc EXCEPT ![fd[p]] = NULL]
  /\ UNCHANGED <<players, listeners, listVars, fieldVars, mainVars, acceptVars, whoVars, worldVars>>

Unlink(p) ==
  /\ SessionGoes(p, "unlink", "unlist")
  /\ plist' = [plist EXCEPT ![home[p]] = @ \ {p}]
  /\ UNCHANGED <<memVars, player_list, socket_list, interface_list, fieldVars, mainVars, acceptVars,
                 whoVars, worldVars>>

Unlist(p) ==
  /\ SessionGoes(p, "unlist", "free")
  /\ player_list' = {e \in player_list : e.who # p}
  /\ due' = [q \in Player |-> due[q] \ {conn[p]}]
  /\ UNCHANGED <<memVars, plist, socket_list, interface_list, fieldVars, mainVars, acceptVars,
                 cursor, scan, target, worldVars>>

\* free: what is read there afterwards is anything.  The acceptor's call returns.
FreePlayer(p) ==
  /\ SessionGoes(p, "free", "none")
  /\ players' = players \ {p}
  /\ fd' = [fd EXCEPT ![p] = 0]
  /\ home' = [home EXCEPT ![p] = NULL]
  /\ logged' = [logged EXCEPT ![p] = FALSE]
  /\ name' = [name EXCEPT ![p] = 0]
  /\ conn' = [conn EXCEPT ![p] = 0]
  /\ new_player' = [l \in Listener |-> IF new_player[l] = p THEN NULL ELSE new_player[l]]
  /\ UNCHANGED <<listeners, desc, listVars, mainVars, apc, lfd, failed, whoVars, worldVars>>

-----------------------------------------------------------------------------
(* The session: socket_select *)

PeerHangsUp(c) ==
  /\ c \in 1..accepted \ gone
  /\ Cardinality(gone) < MaxHangUps
  /\ gone' = gone \cup {c}
  /\ UNCHANGED <<memVars, listVars, fieldVars, mainVars, acceptVars, pc, whoVars, accepted>>

\* Mutant: the flag comes before the name.
WriteName_FlagFirst(p) ==
  /\ ~logged[p]
  /\ SessionGoes(p, "run", "naming")
  /\ logged' = [logged EXCEPT ![p] = TRUE]
  /\ UNCHANGED <<memVars, listVars, fd, home, name, conn, mainVars, acceptVars, whoVars, worldVars>>

\* login_get_name: the name, and only then the flag.
WriteName(p) ==
  /\ ~logged[p]
  /\ SessionGoes(p, "run", "naming")
  /\ name' = [name EXCEPT ![p] = conn[p]]
  /\ UNCHANGED <<memVars, listVars, fd, home, logged, conn, mainVars, acceptVars, whoVars, worldVars>>

SetLoggedIn(p) ==
  /\ SessionGoes(p, "naming", "run")
  /\ logged' = [logged EXCEPT ![p] = TRUE]
  /\ UNCHANGED <<memVars, listVars, fd, home, name, conn, mainVars, acceptVars, whoVars, worldVars>>

\* The session ends when its peer has gone ...
EndSession(p) ==
  /\ conn[p] \in gone
  /\ SessionGoes(p, "run", "close")
  /\ UNCHANGED <<memVars, listVars, fieldVars, mainVars, acceptVars, whoVars, worldVars>>

\* Mutant: command_quit closes the socket, and player_close closes it again.
QuitSession_ClosesTwice(p) ==
  /\ SessionGoes(p, "run", "close")
  /\ desc' = [desc EXCEPT ![fd[p]] = NULL]
  /\ UNCHANGED <<players, listeners, listVars, fieldVars, mainVars, acceptVars, whoVars, worldVars>>

\* ... and may end at any time: command_quit, a telnet IP, a failing select.
QuitSession(p) ==
  /\ SessionGoes(p, "run", "close")
  /\ UNCHANGED <<memVars, listVars, fieldVars, mainVars, acceptVars, whoVars, worldVars>>

-----------------------------------------------------------------------------
(* command_who, and command_twho, which calls it *)

BeginWho(p) ==
  /\ logged[p]
  /\ SessionGoes(p, "run", "who")
  /\ due' = [due EXCEPT ![p] = {conn[e.who] : e \in {d \in player_list : logged[d.who]}}]
  /\ UNCHANGED <<memVars, listVars, fieldVars, mainVars, acceptVars, cursor, scan, target, worldVars>>

Ahead(p) == {e \in player_list : e.at > cursor[p]}

\* The cursor of p moves to the entry e.
MoveTo(p, e) ==
  /\ SessionGoes(p, "who", "flags")
  /\ cursor' = [cursor EXCEPT ![p] = e.at]
  /\ scan' = [scan EXCEPT ![p] = e.who]
  /\ target' = [target EXCEPT ![p] = conn[e.who]]

\* Mutants: an entry is skipped; the cursor stays behind.
NextPlayer_Skips(p) ==
  /\ Ahead(p) # {}
  /\ MoveTo(p, CHOOSE d \in Ahead(p) : \A o \in Ahead(p) : d.at >= o.at)
  /\ UNCHANGED <<memVars, listVars, fieldVars, mainVars, acceptVars, due, worldVars>>
NextPlayer_Stays(p) ==
  /\ Ahead(p) # {}
  /\ SessionGoes(p, "who", "flags")
  /\ scan' = [scan EXCEPT ![p] = (CHOOSE d \in Ahead(p) : TRUE).who]
  /\ UNCHANGED <<memVars, listVars, fieldVars, mainVars, acceptVars, cursor, target, due, worldVars>>

\* list_next: the first live entry behind the cursor, or the end.
NextPlayer(p) ==
  /\ Ahead(p) # {}
  /\ MoveTo(p, CHOOSE d \in Ahead(p) : \A o \in Ahead(p) : d.at <= o.at)
  /\ UNCHANGED <<memVars, listVars, fieldVars, mainVars, acceptVars, due, worldVars>>

EndWho(p) ==
  /\ Ahead(p) = {}
  /\ SessionGoes(p, "who", "run")
  /\ cursor' = [cursor EXCEPT ![p] = 0]
  /\ scan' = [scan EXCEPT ![p] = NULL]
  /\ target' = [target EXCEPT ![p] = 0]
  /\ UNCHANGED <<memVars, listVars, fieldVars, mainVars, acceptVars, due, worldVars>>

\* scan->flags, read without a lock: anything once scan has been freed.
ReadFlags(p) ==
  /\ \E seen \in (IF scan[p] \in players THEN {logged[scan[p]]} ELSE BOOLEAN) :
       SessionGoes(p, "flags", IF seen THEN "print" ELSE "who")
  /\ UNCHANGED <<memVars, listVars, fieldVars, mainVars, acceptVars, whoVars, worldVars>>

\* The player list_next returned is the one that is still there.
Fresh(p) == scan[p] \in players /\ conn[scan[p]] = target[p]

PrintName(p) ==
  /\ SessionGoes(p, "print", "who")
  /\ due' = IF Fresh(p) THEN [due EXCEPT ![p] = @ \ {target[p]}] ELSE due
  /\ UNCHANGED <<memVars, listVars, fieldVars, mainVars, acceptVars, cursor, scan, target, worldVars>>

-----------------------------------------------------------------------------
Main == (\E l \in Listener : CreateInterface(l)) \/ Register \/ Spawn \/ Report

Acceptor(l) ==
  \/ StartAcceptor(l)
  \/ PlayerNewFails(l) \/ \E p \in Player : player_new(l, p)
  \/ PushInterfaceList(l)
  \/ PushPlayerList(l)
  \/ StartSession(l) \/ SessionFails(l)
  \/ ShutListener(l)
  \/ DropSocket(l)
  \/ DropInterface(l)
  \/ ReleaseListener(l)
  \/ AfterClose(l)

Close(p) == CloseSocket(p) \/ Unlink(p) \/ Unlist(p) \/ FreePlayer(p)

Session(p) ==
  \/ Close(p)
  \/ EndSession(p)
  \/ SetLoggedIn(p)
  \/ NextPlayer(p)
  \/ EndWho(p)
  \/ ReadFlags(p)
  \/ PrintName(p)

Next ==
  \/ Main
  \/ InterfaceFails
  \/ \E l \in Listener : Acceptor(l) \/ Accept(l) \/ AcceptFails(l)
  \/ \E p \in Player : Session(p) \/ QuitSession(p) \/ WriteName(p) \/ BeginWho(p)
  \/ \E c \in Conn : PeerHangsUp(c)

Spec == Init /\ [][Next]_vars

\* A thread that is not blocked in accept or select is scheduled again.  The lines
\* of a peer that has gone are finitely many, so its session comes to their end
\* (module Session, HangUpCloses): strong fairness of EndSession.
FairSpec ==
  /\ Spec
  /\ \A l \in Listener : WF_vars(Acceptor(l))
  /\ \A p \in Player : WF_vars(Session(p)) /\ SF_vars(EndSession(p))

-----------------------------------------------------------------------------
(* Properties *)

\* Every entry of player_list and of an interface's list is a player that has not
\* been freed, and every entry of socket_list and interface_list an interface that
\* has not: what command_who gets from list_next is allocated when it gets it.
ListsAllocated ==
  /\ \A e \in player_list : e.who \in players
  /\ \A l \in Listener : plist[l] \subseteq players
  /\ socket_list \cup interface_list \subseteq listeners

\* A running session is in player_list, once, and in the list of its interface,
\* and a player in player_list is in the other list or is being closed.
Listed ==
  \A p \in Player :
    LET entries == {e \in player_list : e.who = p}
    IN  /\ Cardinality(entries) <= 1
        /\ pc[p] \in InUse => entries # {} /\ p \in plist[home[p]]
        /\ entries # {} => p \in plist[home[p]] \/ pc[p] = "unlist"

\* An allocated player has exactly one owner: an acceptor that is about to start
\* or close it, or its session's thread.
OneOwner ==
  \A p \in players :
    LET holders == {l \in Listener : new_player[l] = p}
    IN  /\ Cardinality(holders) <= 1
        /\ pc[p] \in InUse => holders = {}
        /\ pc[p] = "new" => holders # {}

\* What the threads share is sound at every step of player_close, of the acceptor and of
\* its failures: the lists lead to allocated memory, agree with one another, and every
\* player has one thread that will free it.
SharingSound == TypeOK /\ ListsAllocated /\ Listed /\ OneOwner

\* player_close shuts the connection of its own player and no other, and a session
\* reads from its own peer, as long as at most one accept has failed: that closes
\* descriptor 0, which the next connection may get and the next failure close.
OwnDescriptor ==
  Cardinality(failed) <= 1 =>
    \A p \in Player : pc[p] \in InUse \cup {"close"} /\ conn[p] # 0 => desc[fd[p]] = conn[p]

\* A connection's descriptor is open only while a player that will close it exists,
\* whatever failed on the way (pthread_create after the two pushes, say).  The listening
\* descriptors that afinet_tcp_listen loses stay open, and are no part of this.
NoDescriptorLeak ==
  \A f \in Fd : desc[f] \in Conn =>
    \E p \in players : conn[p] = desc[f] /\ fd[p] = f /\ pc[p] \notin Closing \ {"close"}

\* command_who prints the whole name of the player it was given, LOGGED_IN being set
\* after the name is written, unless that player was freed after list_next: the code
\* reads it then all the same, or another player at its address.
WhoSound ==
  [][\A p \in Player : pc[p] = "print" /\ pc'[p] = "who" /\ Fresh(p) =>
       name[scan[p]] = target[p]]_vars

\* command_who shows everybody who was logged in from its start to its end,
\* although players come and go and entries under its cursor are removed.
WhoComplete == \A p \in Player : pc[p] \notin InWho => due[p] = {}

\* When a peer has hung up its player leaves both lists and is freed.
Departs ==
  \A p \in Player :
    (pc[p] \in InUse /\ conn[p] \in gone) ~> (pc[p] = "none" \/ ~Running)

\* An acceptor always comes back to accept, or ends with its interface released:
\* neither a failing pthread_create nor the close of its player holds it up.
AcceptorReturns ==
  \A l \in Listener : apc[l] # "none" ~>
    (apc[l] = "accept" \/ (apc[l] = "exit" /\ l \notin listeners) \/ ~Running)
=============================================================================
