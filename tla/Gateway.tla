------------------------------- MODULE Gateway ------------------------------
(***************************************************************************)
(* The connections of one user from one platform to one message gateway:   *)
(* the pool of Client objects, the channels of the event loop, the map of  *)
(* users, and the goroutines that close connections (ws_server.go,         *)
(* client.go, user_map.go, hub_server.go).                                 *)
(*                                                                         *)
(* A Client object goes back to the pool when it is unregistered, while    *)
(* others may still refer to it.  Connections are numbered in the order in *)
(* which they are accepted; each has an address of its own.                *)
(***************************************************************************)
EXTENDS Integers, Sequences, FiniteSets

CONSTANTS Objects,        \* Client objects
          Loop, Rpc,      \* the event loop, a goroutine of KickUserOffline
          Nobody,         \* no Client object
          ChanSize,       \* room of registerChan and unregisterChan (1000)
          MaxConns,       \* bounds: connections,
          MaxKicks        \* kicks by others than a new connection

Conns == 1..MaxConns
Closers == Conns \cup {Loop, Rpc}

ASSUME GatewayAssumption ==
  /\ {MaxConns, MaxKicks} \subseteq Nat /\ ChanSize \in Nat \ {0}
  /\ Loop # Rpc /\ {Loop, Rpc} \cap Conns = {} /\ Nobody \notin Objects

VARIABLES exclusive,  \* AllLoginButSameTermKick (otherwise DefalutNotKick)
          conn,       \* object -> its connection, 0 before the first
          closed,     \* objects that are closed
          pool,       \* clientPool
          open,       \* connections whose socket is open
          holder,     \* the object of each connection accepted so far
          reader,     \* readMessage of each connection accepted so far
          registerChan, unregisterChan, kickChan,
          users,      \* userMap: the objects of the user
          connNum,    \* onlineUserConnNum
          kicking,    \* Loop and Rpc: what they are about to kick
          closing,    \* who closes -> the object it has locked and is to send
          kicks,      \* kicks so far
          early       \* history: a client was unregistered before it registered

objects == <<conn, closed, pool>>
sockets == <<open, holder, reader>>
channels == <<registerChan, unregisterChan, kickChan>>
map == <<users, connNum>>
GatewayVars == <<exclusive, objects, sockets, channels, map, kicking, closing,
                 kicks, early>>

Rest == [pc |-> "idle"]

GatewayInit ==
  /\ exclusive \in BOOLEAN
  /\ conn = [o \in Objects |-> 0] /\ closed = {} /\ pool = Objects
  /\ open = {} /\ holder = <<>> /\ reader = <<>>
  /\ registerChan = <<>> /\ unregisterChan = <<>> /\ kickChan = <<>>
  /\ users = {} /\ connNum = 0
  /\ kicking = [x \in {Loop, Rpc} |-> Rest]
  /\ closing = [x \in Closers |-> Nobody]
  /\ kicks = 0 /\ early = FALSE

GatewayTypeOK ==
  /\ exclusive \in BOOLEAN
  /\ conn \in [Objects -> 0..MaxConns]
  /\ closed \subseteq Objects /\ pool \subseteq Objects
  /\ open \subseteq Conns /\ holder \in Seq(Objects)
  /\ reader \in [DOMAIN holder -> {"reads", "ended", "done"}]
  /\ registerChan \in Seq(Objects) /\ unregisterChan \in Seq(Objects)
  /\ kickChan \in Seq(SUBSET Objects)
  /\ \A chan \in {registerChan, unregisterChan, kickChan} : Len(chan) =< ChanSize
  /\ users \subseteq Objects /\ connNum \in -MaxConns .. MaxConns
  /\ \A x \in {Loop, Rpc} : kicking[x].pc \in {"idle", "kick", "close"}
  /\ closing \in [Closers -> Objects \cup {Nobody}]
  /\ kicks \in 0..MaxKicks /\ early \in BOOLEAN

-----------------------------------------------------------------------------
(* wsHandler: an object from the pool, ResetClient, registerChan, then      *)
(* readMessage in a goroutine of its own.                                   *)
Accept(o) ==
  LET c == Len(holder) + 1 IN
  /\ c =< MaxConns /\ o \in pool /\ Len(registerChan) < ChanSize
  /\ pool' = pool \ {o} /\ closed' = closed \ {o}
  /\ conn' = [conn EXCEPT ![o] = c]
  /\ open' = open \cup {c}
  /\ holder' = Append(holder, o) /\ reader' = Append(reader, "reads")
  /\ registerChan' = Append(registerChan, o)
  /\ UNCHANGED <<exclusive, unregisterChan, kickChan, map, kicking, closing,
                 kicks, early>>

(* A read fails: the peer or the network, or the socket was closed here. *)
ReadEnds(c) ==
  /\ c \in DOMAIN reader /\ reader[c] = "reads"
  /\ reader' = [reader EXCEPT ![c] = "ended"]
  /\ UNCHANGED <<exclusive, objects, open, holder, channels, map, kicking,
                 closing, kicks, early>>

(* close: under the lock of the client, and only once.  The lock is held    *)
(* until unregisterChan has taken the client.                               *)
Locked(o) == \E x \in Closers : closing[x] = o

Close(x, o) ==
  /\ closing[x] = Nobody /\ ~Locked(o)
  /\ IF o \in closed
     THEN UNCHANGED <<closed, open, closing>>
     ELSE /\ closed' = closed \cup {o}
          /\ open' = open \ {conn[o]}
          /\ closing' = [closing EXCEPT ![x] = o]

ReaderCloses(c) ==
  /\ c \in DOMAIN reader /\ reader[c] = "ended"
  /\ Close(c, holder[c])
  /\ reader' = [reader EXCEPT ![c] = "done"]
  /\ UNCHANGED <<exclusive, conn, pool, holder, channels, map, kicking, kicks,
                 early>>

UnRegister(x) ==
  /\ closing[x] # Nobody /\ Len(unregisterChan) < ChanSize
  /\ unregisterChan' = Append(unregisterChan, closing[x])
  /\ closing' = [closing EXCEPT ![x] = Nobody]
  /\ UNCHANGED <<exclusive, objects, sockets, registerChan, kickChan, map,
                 kicking, kicks, early>>

-----------------------------------------------------------------------------
(* DeleteClients: all entries with the addresses of the clients, as they    *)
(* are now.                                                                 *)
Without(U, C) == {u \in U : \A o \in C : conn[u] # conn[o]}

(* Mutant: only clients that are closed already are displaced. *)
DisplacedMutant == IF exclusive THEN {u \in users : u \in closed} ELSE {}

(* multiTerminalLoginChecker *)
Displaced == IF exclusive THEN users ELSE {}

LoopIsFree == kicking[Loop].pc = "idle"

Kicks(x, C, next) ==
  kicking' = [kicking EXCEPT ![x] =
                [pc |-> "kick", clients |-> C, next |-> next]]

(* registerClient *)
Register ==
  /\ LoopIsFree /\ registerChan # <<>> /\ registerChan' = Tail(registerChan)
  /\ users' = Without(users, Displaced)
  /\ Kicks(Loop, Displaced, Head(registerChan))
  /\ UNCHANGED <<exclusive, objects, sockets, unregisterChan, kickChan, connNum,
                 closing, kicks, early>>

(* Mutant: the loop fails on a new client of another gateway. *)
RegisteredMutant ==
  LET a == kicking[Loop] IN
  /\ a.pc = "kick" /\ a.clients = {} /\ closing[Loop] = Nobody
  /\ a.next # Nobody
  /\ users' = users \cup {a.next} /\ connNum' = connNum + 1
  /\ kicking' = [kicking EXCEPT ![Loop] = Rest]
  /\ UNCHANGED <<exclusive, objects, sockets, channels, closing, kicks, early>>

(* The end of registerClient: Set.  The loop then waits until every other   *)
(* gateway has answered MultiTerminalLoginCheck, which is left out: such a  *)
(* call ends by itself and changes nothing here.  What another gateway asks *)
(* of this one is KickElsewhere.                                            *)
Registered ==
  LET a == kicking[Loop] IN
  /\ a.pc = "kick" /\ a.clients = {} /\ closing[Loop] = Nobody
  /\ users' = IF a.next = Nobody THEN users ELSE users \cup {a.next}
  /\ connNum' = IF a.next = Nobody THEN connNum ELSE connNum + 1
  /\ kicking' = [kicking EXCEPT ![Loop] = Rest]
  /\ UNCHANGED <<exclusive, objects, sockets, channels, closing, kicks, early>>

(* KickOnlineMessage, whose message is left out. *)
Kick(o) ==
  /\ kicking[Loop].pc = "kick" /\ o \in kicking[Loop].clients
  /\ Close(Loop, o)
  /\ kicking' = [kicking EXCEPT ![Loop].clients = @ \ {o}]
  /\ UNCHANGED <<exclusive, conn, pool, holder, reader, channels, map, kicks,
                 early>>

(* Mutant: the client is counted and put back, but stays in the map. *)
UnregisterMutant ==
  LET o == Head(unregisterChan) IN
  /\ LoopIsFree /\ unregisterChan # <<>>
  /\ unregisterChan' = Tail(unregisterChan)
  /\ pool' = pool \cup {o} /\ users' = users
  /\ connNum' = connNum - 1
  /\ early' = (early \/ \E i \in 1..Len(registerChan) : registerChan[i] = o)
  /\ UNCHANGED <<exclusive, conn, closed, sockets, registerChan, kickChan,
                 kicking, closing, kicks>>

(* unregisterClient *)
Unregister ==
  LET o == Head(unregisterChan) IN
  /\ LoopIsFree /\ unregisterChan # <<>>
  /\ unregisterChan' = Tail(unregisterChan)
  /\ users' = Without(users, {o})
  /\ connNum' = connNum - 1
  /\ pool' = pool \cup {o}
  /\ early' = (early \/ \E i \in 1..Len(registerChan) : registerChan[i] = o)
  /\ UNCHANGED <<exclusive, conn, closed, sockets, registerChan, kickChan,
                 kicking, closing, kicks>>

-----------------------------------------------------------------------------
(* MultiTerminalLoginCheck: the user has logged in at another gateway.  The *)
(* clients are looked up now and kicked when the loop comes to it.          *)
LoginElsewhere ==
  /\ kicks < MaxKicks /\ kicks' = kicks + 1
  /\ users # {} /\ Len(kickChan) < ChanSize
  /\ kickChan' = Append(kickChan, users)
  /\ UNCHANGED <<exclusive, objects, sockets, registerChan, unregisterChan, map,
                 kicking, closing, early>>

KickElsewhere ==
  /\ LoopIsFree /\ kickChan # <<>> /\ kickChan' = Tail(kickChan)
  /\ IF exclusive
     THEN /\ users' = Without(users, Head(kickChan))
          /\ Kicks(Loop, Head(kickChan), Nobody)
     ELSE UNCHANGED <<users, kicking>>
  /\ UNCHANGED <<exclusive, objects, sockets, registerChan, unregisterChan,
                 connNum, closing, kicks, early>>

(* KickUserOffline: a list of clients, then KickUserConn for each.          *)
KickUserOffline ==
  /\ kicks < MaxKicks /\ kicks' = kicks + 1
  /\ kicking[Rpc].pc = "idle" /\ users # {}
  /\ Kicks(Rpc, users, Nobody)
  /\ UNCHANGED <<exclusive, objects, sockets, channels, map, closing, early>>

DeleteConn(o) ==
  /\ kicking[Rpc].pc = "kick" /\ o \in kicking[Rpc].clients
  /\ closing[Rpc] = Nobody
  /\ users' = Without(users, {o})
  /\ kicking' = [kicking EXCEPT ![Rpc] =
       [pc |-> "close", clients |-> @.clients \ {o}, next |-> o]]
  /\ UNCHANGED <<exclusive, objects, sockets, channels, connNum, closing, kicks,
                 early>>

KickUserConn ==
  LET a == kicking[Rpc] IN
  /\ a.pc = "close"
  /\ Close(Rpc, a.next)
  /\ kicking' = [kicking EXCEPT ![Rpc] = IF a.clients = {} THEN Rest
                   ELSE [pc |-> "kick", clients |-> a.clients, next |-> Nobody]]
  /\ UNCHANGED <<exclusive, conn, pool, holder, reader, channels, map, kicks,
                 early>>

LoopNext ==
  \/ Register \/ Registered \/ Unregister \/ KickElsewhere
  \/ \E o \in Objects : Kick(o)

GatewayNext ==
  \/ LoopNext
  \/ \E o \in Objects : Accept(o) \/ DeleteConn(o)
  \/ \E c \in Conns : ReadEnds(c) \/ ReaderCloses(c)
  \/ \E x \in Closers : UnRegister(x)
  \/ LoginElsewhere \/ KickUserOffline \/ KickUserConn

GatewaySpec == GatewayInit /\ [][GatewayNext]_GatewayVars

(* The event loop and the goroutines that close connections run on. *)
GatewayFairness ==
  /\ WF_GatewayVars(LoopNext)
  /\ \A c \in Conns : WF_GatewayVars(ReaderCloses(c))
  /\ \A x \in Closers : WF_GatewayVars(UnRegister(x))

GatewayFairSpec == GatewaySpec /\ GatewayFairness

-----------------------------------------------------------------------------
(* Under AllLoginButSameTermKick the map holds one client of a terminal at  *)
(* most, whatever closes, is kicked or is used again meanwhile.             *)
OneTerminal == exclusive => Cardinality(users) =< 1

(* When nothing is on its way, the map holds the open connections, each     *)
(* with the object that reads from it, and onlineUserConnNum counts them:   *)
(* pushes reach all of them, and the limit of connections is about them.    *)
(* Except when the loop took a client from unregisterChan before it took it *)
(* from registerChan: then the map keeps it for ever.                       *)
Quiet ==
  /\ registerChan = <<>> /\ unregisterChan = <<>> /\ kickChan = <<>>
  /\ kicking = [x \in {Loop, Rpc} |-> Rest]
  /\ \A x \in Closers : closing[x] = Nobody
  /\ \A c \in DOMAIN reader : reader[c] # "ended"

QuietIsRight ==
  Quiet /\ ~early =>
    /\ users = {holder[c] : c \in open}
    /\ connNum = Cardinality(open)

(* The event loop comes back from what it does, unless unregisterChan, which *)
(* it alone empties and into which it puts the clients it kicks, is full.    *)
LoopComesBack ==
  []<>(LoopIsFree \/ Len(unregisterChan) = ChanSize)
=============================================================================
