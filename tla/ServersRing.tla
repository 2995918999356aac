---------------------------- MODULE ServersRing ----------------------------
(***************************************************************************)
(* The ring of server processes: each server connects to the next live     *)
(* port of config.txt, watches that connection, and takes part in the ring *)
(* election when the primary is gone (ServersRing and Election).           *)
(*                                                                         *)
(* Servers are named by the line of config.txt whose port they have bound. *)
(* A server runs one thread that accepts its predecessor and listens to it *)
(* ("listener") and, normally, one that connects to its successor and      *)
(* watches it ("connector").  They share socket_client, client_addr,       *)
(* disconnected and the position in config.txt without any lock.           *)
(***************************************************************************)
EXTENDS Naturals, Sequences, FiniteSets, SequencesExt

CONSTANTS
    N,           \* lines of config.txt
    Id,          \* the port on each line
    MaxCrashes,  \* bound: servers that crash
    MaxThreads,  \* bound: connectors a server starts
    MaxSockets,  \* bound: sockets the connectors of a server create
    Overlap      \* TRUE: a server may crash while the ring still recovers from a crash

Server == 1 .. N

ASSUME ConstantsAssumption ==
    /\ N \in Nat \ {0}
    /\ Id \in [Server -> Nat \ {0}]
    /\ \A s, t \in Server : Id[s] = Id[t] => s = t
    /\ MaxCrashes \in Nat
    /\ MaxThreads \in Nat \ {0}
    /\ MaxSockets \in Nat \ {0}
    /\ Overlap \in BOOLEAN

VARIABLES
    alive,         \* servers that have not crashed
    primary,       \* ServersRing::primary, a port
    isPrimary,     \* ServersRing::isPrimary (and Server::isPrimaryServer)
    participating, \* Election::isParticipating
    disconnected,  \* ServersRing::disconnected
    filePos,       \* the line of config.txt read last
    clientAddr,    \* the line client_addr was read from; 0 at the start
    created,       \* sockets the connectors of a server have created
    socketClient,  \* ServersRing::socket_client, the one created last; 0 if none
    peer,          \* the server each socket is connected to, or 0
    chan,          \* what was written to each socket and not yet read
    backlog,       \* sockets waiting to be accepted by a server, in order
    listener,      \* program counter of the listener
    from,          \* the socket the listener reads
    connector,     \* program counter of each connector
    canStart,      \* canStartElection of each connector
    watched        \* the socket a connector reads in checkIfConnectionFailed

vars == <<alive, primary, isPrimary, participating, disconnected, filePos, clientAddr,
          created, socketClient, peer, chan, backlog, listener, from, connector,
          canStart, watched>>

elected    == <<primary, isPrimary, participating>>
sockets    == <<created, socketClient, peer>>
address    == <<filePos, clientAddr>>
connectors == <<connector, canStart, watched>>
listeners  == <<listener, from>>

-----------------------------------------------------------------------------
Thread == 1 .. MaxThreads
Socket == 1 .. MaxSockets

Message == [status : {"ELECTION", "ELECTED"}, id : {Id[s] : s \in Server}]

TypeOK ==
    /\ alive \subseteq Server
    /\ primary \in [Server -> {Id[s] : s \in Server}]
    /\ isPrimary \in [Server -> BOOLEAN]
    /\ participating \in [Server -> BOOLEAN]
    /\ disconnected \in [Server -> BOOLEAN]
    /\ filePos \in [Server -> Server]
    /\ clientAddr \in [Server -> 0 .. N]
    /\ created \in [Server -> 0 .. MaxSockets]
    /\ socketClient \in [Server -> 0 .. MaxSockets]
    /\ peer \in [Server -> [Socket -> 0 .. N]]
    /\ chan \in [Server -> [Socket -> Seq(Message)]]
    /\ backlog \in [Server -> Seq(Server \X Socket)]
    /\ listener \in [Server -> {"spawn", "accept", "listen"}]
    /\ from \in [Server -> (Server \X Socket) \cup {<<0, 0>>}]
    /\ connector \in [Server -> [Thread -> {"off", "start", "connect", "connected", "watch"}]]
    /\ canStart \in [Server -> [Thread -> BOOLEAN]]
    /\ watched \in [Server -> [Thread -> 0 .. MaxSockets]]

(* Every server has bound a port and is about to start its listener; the     *)
(* server on the first line is the primary.                                  *)
Init ==
    /\ alive = Server
    /\ primary = [s \in Server |-> Id[1]]
    /\ isPrimary = [s \in Server |-> s = 1]
    /\ participating = [s \in Server |-> FALSE]
    /\ disconnected = [s \in Server |-> FALSE]
    /\ filePos = [s \in Server |-> s]
    /\ clientAddr = [s \in Server |-> 0]
    /\ created = [s \in Server |-> 0]
    /\ socketClient = [s \in Server |-> 0]
    /\ peer = [s \in Server |-> [i \in Socket |-> 0]]
    /\ chan = [s \in Server |-> [i \in Socket |-> <<>>]]
    /\ backlog = [s \in Server |-> <<>>]
    /\ listener = [s \in Server |-> "spawn"]
    /\ from = [s \in Server |-> <<0, 0>>]
    /\ connector = [s \in Server |-> [k \in Thread |-> "off"]]
    /\ canStart = [s \in Server |-> [k \in Thread |-> FALSE]]
    /\ watched = [s \in Server |-> [k \in Thread |-> 0]]

-----------------------------------------------------------------------------
(* getNewPortFromFile reads the lines in turn and starts again at the end.   *)
NextLine(l) == IF l = N THEN 1 ELSE l + 1

(* sendMessageToNextServer; a write to a dead or unconnected socket is lost. *)
Written(s, i, m) ==
    IF i # 0 /\ peer[s][i] \in alive THEN [chan EXCEPT ![s][i] = Append(@, m)] ELSE chan

-----------------------------------------------------------------------------
(* connectToServer.                                                          *)

BugStartConnector(s, k) ==
    /\ s \in alive
    /\ connector[s][k] = "start"
    /\ created[s] < MaxSockets
    /\ created' = [created EXCEPT ![s] = @ + 1]
    /\ socketClient' = [socketClient EXCEPT ![s] = created[s] + 1]
    /\ canStart' = [canStart EXCEPT ![s][k] = Id[NextLine(filePos[s])] = primary[s]]
    /\ filePos' = [filePos EXCEPT ![s] = NextLine(@)]
    /\ clientAddr' = [clientAddr EXCEPT ![s] = NextLine(filePos[s])]
    /\ connector' = [connector EXCEPT ![s][k] = "connect"]
    /\ UNCHANGED <<alive, elected, disconnected, peer, chan, backlog, listeners, watched>>

(* A new socket and the next line of the file; the thread may start an       *)
(* election if the server it was connected to is the primary.                *)
StartConnector(s, k) ==
    /\ s \in alive
    /\ connector[s][k] = "start"
    /\ created[s] < MaxSockets
    /\ created' = [created EXCEPT ![s] = @ + 1]
    /\ socketClient' = [socketClient EXCEPT ![s] = created[s] + 1]
    /\ canStart' = [canStart EXCEPT ![s][k] =
          clientAddr[s] # 0 /\ Id[clientAddr[s]] = primary[s]]
    /\ filePos' = [filePos EXCEPT ![s] = NextLine(@)]
    /\ clientAddr' = [clientAddr EXCEPT ![s] = NextLine(filePos[s])]
    /\ connector' = [connector EXCEPT ![s][k] = "connect"]
    /\ UNCHANGED <<alive, elected, disconnected, peer, chan, backlog, listeners, watched>>

CanConnect(s) ==
    /\ clientAddr[s] \in alive
    /\ peer[s][socketClient[s]] = 0

Connect(s, k) ==
    LET t == clientAddr[s]
        i == socketClient[s]
    IN  /\ s \in alive
        /\ connector[s][k] = "connect"
        /\ CanConnect(s)
        /\ peer' = [peer EXCEPT ![s][i] = t]
        /\ backlog' = [backlog EXCEPT ![t] = Append(@, <<s, i>>)]
        /\ connector' = [connector EXCEPT ![s][k] = "connected"]
        /\ UNCHANGED <<alive, elected, disconnected, address, created, socketClient,
                       chan, listeners, canStart, watched>>

(* A failed attempt moves on to the next line, but only after a              *)
(* disconnection; before one it tries the same port again.                   *)
TryNextPort(s, k) ==
    LET l == NextLine(filePos[s])
    IN  /\ s \in alive
        /\ connector[s][k] = "connect"
        /\ ~CanConnect(s)
        /\ disconnected[s]
        /\ l # s
        /\ filePos' = [filePos EXCEPT ![s] = l]
        /\ clientAddr' = [clientAddr EXCEPT ![s] = l]
        /\ UNCHANGED <<alive, elected, disconnected, sockets, chan, backlog,
                       listeners, connectors>>

(* Back at its own port, the server takes itself for the only one left.      *)
OnlyServerLeft(s, k) ==
    LET l == NextLine(filePos[s])
    IN  /\ s \in alive
        /\ connector[s][k] = "connect"
        /\ ~CanConnect(s)
        /\ disconnected[s]
        /\ l = s
        /\ primary' = [primary EXCEPT ![s] = Id[s]]
        /\ isPrimary' = [isPrimary EXCEPT ![s] = TRUE]
        /\ disconnected' = [disconnected EXCEPT ![s] = FALSE]
        /\ filePos' = [filePos EXCEPT ![s] = NextLine(l)]
        /\ clientAddr' = [clientAddr EXCEPT ![s] = NextLine(l)]
        /\ UNCHANGED <<alive, participating, sockets, chan, backlog, listeners, connectors>>

(* Once connected: startElection, and on to checkIfConnectionFailed.         *)
Connected(s, k) ==
    LET i == socketClient[s]
        starts == disconnected[s] /\ canStart[s][k]
    IN  /\ s \in alive
        /\ connector[s][k] = "connected"
        /\ chan' = IF starts THEN Written(s, i, [status |-> "ELECTION", id |-> Id[s]]) ELSE chan
        /\ canStart' = [canStart EXCEPT ![s][k] = FALSE]
        /\ disconnected' = [disconnected EXCEPT ![s] = FALSE]
        /\ watched' = [watched EXCEPT ![s][k] = i]
        /\ connector' = [connector EXCEPT ![s][k] = "watch"]
        /\ UNCHANGED <<alive, elected, address, sockets, backlog, listeners>>

(* The watched connection ends: a new connector takes over.                  *)
ConnectionFailed(s, k) ==
    /\ s \in alive
    /\ connector[s][k] = "watch"
    /\ peer[s][watched[s][k]] \notin alive
    /\ disconnected' = [disconnected EXCEPT ![s] = TRUE]
    /\ connector' = [connector EXCEPT ![s][k] = "start"]
    /\ UNCHANGED <<alive, elected, address, sockets, chan, backlog, listeners,
                   canStart, watched>>

-----------------------------------------------------------------------------
(* AcceptServerConnection and listenClientCommunication.                     *)

(* The thread starts a connector unless there was a disconnection.           *)
SpawnConnector(s) ==
    /\ s \in alive
    /\ listener[s] = "spawn"
    /\ IF disconnected[s] THEN UNCHANGED connector
       ELSE \E k \in Thread :
               /\ connector[s][k] = "off"
               /\ \A j \in 1 .. k - 1 : connector[s][j] # "off"
               /\ connector' = [connector EXCEPT ![s][k] = "start"]
    /\ listener' = [listener EXCEPT ![s] = "accept"]
    /\ UNCHANGED <<alive, elected, disconnected, address, sockets, chan, backlog,
                   from, canStart, watched>>

Accept(s) ==
    /\ s \in alive
    /\ listener[s] = "accept"
    /\ backlog[s] # <<>>
    /\ from' = [from EXCEPT ![s] = Head(backlog[s])]
    /\ backlog' = [backlog EXCEPT ![s] = Tail(@)]
    /\ listener' = [listener EXCEPT ![s] = "listen"]
    /\ UNCHANGED <<alive, elected, disconnected, address, sockets, chan, connectors>>

Inbox(s) == IF listener[s] = "listen" THEN chan[from[s][1]][from[s][2]] ELSE <<>>

(* The channels once the listener of s has read a message and, unless out is *)
(* <<>>, passed a message on to its own successor.                           *)
ReadAndSend(s, out) ==
    LET j == from[s]
        i == socketClient[s]
        read == [chan EXCEPT ![j[1]][j[2]] = Tail(@)]
    IN  IF out # <<>> /\ i # 0 /\ peer[s][i] \in alive
        THEN [read EXCEPT ![s][i] = @ \o out] ELSE read

BugLarger(x, y) == IF x < y THEN x ELSE y

Larger(x, y) == IF x > y THEN x ELSE y

(* processElectionInfo.                                                      *)

BugJoinElection(s) ==
    /\ s \in alive
    /\ Inbox(s) # <<>>
    /\ ~participating[s]
    /\ participating' = [participating EXCEPT ![s] = Head(Inbox(s)).id > Id[s]]
    /\ chan' = ReadAndSend(s, <<[status |-> "ELECTION", id |-> Larger(Head(Inbox(s)).id, Id[s])]>>)
    /\ UNCHANGED <<alive, primary, isPrimary, disconnected, address, sockets, backlog,
                   listeners, connectors>>

(* The first message of an election, whatever its status: the server joins   *)
(* the election with the larger of the two ids.                              *)
JoinElection(s) ==
    /\ s \in alive
    /\ Inbox(s) # <<>>
    /\ ~participating[s]
    /\ participating' = [participating EXCEPT ![s] = TRUE]
    /\ chan' = ReadAndSend(s, <<[status |-> "ELECTION", id |-> Larger(Head(Inbox(s)).id, Id[s])]>>)
    /\ UNCHANGED <<alive, primary, isPrimary, disconnected, address, sockets, backlog,
                   listeners, connectors>>

(* The candidate of the ring comes round again: its owner has won.           *)
PassCandidate(s) ==
    LET m == Head(Inbox(s))
    IN  /\ s \in alive
        /\ Inbox(s) # <<>>
        /\ participating[s]
        /\ m.status = "ELECTION"
        /\ chan' = ReadAndSend(s,
              <<IF m.id = Id[s] THEN [status |-> "ELECTED", id |-> m.id] ELSE m>>)
        /\ UNCHANGED <<alive, elected, disconnected, address, sockets, backlog,
                       listeners, connectors>>

BugWinnerStays(s) ==
    LET m == Head(Inbox(s))
    IN  /\ s \in alive
        /\ Inbox(s) # <<>>
        /\ participating[s]
        /\ m.status = "ELECTED"
        /\ participating' = [participating EXCEPT ![s] = m.id = Id[s]]
        /\ primary' = [primary EXCEPT ![s] = m.id]
        /\ isPrimary' = [isPrimary EXCEPT ![s] = @ \/ m.id = Id[s]]
        /\ chan' = ReadAndSend(s, IF m.id = Id[s] THEN <<>> ELSE <<m>>)
        /\ UNCHANGED <<alive, disconnected, address, sockets, backlog, listeners, connectors>>

(* The result: it is passed on until it is back at the winner.               *)
AcceptResult(s) ==
    LET m == Head(Inbox(s))
    IN  /\ s \in alive
        /\ Inbox(s) # <<>>
        /\ participating[s]
        /\ m.status = "ELECTED"
        /\ participating' = [participating EXCEPT ![s] = FALSE]
        /\ primary' = [primary EXCEPT ![s] = m.id]
        /\ isPrimary' = [isPrimary EXCEPT ![s] = @ \/ m.id = Id[s]]
        /\ chan' = ReadAndSend(s, IF m.id = Id[s] THEN <<>> ELSE <<m>>)
        /\ UNCHANGED <<alive, disconnected, address, sockets, backlog, listeners, connectors>>

(* The predecessor is gone: the listener starts over.                        *)
PredecessorGone(s) ==
    /\ s \in alive
    /\ listener[s] = "listen"
    /\ Inbox(s) = <<>>
    /\ from[s][1] \notin alive
    /\ disconnected' = [disconnected EXCEPT ![s] = TRUE]
    /\ listener' = [listener EXCEPT ![s] = "spawn"]
    /\ from' = [from EXCEPT ![s] = <<0, 0>>]
    /\ UNCHANGED <<alive, elected, address, sockets, chan, backlog, connectors>>

-----------------------------------------------------------------------------
(* The servers form one ring, nothing is on its way and one of them leads.   *)
Successor(s) == IF socketClient[s] = 0 THEN 0 ELSE peer[s][socketClient[s]]

Settled ==
    /\ \A s \in alive :
          /\ \E k \in Thread : connector[s][k] = "watch" /\ watched[s][k] = socketClient[s]
          /\ Successor(s) \in alive
          /\ listener[s] = "listen"
          /\ from[s][1] \in alive
          /\ \A i \in Socket : chan[s][i] = <<>>
    /\ \E s \in alive : isPrimary[s]

(* Every server has reached its successor once.                              *)
RingFormed == \A s \in Server : peer[s][1] # 0

Crash(s) ==
    /\ s \in alive
    /\ Cardinality(Server \ alive) < MaxCrashes
    /\ IF Overlap THEN RingFormed ELSE Settled
    /\ alive' = alive \ {s}
    /\ UNCHANGED <<elected, disconnected, address, sockets, chan, backlog,
                   listeners, connectors>>

ConnectorStep(s, k) ==
    \/ StartConnector(s, k)
    \/ Connect(s, k)
    \/ TryNextPort(s, k)
    \/ OnlyServerLeft(s, k)
    \/ Connected(s, k)
    \/ ConnectionFailed(s, k)

ListenerStep(s) ==
    \/ SpawnConnector(s)
    \/ Accept(s)
    \/ JoinElection(s)
    \/ PassCandidate(s)
    \/ AcceptResult(s)
    \/ PredecessorGone(s)

Next ==
    \/ \E s \in Server : ListenerStep(s) \/ Crash(s)
    \/ \E s \in Server, k \in Thread : ConnectorStep(s, k)

Spec == Init /\ [][Next]_vars

(* Every thread of a live server runs.                                       *)
Fairness ==
    /\ \A s \in Server : WF_vars(ListenerStep(s))
    /\ \A s \in Server, k \in Thread : WF_vars(ConnectorStep(s, k))

FairSpec == Spec /\ Fairness

-----------------------------------------------------------------------------
(* Properties.                                                               *)

(* No two live servers take themselves for the primary, at any moment of an  *)
(* election.                                                                 *)
AtMostOnePrimary ==
    \A s, t \in alive : isPrimary[s] /\ isPrimary[t] => s = t

(* The ring election makes the live server with the highest port primary.    *)
HighestWins ==
    [][\A s \in alive : isPrimary'[s] /\ ~isPrimary[s] => \A t \in alive : Id[t] <= Id[s]]_vars

(* Once the ring has settled, every server knows who leads it and the ring   *)
(* has no trace of the election left that would spoil the next one.          *)
Agreement ==
    Settled => \A s \in alive :
        /\ ~participating[s]
        /\ \A t \in alive : isPrimary[t] => primary[s] = Id[t]

(* As long as two servers are left to form a ring, one of them is primary     *)
(* again and again: the ring notices that the primary is down and elects the  *)
(* next one.                                                                 *)
HasPrimary == \E s \in alive : isPrimary[s]

RingHasPrimary == []<>(Cardinality(alive) < 2 \/ HasPrimary)

(* README: the next server is elected, also when only one server is left.     *)
PrimaryEventually == []<>(alive = {} \/ HasPrimary)
=============================================================================
