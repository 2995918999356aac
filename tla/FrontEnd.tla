------------------------------ MODULE FrontEnd ------------------------------
(***************************************************************************)
(* A front end (ProxyFE) between its clients and the primary server: one   *)
(* thread per client connection, one that forwards messages, one that      *)
(* reads the server and one that waits for the next server, around the     *)
(* descriptor table of the process.  A descriptor closed by one thread is  *)
(* given to the next connection while other threads still hold its number. *)
(*                                                                         *)
(* Servers follow one another: each connects to the front end when it      *)
(* becomes primary and may die at any time; what it has not handled dies   *)
(* with it.  Clients send a message only after the ACK of the one before.  *)
(*                                                                         *)
(* A number is shut down by a thread whose write to it has failed, or by a *)
(* thread that monitors the keep-alives of it, whatever connection has the *)
(* number by then: the peer may be alive.  A server connects only once.    *)
(***************************************************************************)
EXTENDS Integers, Sequences, FiniteSets

CONSTANTS
    Client,       \* client processes
    Leaver,       \* those whose user may close the program
    MaxMessages,  \* bound: how many messages each client sends
    MaxServers,   \* bound: servers that become primary, one after another
    Doubted,      \* bound: the peers whose connections monitors may take for silent
    Nothing       \* what a descriptor that is not open refers to

Server == 1 .. MaxServers

ASSUME ConstantsAssumption ==
    /\ IsFiniteSet(Client)
    /\ Leaver \subseteq Client
    /\ MaxMessages \in [Client -> Nat]
    /\ MaxServers \in Nat \ {0}
    /\ Client \cap Server = {}
    /\ Doubted \subseteq Client \cup Server
    /\ Nothing \notin Client \cup Server

VARIABLES
    phase,     \* where a client is: off, joining, ready, waiting (for an ACK), left
    sent,      \* messages each client has sent
    ack,       \* mutex_ack of each client is unlocked
    inbound,   \* packets from each client that the front end has not read
    primary,   \* the server that became primary last
    primaryUp, \* it has not died
    toServer,  \* packets written to the primary that it has not handled
    fromServer,\* its replies that the front end has not read
    handled,   \* packets that some primary has handled
    fds,       \* descriptor table of the front end
    shut,      \* descriptors that were shut down
    serverRM,  \* serverRM_socket
    accepted,  \* the server whose connection was accepted last
    users,     \* usersMap: the descriptor of each user, 0 if none
    listener,  \* listenClientCommunication of each client
    sockOf,    \* client_socketfd of that thread
    hand,      \* the packet that thread is processing
    target,    \* the number that its sendPacket is about to shut down, or 0
    free,      \* processing_message_semaphore is up
    slot,      \* processing_message
    posted,    \* mutex_consumer_message is unlocked
    consumer,  \* handleProcessingMessage
    slotFd,    \* the number that its sendPacket is about to shut down, or 0
    forwarded, \* packets the consumer has written
    router,    \* listenServerCommunication
    reply,     \* the reply it is routing, and the descriptor it looked up
    down,      \* mutex_server_reconnect is unlocked
    reconnect  \* listenServerReconnect

clients == <<phase, sent, ack, inbound>>
servers == <<primary, primaryUp, toServer, fromServer, handled>>
sockets == <<fds, shut, serverRM, accepted>>
readers == <<listener, sockOf, hand, target, users>>
forward == <<free, slot, posted, consumer, slotFd, forwarded>>
routing == <<router, reply, down, reconnect>>

vars == <<clients, servers, sockets, readers, forward, routing>>

-----------------------------------------------------------------------------
Join(c) == [kind |-> "JOIN", user |-> c, n |-> 0]
Text(c, n) == [kind |-> "MESSAGE", user |-> c, n |-> n]
Disconnect(c) == [kind |-> "DISCONNECT", user |-> c, n |-> 0]
NoPacket == [kind |-> "NONE", user |-> Nothing, n |-> 0]

Packet == [kind : {"JOIN", "MESSAGE", "DISCONNECT"}, user : Client, n : Nat]

(* What the server answers to a packet.                                     *)
Answers(p) == [kind : CASE p.kind = "JOIN" -> {"ACCEPT", "REFUSED"}
                        [] p.kind = "MESSAGE" -> {"ACK"}
                        [] OTHER -> {},
               user : {p.user}]
Reply == [kind : {"ACCEPT", "REFUSED", "ACK"}, user : Client]
NoReply == [kind |-> "NONE", user |-> Nothing]

Fd == 1 .. Cardinality(Client) + 1

ClientTypes ==
    /\ phase \in [Client -> {"off", "joining", "ready", "waiting", "left"}]
    /\ sent \in [Client -> Nat]
    /\ ack \in [Client -> BOOLEAN]
    /\ inbound \in [Client -> Seq(Packet)]

ServerTypes ==
    /\ primary \in Server
    /\ primaryUp \in BOOLEAN
    /\ toServer \in Seq(Packet)
    /\ fromServer \in Seq(Reply)
    /\ handled \subseteq Packet

SocketTypes ==
    /\ fds \in [Fd -> Client \cup Server \cup {Nothing}]
    /\ shut \subseteq {d \in Fd : fds[d] # Nothing}
    /\ serverRM \in Fd
    /\ accepted \in 1 .. primary

ReaderTypes ==
    /\ listener \in [Client -> {"off", "read", "send", "shut", "wait", "put", "unmap",
                               "close"}]
    /\ sockOf \in [Client -> Fd \cup {0}]
    /\ hand \in [Client -> Packet \cup {NoPacket}]
    /\ target \in [Client -> Fd \cup {0}]
    /\ users \in [Client -> Fd \cup {0}]

ForwardTypes ==
    /\ free \in BOOLEAN
    /\ slot \in Packet \cup {NoPacket}
    /\ posted \in BOOLEAN
    /\ consumer \in {"asleep", "send", "shut", "release"}
    /\ slotFd \in Fd \cup {0}
    /\ forwarded \subseteq Packet

RoutingTypes ==
    /\ router \in {"off", "read", "route", "shut", "close", "signal"}
    /\ reply \in [answer : Reply \cup {NoReply}, fd : Fd \cup {0}]
    /\ down \in BOOLEAN
    /\ reconnect \in {"locked", "accept"}

TypeOK ==
    /\ ClientTypes /\ ServerTypes /\ SocketTypes
    /\ ReaderTypes /\ ForwardTypes /\ RoutingTypes

(* The first server is connected before any client is accepted.             *)
Init ==
    /\ phase = [c \in Client |-> "off"]
    /\ sent = [c \in Client |-> 0]
    /\ ack = [c \in Client |-> FALSE]
    /\ inbound = [c \in Client |-> <<>>]
    /\ primary = 1 /\ primaryUp = TRUE
    /\ toServer = <<>> /\ fromServer = <<>> /\ handled = {}
    /\ fds = [d \in Fd |-> IF d = 1 THEN 1 ELSE Nothing]
    /\ shut = {} /\ serverRM = 1 /\ accepted = 1
    /\ users = [c \in Client |-> 0]
    /\ listener = [c \in Client |-> "off"]
    /\ sockOf = [c \in Client |-> 0]
    /\ hand = [c \in Client |-> NoPacket]
    /\ target = [c \in Client |-> 0] /\ slotFd = 0
    /\ free = TRUE /\ slot = NoPacket /\ posted = FALSE /\ consumer = "asleep"
    /\ forwarded = {}
    /\ router = "read" /\ reply = [answer |-> NoReply, fd |-> 0]
    /\ down = FALSE /\ reconnect = "locked"

-----------------------------------------------------------------------------
(* Descriptors and writes.                                                  *)

LowestFree == CHOOSE d \in Fd : /\ fds[d] = Nothing
                                /\ \A e \in Fd : fds[e] = Nothing => d <= e

Alive(peer) == \/ peer \in Server /\ peer = primary /\ primaryUp
               \/ peer \in Client /\ phase[peer] # "left"

(* A connection that the front end has accepted and nobody has ended.       *)
Linked(c) == sockOf[c] # 0 /\ sockOf[c] \notin shut
ServerLinked == fds[serverRM] = primary /\ serverRM \notin shut

(* sendPacket(serverRM_socket, p) writes: the packet is in the socket of    *)
(* whatever the number stands for now.  A server that has died, or a client,*)
(* makes nothing of it.  To read serverRM_socket and to write are one step: *)
(* only handleServerConnection sets it, when the number was closed before,  *)
(* so that a write to the old number could as well have come before.        *)
WriteOk(p) ==
    /\ fds[serverRM] # Nothing
    /\ serverRM \notin shut
    /\ toServer' = IF fds[serverRM] \in Server /\ Alive(fds[serverRM])
                   THEN Append(toServer, p) ELSE toServer

(* It fails, and sendPacket goes on to shut the number down: a step of its  *)
(* own, for the number may be closed and given away in between.             *)
WriteFails ==
    /\ fds[serverRM] = Nothing \/ serverRM \in shut \/ ~Alive(fds[serverRM])
    /\ UNCHANGED toServer

(* shutdown(d, 2): the connection that has the number now is ended.         *)
Shutdown(d) == shut' = shut \cup ({d} \cap {e \in Fd : fds[e] # Nothing})

(* The number is free again, and new when it is given out the next time.    *)
Close(d) ==
    /\ fds' = [fds EXCEPT ![d] = Nothing]
    /\ shut' = shut \ {d}

(* monitorConnectionKeepAlive of some connection takes the number d, which  *)
(* another may have by now, for silent, or the KeepAliver of one fails to   *)
(* write to it, or the server has made up its mind so about the front end.  *)
(* When that happens is a free choice here, and the subject of KeepAlive.   *)
TimesOut(d) ==
    /\ fds[d] \in Doubted
    /\ d \notin shut
    /\ Shutdown(d)
    /\ UNCHANGED <<clients, servers, fds, serverRM, accepted, readers, forward, routing>>

-----------------------------------------------------------------------------
(* Clients (client.cpp) and servers, as the front end meets them.           *)

(* ConnectToServer and registerToServer; handleClientConnection accepts.    *)
ClientConnect(c) ==
    /\ phase[c] = "off"
    /\ phase' = [phase EXCEPT ![c] = "joining"]
    /\ inbound' = [inbound EXCEPT ![c] = <<Join(c)>>]
    /\ fds' = [fds EXCEPT ![LowestFree] = c]
    /\ sockOf' = [sockOf EXCEPT ![c] = LowestFree]
    /\ listener' = [listener EXCEPT ![c] = "read"]
    /\ UNCHANGED <<sent, ack, servers, shut, serverRM, accepted, hand, target, users,
                   forward, routing>>

(* consumeMessagesToSendQueue sends one message, then locks mutex_ack.  What*)
(* is written to a connection that has ended is not sent to anybody.        *)
ClientSend(c) ==
    /\ phase[c] = "ready"
    /\ Linked(c)
    /\ sent[c] < MaxMessages[c]
    /\ sent' = [sent EXCEPT ![c] = @ + 1]
    /\ inbound' = [inbound EXCEPT ![c] = Append(@, Text(c, sent[c] + 1))]
    /\ phase' = [phase EXCEPT ![c] = "waiting"]
    /\ UNCHANGED <<ack, servers, sockets, readers, forward, routing>>

ClientProceed(c) ==
    /\ phase[c] = "waiting"
    /\ ack[c]
    /\ ack' = [ack EXCEPT ![c] = FALSE]
    /\ phase' = [phase EXCEPT ![c] = "ready"]
    /\ UNCHANGED <<sent, inbound, servers, sockets, readers, forward, routing>>

ClientLeaves(c) ==
    /\ c \in Leaver
    /\ phase[c] \in {"joining", "ready", "waiting"}
    /\ phase' = [phase EXCEPT ![c] = "left"]
    /\ UNCHANGED <<sent, ack, inbound, servers, sockets, readers, forward, routing>>

(* receiveFromServer, or registerToServer before it, gets end of file: the  *)
(* program ends.                                                            *)
ClientLosesFE(c) ==
    /\ phase[c] \in {"joining", "ready", "waiting"}
    /\ ~Linked(c)
    /\ phase' = [phase EXCEPT ![c] = "left"]
    /\ UNCHANGED <<sent, ack, inbound, servers, sockets, readers, forward, routing>>

(* The last server of the bound stays up.                                   *)
ServerDies ==
    /\ primaryUp
    /\ primary < MaxServers
    /\ primaryUp' = FALSE
    /\ toServer' = <<>>
    /\ UNCHANGED <<clients, primary, fromServer, handled, sockets, readers, forward, routing>>

(* An election ends; the new primary connects to the front end's port.      *)
NewPrimary ==
    /\ ~primaryUp
    /\ primary' = primary + 1
    /\ primaryUp' = TRUE
    /\ UNCHANGED <<clients, toServer, fromServer, handled, sockets, readers, forward, routing>>

(* An answer needs the connection: it is lost if the front end has closed   *)
(* it, and may be if it was shut down.                                      *)
Answer(p) ==
    \/ /\ Answers(p) = {} \/ ~ServerLinked
       /\ UNCHANGED fromServer
    \/ /\ fds[serverRM] = primary
       /\ \E a \in Answers(p) : fromServer' = Append(fromServer, a)

ServerHandles ==
    /\ toServer # <<>>
    /\ toServer' = Tail(toServer)
    /\ handled' = handled \cup {Head(toServer)}
    /\ Answer(Head(toServer))
    /\ UNCHANGED <<clients, primary, primaryUp, sockets, readers, forward, routing>>

(* The connection is reset, and what the server had not read goes with it.  *)
ServerLosesFE ==
    /\ toServer # <<>>
    /\ ~ServerLinked
    /\ toServer' = <<>>
    /\ UNCHANGED <<clients, primary, primaryUp, fromServer, handled, sockets, readers, forward,
                   routing>>

-----------------------------------------------------------------------------
(* listenClientCommunication.                                               *)

RegisterUserSocket(c) == users' = [users EXCEPT ![c] = sockOf[c]]

(* A packet is read: a JOIN registers the user and is sent to the server    *)
(* by this thread, a message goes to the consumer.                          *)
ReadClient(c) ==
    /\ listener[c] = "read"
    /\ inbound[c] # <<>>
    /\ inbound' = [inbound EXCEPT ![c] = Tail(@)]
    /\ hand' = [hand EXCEPT ![c] = Head(inbound[c])]
    /\ \/ /\ Head(inbound[c]).kind = "JOIN"
          /\ RegisterUserSocket(c)
          /\ listener' = [listener EXCEPT ![c] = "send"]
       \/ /\ Head(inbound[c]).kind = "MESSAGE"
          /\ listener' = [listener EXCEPT ![c] = "wait"]
          /\ UNCHANGED users
    /\ UNCHANGED <<phase, sent, ack, servers, sockets, sockOf, target, forward, routing>>

(* The client is gone, or its connection was shut down: disconnectUser.     *)
ClientEof(c) ==
    /\ listener[c] = "read"
    /\ inbound[c] = <<>>
    /\ phase[c] = "left" \/ sockOf[c] \in shut
    /\ hand' = [hand EXCEPT ![c] = Disconnect(c)]
    /\ listener' = [listener EXCEPT ![c] = "send"]
    /\ UNCHANGED <<clients, servers, sockets, sockOf, target, users, forward, routing>>

(* sendToServer of a JOIN or a DISCONNECT writes to the number that         *)
(* serverRM_socket has.  Once it has, the thread reads on or ends, ...      *)
SendDirect(c) ==
    /\ listener[c] = "send"
    /\ \/ /\ WriteOk(hand[c])
          /\ hand' = [hand EXCEPT ![c] = NoPacket]
          /\ listener' = [listener EXCEPT ![c] = IF hand[c].kind = "JOIN" THEN "read" ELSE "unmap"]
          /\ UNCHANGED target
       \/ /\ WriteFails
          /\ target' = [target EXCEPT ![c] = serverRM]
          /\ listener' = [listener EXCEPT ![c] = "shut"]
          /\ UNCHANGED hand
    /\ UNCHANGED <<clients, primary, primaryUp, fromServer, handled, sockets, sockOf, users,
                   forward, routing>>

(* ... and if the write fails, that number is shut down, whatever has it    *)
(* now, and all is retried.                                                 *)
ShutDirect(c) ==
    /\ listener[c] = "shut"
    /\ Shutdown(target[c])
    /\ target' = [target EXCEPT ![c] = 0]
    /\ listener' = [listener EXCEPT ![c] = "send"]
    /\ UNCHANGED <<clients, servers, fds, serverRM, accepted, sockOf, hand, users, forward,
                   routing>>

(* processing_message_semaphore is not waited for.                          *)
BugWaitSlot(c) ==
    /\ listener[c] = "wait"
    /\ free' = FALSE
    /\ listener' = [listener EXCEPT ![c] = "put"]
    /\ UNCHANGED <<clients, servers, sockets, sockOf, hand, target, users, slot,
                   posted, consumer, slotFd, forwarded, routing>>

(* processIncomingClientMessage: processing_message_semaphore->wait().      *)
WaitSlot(c) ==
    /\ listener[c] = "wait"
    /\ free
    /\ free' = FALSE
    /\ listener' = [listener EXCEPT ![c] = "put"]
    /\ UNCHANGED <<clients, servers, sockets, sockOf, hand, target, users, slot,
                   posted, consumer, slotFd, forwarded, routing>>

(* The message is put for the consumer, whose mutex is unlocked.            *)
PutMessage(c) ==
    /\ listener[c] = "put"
    /\ slot' = hand[c]
    /\ posted' = TRUE
    /\ hand' = [hand EXCEPT ![c] = NoPacket]
    /\ listener' = [listener EXCEPT ![c] = "read"]
    /\ UNCHANGED <<clients, servers, sockets, sockOf, target, users, free, consumer,
                   slotFd, forwarded, routing>>

(* The user is not removed from usersMap.                                   *)
BugUnmap(c) ==
    /\ listener[c] = "unmap"
    /\ listener' = [listener EXCEPT ![c] = "close"]
    /\ UNCHANGED <<clients, servers, sockets, sockOf, hand, target, users, forward, routing>>

(* handleSocketDisconnection: the user is forgotten first, ...             *)
Unmap(c) ==
    /\ listener[c] = "unmap"
    /\ users' = [users EXCEPT ![c] = 0]
    /\ listener' = [listener EXCEPT ![c] = "close"]
    /\ UNCHANGED <<clients, servers, sockets, sockOf, hand, target, forward, routing>>

(* ... then the descriptor is closed, and may be given away.                *)
CloseClient(c) ==
    /\ listener[c] = "close"
    /\ Close(sockOf[c])
    /\ sockOf' = [sockOf EXCEPT ![c] = 0]
    /\ listener' = [listener EXCEPT ![c] = "off"]
    /\ UNCHANGED <<clients, servers, serverRM, accepted, hand, target, users, forward, routing>>

Listener(c) == \/ ReadClient(c) \/ ClientEof(c)
               \/ SendDirect(c) \/ ShutDirect(c)
               \/ WaitSlot(c) \/ PutMessage(c) \/ Unmap(c) \/ CloseClient(c)

-----------------------------------------------------------------------------
(* handleProcessingMessage.                                                 *)

(* The consumer's mutex is not locked again: the message goes out twice.    *)
BugConsumerWakes ==
    /\ consumer = "asleep"
    /\ posted
    /\ consumer' = "send"
    /\ UNCHANGED <<clients, servers, sockets, readers, free, slot, posted, slotFd, forwarded,
                   routing>>

ConsumerWakes ==
    /\ consumer = "asleep"
    /\ posted
    /\ posted' = FALSE
    /\ consumer' = "send"
    /\ UNCHANGED <<clients, servers, sockets, readers, free, slot, slotFd, forwarded, routing>>

(* sendToServer(processing_message), again and again until a write succeeds *)
(* on the number that serverRM_socket has then.                             *)
SendSlot ==
    /\ consumer = "send"
    /\ \/ /\ WriteOk(slot)
          /\ forwarded' = forwarded \cup {slot}
          /\ consumer' = "release"
          /\ UNCHANGED slotFd
       \/ /\ WriteFails
          /\ slotFd' = serverRM
          /\ consumer' = "shut"
          /\ UNCHANGED forwarded
    /\ UNCHANGED <<clients, primary, primaryUp, fromServer, handled, sockets, readers, free, slot,
                   posted, routing>>

(* A failed write gives the message up without releasing its place.         *)
BugShutSlot ==
    /\ consumer = "shut"
    /\ Shutdown(slotFd)
    /\ slotFd' = 0
    /\ consumer' = "asleep"
    /\ UNCHANGED <<clients, servers, fds, serverRM, accepted, readers, free, slot, posted,
                   forwarded, routing>>

(* A failed write is followed by the shutdown of the number it was made to. *)
ShutSlot ==
    /\ consumer = "shut"
    /\ Shutdown(slotFd)
    /\ slotFd' = 0
    /\ consumer' = "send"
    /\ UNCHANGED <<clients, servers, fds, serverRM, accepted, readers, free, slot, posted,
                   forwarded, routing>>

ReleaseSlot ==
    /\ consumer = "release"
    /\ free' = TRUE
    /\ consumer' = "asleep"
    /\ UNCHANGED <<clients, servers, sockets, readers, slot, posted, slotFd, forwarded, routing>>

Consumer == ConsumerWakes \/ SendSlot \/ ShutSlot \/ ReleaseSlot

-----------------------------------------------------------------------------
(* listenServerCommunication.                                               *)

(* processServerPacket looks the user's descriptor up.                      *)
ReadServer ==
    /\ router = "read"
    /\ fromServer # <<>>
    /\ fromServer' = Tail(fromServer)
    /\ reply' = [answer |-> Head(fromServer), fd |-> users[Head(fromServer).user]]
    /\ router' = IF users[Head(fromServer).user] = 0 THEN "read" ELSE "route"
    /\ UNCHANGED <<clients, primary, primaryUp, toServer, handled, sockets, readers, forward,
                   down, reconnect>>

(* What a client does with a packet: registerToServer waits for ACCEPT or   *)
(* REFUSED, receivePacketsFromServer unlocks mutex_ack.                     *)
ClientReceives(c, kind) ==
    /\ phase' = [phase EXCEPT ![c] =
                   IF @ # "joining" THEN @
                   ELSE CASE kind = "ACCEPT" -> "ready"
                          [] kind = "REFUSED" -> "left"
                          [] OTHER -> @]
    /\ ack' = [ack EXCEPT ![c] = @ \/ (kind = "ACK" /\ phase[c] \in {"ready", "waiting"})]

(* The answer is written to whatever has that descriptor now.               *)
RouteReply ==
    /\ router = "route"
    /\ LET peer == fds[reply.fd] IN
       \/ /\ peer \in Client /\ Alive(peer) /\ reply.fd \notin shut
          /\ ClientReceives(peer, reply.answer.kind)
          /\ reply' = [answer |-> NoReply, fd |-> 0]
          /\ router' = "read"
       \/ /\ peer # Nothing /\ ~Alive(peer) /\ reply.fd \notin shut
          /\ reply' = [answer |-> NoReply, fd |-> 0]
          /\ router' = "read"
          /\ UNCHANGED <<phase, ack>>
       \/ /\ ~Alive(peer) \/ reply.fd \in shut
          /\ router' = "shut"
          /\ UNCHANGED <<phase, ack, reply>>
    /\ UNCHANGED <<sent, inbound, servers, sockets, readers, forward, down, reconnect>>

(* If the write fails, the number is shut down; nothing is retried.         *)
ShutReply ==
    /\ router = "shut"
    /\ Shutdown(reply.fd)
    /\ reply' = [answer |-> NoReply, fd |-> 0]
    /\ router' = "read"
    /\ UNCHANGED <<clients, servers, fds, serverRM, accepted, readers, forward, down, reconnect>>

(* The server is gone, or its connection was shut down; answers still under *)
(* way may be lost with it.                                                 *)
ServerEof ==
    /\ router = "read"
    /\ ~Alive(fds[serverRM]) \/ serverRM \in shut
    /\ router' = "close"
    /\ UNCHANGED <<clients, servers, sockets, readers, forward, reply, down, reconnect>>

(* handleServerDisconnection: the descriptor is closed ...                  *)
CloseServer ==
    /\ router = "close"
    /\ Close(serverRM)
    /\ fromServer' = <<>>
    /\ router' = "signal"
    /\ UNCHANGED <<clients, primary, primaryUp, toServer, handled, serverRM, accepted, readers,
                   forward, reply, down, reconnect>>

(* handleServerDisconnection does not unlock mutex_server_reconnect.        *)
BugSignalReconnect ==
    /\ router = "signal"
    /\ router' = "off"
    /\ UNCHANGED <<clients, servers, sockets, readers, forward, reply, down, reconnect>>

(* ... and mutex_server_reconnect unlocked.                                 *)
SignalReconnect ==
    /\ router = "signal"
    /\ down' = TRUE
    /\ router' = "off"
    /\ UNCHANGED <<clients, servers, sockets, readers, forward, reply, reconnect>>

Router == ReadServer \/ RouteReply \/ ShutReply \/ ServerEof \/ CloseServer \/ SignalReconnect

-----------------------------------------------------------------------------
(* listenServerReconnect.                                                   *)

ReconnectWakes ==
    /\ reconnect = "locked"
    /\ down
    /\ down' = FALSE
    /\ reconnect' = "accept"
    /\ UNCHANGED <<clients, servers, sockets, readers, forward, router, reply>>

(* handleServerConnection accepts the next server that has connected.       *)
HandleServerConnection ==
    /\ reconnect = "accept"
    /\ accepted < primary
    /\ accepted' = accepted + 1
    /\ fds' = [fds EXCEPT ![LowestFree] = accepted + 1]
    /\ serverRM' = LowestFree
    /\ router' = "read"
    /\ reconnect' = "locked"
    /\ UNCHANGED <<clients, servers, shut, readers, forward, reply, down>>

Reconnect == ReconnectWakes \/ HandleServerConnection

-----------------------------------------------------------------------------
Users == \E c \in Client : \/ ClientConnect(c) \/ ClientSend(c) \/ ClientProceed(c)
                           \/ ClientLeaves(c) \/ ClientLosesFE(c)
Servers == ServerDies \/ NewPrimary \/ ServerHandles \/ ServerLosesFE
FeThreads == (\E c \in Client : Listener(c)) \/ Consumer \/ Router \/ Reconnect
Monitors == \E d \in Fd : TimesOut(d)

Next == Users \/ Servers \/ FeThreads \/ Monitors

Spec == Init /\ [][Next]_vars

(* The scheduler runs every thread of the front end that can run, a server  *)
(* that is up handles what it was sent, and a dead primary is replaced.     *)
FairSpec ==
    /\ Spec
    /\ \A c \in Client : WF_vars(Listener(c))
    /\ WF_vars(Consumer) /\ WF_vars(Router) /\ WF_vars(Reconnect)
    /\ WF_vars(NewPrimary) /\ WF_vars(ServerHandles)

-----------------------------------------------------------------------------
(* Properties.                                                              *)

(* No packet is handled twice: a retry of sendToServer (ProxyFE.cpp:544)    *)
(* never repeats a write that reached a server, whoever is the server now.  *)
Handles(p) == toServer # <<>> /\ p = Head(toServer) /\ toServer' = Tail(toServer) /\ primaryUp'
HandledOnce == [][\A p \in handled : ~Handles(p)]_vars

(* A message that a listener has read and handed over is the one in         *)
(* processing_message or has been written to some server: no listener       *)
(* overwrites the message of another (ProxyFE.cpp:565-567).                 *)
NothingOverwritten ==
    \A c \in Client : \A n \in 1 .. sent[c] :
        \/ \E i \in 1 .. Len(inbound[c]) : inbound[c][i] = Text(c, n)
        \/ hand[c] = Text(c, n)
        \/ slot = Text(c, n)
        \/ Text(c, n) \in forwarded

(* A client goes on to its next message only when a primary has handled the *)
(* one before (client.cpp:87), although the descriptor an ACK is routed to  *)
(* may have changed hands since it was looked up.                           *)
AckMeansHandled ==
    \A c \in Client : phase[c] = "ready" /\ sent[c] > 0 => Text(c, sent[c]) \in handled

(* usersMap never leads to the descriptor of somebody else, although        *)
(* descriptors are reused as soon as they are closed (ProxyFE.cpp:501-504). *)
UsersOwnSockets == \A c \in Client : users[c] # 0 => fds[users[c]] = c

(* The primary was accepted and its connection is gone, shut down under it  *)
(* (Socket.cpp:60, ProxyFE.cpp:387): it does not connect again.             *)
Abandoned == primaryUp /\ accepted = primary /\ fds[serverRM] # primary

(* A message waiting in the front end while the servers are down is taken   *)
(* by the socket of some connection in the end, unless the front end has    *)
(* lost a primary that is alive (ProxyFE.cpp:524-527).                      *)
SlotFreed == ~free ~> free \/ Abandoned

(* The front end catches up with the servers: the newest primary is         *)
(* accepted, however the connection of the one before was lost.             *)
ConnectsEventually == accepted < primary ~> accepted = primary

(* README.md:12: after every loss of the server the front end reads the     *)
(* next one.                                                                *)
AlwaysServed == router = "off" ~> router = "read"

(* README.md:12: a message sent is delivered once a server is back, unless  *)
(* none comes back because the primary was abandoned.                       *)
Delivered ==
    \A c \in Client : (\E n \in 1 .. MaxMessages[c] : hand[c] = Text(c, n))
        ~> Text(c, sent[c]) \in handled \/ Abandoned

=============================================================================
