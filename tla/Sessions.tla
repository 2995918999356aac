------------------------------ MODULE Sessions ------------------------------
(***************************************************************************)
(* User sessions at the serving (primary) server: the session counter of   *)
(* Server, the group table of ServerGroupManager, the session entries of   *)
(* Group and User, and the end of a front-end connection.                  *)
(*                                                                         *)
(* Each front end (FE) is served by two threads: "listener" runs           *)
(* Server::listenFrontEndCommunication and "monitor" runs                  *)
(* Server::monitorConnection.  Both end in Server::closeFrontEndConnection.*)
(* A step is a piece of code that runs under one semaphore, or one         *)
(* unprotected access to shared state.                                     *)
(***************************************************************************)
EXTENDS Naturals, FiniteSets

CONSTANTS
    Client,        \* client sessions, one per UUID a client process draws
    User,          \* user names
    Group,         \* group names
    FE,            \* front ends, one listener and one monitor thread each
    UserOf,        \* the user name in a client's JOIN packet
    GroupOf,       \* the group name in a client's JOIN packet
    FeOf,          \* the front end a client is connected to
    MaxSessions,   \* MAX_NUMBER_OF_SIMULTANEOUS_CONNECTIONS
    EarlyTimeout,  \* TRUE: a keep-alive may be late while the FE is alive
    FeTagStable,   \* FALSE: FE_DISCONNECT, a dangling pointer, may compare unequal
    OldGroups,     \* groups that exist before the first JOIN of this model
    NoGroup, NoClient

ASSUME ConstantsAssumption ==
    /\ IsFiniteSet(Client)
    /\ UserOf \in [Client -> User]
    /\ GroupOf \in [Client -> Group]
    /\ FeOf \in [Client -> FE]
    /\ MaxSessions \in Nat \ {0}
    /\ EarlyTimeout \in BOOLEAN
    /\ FeTagStable \in BOOLEAN
    /\ OldGroups \subseteq Group
    /\ Client \cap Group = {}
    /\ NoGroup \notin Client \cup Group
    /\ NoClient \notin Client

VARIABLES
    connectionsCount,  \* Server::connectionsCount, the sessions counted per user
    groupMap,          \* ServerGroupManager::groupMap: the Group object of a name
    home,              \* the Group object a client's thread got from groupMap
    sessions,          \* clients with an entry in some User of some Group object
    stage,             \* where a client is in its life, as its device sees it
    packet,            \* the client whose packet a listener is handling
    pc,                \* program counter of each FE's two threads
    feAddresses,       \* Server::feAddresses (and the keys of FeAddressBook)
    open,              \* FE sockets that are open descriptors of the server
    feUp,              \* FEs that have not gone away
    closes             \* calls of close() made for each FE

vars == <<connectionsCount, groupMap, home, sessions, stage, packet, pc,
          feAddresses, open, feUp, closes>>

-----------------------------------------------------------------------------
(* A Group object is named by the client whose JOIN created it, or by its   *)
(* group name if it was there from the start.                               *)
Object == Client \cup Group

Thread == {"listener", "monitor"}

ListenerSteps == {"top", "reading", "count", "lookup", "create", "fetch", "register"}

ClosingSteps == {"check", "drop", "close", "purge", "done"}

(* The client has been counted and is on its way to a session entry.        *)
Registering == {"lookup", "create", "fetch", "register"}

Stages == {"new", "joining", "accepted", "unregistered", "refused", "left"}

TypeOK ==
    /\ connectionsCount \in [User -> Nat]
    /\ groupMap \in [Group -> Object \cup {NoGroup}]
    /\ home \in [Client -> Object \cup {NoGroup}]
    /\ sessions \subseteq Client
    /\ stage \in [Client -> Stages]
    /\ packet \in [FE -> Client \cup {NoClient}]
    /\ pc \in [FE -> [Thread -> ListenerSteps \cup ClosingSteps \cup {"watching"}]]
    /\ feAddresses \subseteq FE
    /\ open \subseteq FE
    /\ feUp \subseteq FE
    /\ closes \in [FE -> Nat]

Init ==
    /\ connectionsCount = [u \in User |-> 0]
    /\ groupMap = [g \in Group |-> IF g \in OldGroups THEN g ELSE NoGroup]
    /\ home = [c \in Client |-> NoGroup]
    /\ sessions = {}
    /\ stage = [c \in Client |-> "new"]
    /\ packet = [f \in FE |-> NoClient]
    /\ pc = [f \in FE |-> [t \in Thread |-> IF t = "listener" THEN "top" ELSE "watching"]]
    /\ feAddresses = FE
    /\ open = FE
    /\ feUp = FE
    /\ closes = [f \in FE |-> 0]

At(f, t, l) == pc[f][t] = l

Goto(f, t, l) == pc' = [pc EXCEPT ![f][t] = l]

-----------------------------------------------------------------------------
(* The listener thread of an FE.                                            *)

(* The next readPacket: it blocks on an open descriptor and fails at once on *)
(* one that the monitor thread has closed.                                   *)
ListenerTop(f) ==
    /\ At(f, "listener", "top")
    /\ Goto(f, "listener", IF f \in open THEN "reading" ELSE "check")
    /\ UNCHANGED <<connectionsCount, groupMap, home, sessions, stage, packet,
                   feAddresses, open, feUp, closes>>

(* A JOIN arrives.  A descriptor closed under a blocked read still delivers. *)
ReadJoin(f, c) ==
    /\ At(f, "listener", "reading")
    /\ f \in feUp
    /\ FeOf[c] = f
    /\ stage[c] = "new"
    /\ stage' = [stage EXCEPT ![c] = "joining"]
    /\ packet' = [packet EXCEPT ![f] = c]
    /\ Goto(f, "listener", "count")
    /\ UNCHANGED <<connectionsCount, groupMap, home, sessions, feAddresses,
                   open, feUp, closes>>

(* The front end is gone: readPacket returns end of file.                    *)
ReadEof(f) ==
    /\ At(f, "listener", "reading")
    /\ f \notin feUp
    /\ Goto(f, "listener", "check")
    /\ UNCHANGED <<connectionsCount, groupMap, home, sessions, stage, packet,
                   feAddresses, open, feUp, closes>>

(* registerUserToServer up to the release of sockets_connections_semaphore.  *)
BugLimitReached(u) == connectionsCount[u] > MaxSessions

LimitReached(u) == connectionsCount[u] >= MaxSessions

IncrementNumberOfConnections(f) ==
    LET c == packet[f]
        u == UserOf[c]
    IN  /\ At(f, "listener", "count")
        /\ ~LimitReached(u)
        /\ connectionsCount' = [connectionsCount EXCEPT ![u] = @ + 1]
        /\ Goto(f, "listener", "lookup")
        /\ UNCHANGED <<groupMap, home, sessions, stage, packet, feAddresses,
                       open, feUp, closes>>

BugRefuseConnection(f) ==
    /\ At(f, "listener", "count")
    /\ LimitReached(UserOf[packet[f]])
    /\ Goto(f, "listener", "top")
    /\ UNCHANGED <<connectionsCount, groupMap, home, sessions, stage, packet,
                   feAddresses, open, feUp, closes>>

RefuseConnection(f) ==
    LET c == packet[f]
    IN  /\ At(f, "listener", "count")
        /\ LimitReached(UserOf[c])
        /\ stage' = [stage EXCEPT ![c] = "refused"]
        /\ Goto(f, "listener", "top")
        /\ UNCHANGED <<connectionsCount, groupMap, home, sessions, packet,
                       feAddresses, open, feUp, closes>>

(* registerUserToGroup: an unprotected test, creation and lookup.            *)
GroupExists(f) ==
    /\ At(f, "listener", "lookup")
    /\ Goto(f, "listener", IF groupMap[GroupOf[packet[f]]] = NoGroup THEN "create" ELSE "fetch")
    /\ UNCHANGED <<connectionsCount, groupMap, home, sessions, stage, packet,
                   feAddresses, open, feUp, closes>>

CreateGroup(f) ==
    LET c == packet[f]
    IN  /\ At(f, "listener", "create")
        /\ groupMap' = [groupMap EXCEPT ![GroupOf[c]] = c]
        /\ Goto(f, "listener", "fetch")
        /\ UNCHANGED <<connectionsCount, home, sessions, stage, packet,
                       feAddresses, open, feUp, closes>>

FetchGroup(f) ==
    LET c == packet[f]
    IN  /\ At(f, "listener", "fetch")
        /\ home' = [home EXCEPT ![c] = groupMap[GroupOf[c]]]
        /\ Goto(f, "listener", "register")
        /\ UNCHANGED <<connectionsCount, groupMap, sessions, stage, packet,
                       feAddresses, open, feUp, closes>>

(* The entries of one User of one Group object.                             *)
EntriesIn(o, u) == {c \in sessions : home[c] = o /\ UserOf[c] = u}

(* User::registerSession: the limit holds per User object, not per user.     *)
HasRoom(c) == Cardinality(EntriesIn(home[c], UserOf[c])) < MaxSessions

BugRegisterNewSession(f) ==
    LET c == packet[f]
        hasRoom == Cardinality(EntriesIn(home[c], UserOf[c])) + 1 < MaxSessions
    IN  /\ At(f, "listener", "register")
        /\ sessions' = IF hasRoom THEN sessions \cup {c} ELSE sessions
        /\ stage' = [stage EXCEPT ![c] = IF hasRoom THEN "accepted" ELSE "unregistered"]
        /\ Goto(f, "listener", "top")
        /\ UNCHANGED <<connectionsCount, groupMap, home, packet, feAddresses,
                       open, feUp, closes>>

(* registerNewSession: ACCEPT and history are sent, then the entry is made  *)
(* under usersSemaphore if User::registerSession has room for it.           *)
RegisterNewSession(f) ==
    LET c == packet[f]
    IN  /\ At(f, "listener", "register")
        /\ sessions' = IF HasRoom(c) THEN sessions \cup {c} ELSE sessions
        /\ stage' = [stage EXCEPT ![c] = IF HasRoom(c) THEN "accepted" ELSE "unregistered"]
        /\ Goto(f, "listener", "top")
        /\ UNCHANGED <<connectionsCount, groupMap, home, packet, feAddresses,
                       open, feUp, closes>>

BugRelease(S) ==
    /\ sessions' = sessions \ S
    /\ connectionsCount' = [u \in User |->
           IF \E c \in S : UserOf[c] = u /\ EntriesIn(home[c], u) \subseteq S
           THEN connectionsCount[u] - 1 ELSE connectionsCount[u]]

(* disconnectSession for a set of entries: each costs its user one count.   *)
Release(S) ==
    /\ sessions' = sessions \ S
    /\ connectionsCount' = [u \in User |->
           connectionsCount[u] - Cardinality({c \in S : UserOf[c] = u})]

(* Only the Group objects in groupMap are told about a disconnection.       *)
Reachable(c) == groupMap[GroupOf[c]] = home[c]

BugReadDisconnect(f, c) ==
    /\ At(f, "listener", "reading")
    /\ f \in feUp
    /\ FeOf[c] = f
    /\ stage[c] \in {"accepted", "unregistered", "refused"}
    /\ Release({d \in sessions : d = c /\ Reachable(d) /\ EntriesIn(home[c], UserOf[c]) = {c}})
    /\ stage' = [stage EXCEPT ![c] = "left"]
    /\ packet' = [packet EXCEPT ![f] = c]
    /\ Goto(f, "listener", "top")
    /\ UNCHANGED <<groupMap, home, feAddresses, open, feUp, closes>>

(* A DISCONNECT arrives: closeClientConnection for one client.              *)
ReadDisconnect(f, c) ==
    /\ At(f, "listener", "reading")
    /\ f \in feUp
    /\ FeOf[c] = f
    /\ stage[c] \in {"accepted", "unregistered", "refused"}
    /\ Release({d \in sessions : d = c /\ Reachable(d)})
    /\ stage' = [stage EXCEPT ![c] = "left"]
    /\ packet' = [packet EXCEPT ![f] = c]
    /\ Goto(f, "listener", "top")
    /\ UNCHANGED <<groupMap, home, feAddresses, open, feUp, closes>>

-----------------------------------------------------------------------------
(* The monitor thread: the keep-alive of the FE timed out, either late or   *)
(* because the listener called killSocket on its way out.                   *)
MonitorExpires(f) ==
    /\ At(f, "monitor", "watching")
    /\ EarlyTimeout \/ pc[f]["listener"] \in ClosingSteps
    /\ Goto(f, "monitor", "check")
    /\ UNCHANGED <<connectionsCount, groupMap, home, sessions, stage, packet,
                   feAddresses, open, feUp, closes>>

(* closeFrontEndConnection, run by either thread.                           *)

(* The look at feAddresses under feAddressesSemaphore.                      *)
CloseCheck(f, t) ==
    /\ At(f, t, "check")
    /\ Goto(f, t, IF f \in feAddresses THEN "drop" ELSE "done")
    /\ UNCHANGED <<connectionsCount, groupMap, home, sessions, stage, packet,
                   feAddresses, open, feUp, closes>>

(* closeClientConnection(FE_DISCONNECT): every reachable entry of the FE in *)
(* the groups whose comparison with the FE_DISCONNECT tag succeeds: each     *)
(* Group object makes its own, and all do unless the tag dangles.           *)
DropSessions(f, t) ==
    /\ At(f, t, "drop")
    /\ \E matched \in IF FeTagStable THEN {Group} ELSE SUBSET Group :
           Release({d \in sessions : FeOf[d] = f /\ Reachable(d) /\ GroupOf[d] \in matched})
    /\ Goto(f, t, "close")
    /\ UNCHANGED <<groupMap, home, stage, packet, feAddresses, open, feUp, closes>>

(* close() of whatever descriptor the address book gives (0 once purged).   *)
CloseSocket(f, t) ==
    /\ At(f, t, "close")
    /\ open' = open \ {f}
    /\ closes' = [closes EXCEPT ![f] = @ + 1]
    /\ Goto(f, t, "purge")
    /\ UNCHANGED <<connectionsCount, groupMap, home, sessions, stage, packet,
                   feAddresses, feUp>>

BugPurge(f, t) ==
    /\ At(f, t, "purge")
    /\ Goto(f, t, "done")
    /\ UNCHANGED <<connectionsCount, groupMap, home, sessions, stage, packet,
                   feAddresses, open, feUp, closes>>

(* The front end leaves feAddresses and the address book.                    *)
PurgeFeConnection(f, t) ==
    /\ At(f, t, "purge")
    /\ feAddresses' = feAddresses \ {f}
    /\ Goto(f, t, "done")
    /\ UNCHANGED <<connectionsCount, groupMap, home, sessions, stage, packet,
                   open, feUp, closes>>

-----------------------------------------------------------------------------
(* The front end's process goes away.                                       *)
FeDies(f) ==
    /\ f \in feUp
    /\ feUp' = feUp \ {f}
    /\ UNCHANGED <<connectionsCount, groupMap, home, sessions, stage, packet,
                   pc, feAddresses, open, closes>>

ListenerStep(f) ==
    \/ ListenerTop(f)
    \/ ReadEof(f)
    \/ IncrementNumberOfConnections(f)
    \/ RefuseConnection(f)
    \/ GroupExists(f)
    \/ CreateGroup(f)
    \/ FetchGroup(f)
    \/ RegisterNewSession(f)

ClosingStep(f, t) ==
    \/ CloseCheck(f, t)
    \/ DropSessions(f, t)
    \/ CloseSocket(f, t)
    \/ PurgeFeConnection(f, t)

Next ==
    \/ \E f \in FE : ListenerStep(f) \/ MonitorExpires(f) \/ FeDies(f)
    \/ \E f \in FE, c \in Client : ReadJoin(f, c) \/ ReadDisconnect(f, c)
    \/ \E f \in FE, t \in Thread : ClosingStep(f, t)

Spec == Init /\ [][Next]_vars

(* The threads run; packets, timeouts and deaths come when they come.  The  *)
(* monitor does expire once killSocket has removed its entry.               *)
Fairness ==
    /\ \A f \in FE : WF_vars(ListenerStep(f))
    /\ \A f \in FE : WF_vars(pc[f]["listener"] \in ClosingSteps /\ MonitorExpires(f))
    /\ \A f \in FE, t \in Thread : WF_vars(ClosingStep(f, t))

FairSpec == Spec /\ Fairness

-----------------------------------------------------------------------------
(* What ties a listener's packet to its client, for the proofs: a listener  *)
(* handling a JOIN holds a joining client of its own FE, and entries belong *)
(* to clients whose JOIN has been answered.                                 *)
PacketsMatch ==
    \A f \in FE : pc[f]["listener"] \in Registering \cup {"count"} =>
        /\ packet[f] \in Client
        /\ FeOf[packet[f]] = f
        /\ stage[packet[f]] = "joining"

EntriesAnswered == \A c \in sessions : stage[c] \in {"accepted", "left"}

(* The JOIN of a client creates at most one Group object: one that is known *)
(* somewhere was created by a listener that has gone past "create".         *)
Created(c) == (\E g \in Group : groupMap[g] = c) \/ (\E d \in Client : home[d] = c)

CreatorsJoined ==
    \A c \in Client : Created(c) =>
        /\ stage[c] # "new"
        /\ \A f \in FE : packet[f] = c => pc[f]["listener"] \notin {"count", "lookup", "create"}

(* Properties.                                                              *)

(* The client has been counted but has no entry yet.                        *)
IsRegistering(c) ==
    /\ packet[FeOf[c]] = c
    /\ pc[FeOf[c]]["listener"] \in Registering

SlotsOf(u) == {c \in Client : UserOf[c] = u /\ (c \in sessions \/ IsRegistering(c))}

(* Server::connectionsCount is exact: although it is raised in              *)
(* registerUserToServer before the entry exists, and lowered in             *)
(* Group::disconnectSession by whichever thread finds the entry, no         *)
(* interleaving of listeners and monitors loses or repeats a count.         *)
CountExact == \A u \in User : connectionsCount[u] = Cardinality(SlotsOf(u))

(* No user ever holds more than MAX_NUMBER_OF_SIMULTANEOUS_CONNECTIONS      *)
(* entries over all Group objects and front ends, whatever joins race.      *)
SessionLimit ==
    \A u \in User : Cardinality({c \in sessions : UserOf[c] = u}) <= MaxSessions

(* The counter itself stays within the limit, also while joins are half done. *)
CountWithinLimit == \A u \in User : connectionsCount[u] <= MaxSessions

(* User::registerSession never runs out of room for a client that           *)
(* registerUserToServer let through: no client is sent ACCEPT and then left *)
(* without an entry (and with a count nobody will give back).               *)
AcceptMeansEntry == \A c \in Client : stage[c] # "unregistered"

(* The end of a front end, whichever of its threads handles it and however  *)
(* late, only ends sessions of that front end.                              *)
OnlyOwnFe == [][\A c \in sessions \ sessions' : pc'[FeOf[c]] # pc[FeOf[c]]]_vars

(* A client whose DISCONNECT was handled has no entry in a Group object the *)
(* server can still find.                                                   *)
LeftMeansNoEntry ==
    \A c \in sessions : Reachable(c) => stage[c] # "left"

(* When both threads of a front end have finished, no entry of its clients  *)
(* is left (the comment on closeFrontEndConnection).                        *)
FeDeathClearsSessions ==
    \A f \in FE : (\A t \in Thread : At(f, t, "done")) => \A c \in sessions : FeOf[c] # f

(* Every JOIN that was read is answered, by ACCEPT or by CONNECTION_REFUSED. *)
JoinAnswered == \A c \in Client : stage[c] = "joining" ~> stage[c] # "joining"

(* A front end that goes away is eventually gone from the server's tables,   *)
(* with all of its sessions, for good.                                       *)
FeDeathHandled ==
    \A f \in FE : f \notin feUp ~> [](f \notin feAddresses /\ \A c \in sessions : FeOf[c] # f)

(* README: a connection is denied when the same user is connected in         *)
(* MaxSessions other devices.                                                *)
OtherDevices(c) ==
    {d \in Client \ {c} : UserOf[d] = UserOf[c] /\ stage[d] \in {"joining", "accepted"}}

RefusedOnlyWhenFull ==
    \A f \in FE : At(f, "listener", "count") /\ LimitReached(UserOf[packet[f]])
                  => Cardinality(OtherDevices(packet[f])) >= MaxSessions

(* closeFrontEndConnection closes the socket of a front end at most once     *)
(* (its early return is there because "we already closed this socket").      *)
ClosedOnce == \A f \in FE : closes[f] <= 1
=============================================================================
