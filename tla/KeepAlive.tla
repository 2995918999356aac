----------------------------- MODULE KeepAlive ------------------------------
(***************************************************************************)
(* How a process finds out that a peer has fallen silent: for every        *)
(* connection a listener thread reads KEEP_ALIVE packets and refreshes a   *)
(* table of times, and a monitor thread looks at the table and shuts the   *)
(* connection down when its time is old (ConnectionMonitor, in a front     *)
(* end); connections to servers also have a thread that sends KEEP_ALIVE   *)
(* packets (ConnectionKeeper).  Table and threads go by the number of the  *)
(* descriptor, which the next connection gets when the listener has closed *)
(* it.                                                                     *)
(*                                                                         *)
(* A KEEP_ALIVE counts when it is read.  The listener of a client reads    *)
(* nothing while it waits for processing_message_semaphore or retries to   *)
(* send to the server, for as long as no server takes anything.            *)
(*                                                                         *)
(* Time is counted in ticks of KEEP_ALIVE_INTERVAL seconds.  Between two   *)
(* ticks each thread that slept runs, each peer that is alive sends one    *)
(* KEEP_ALIVE, and each listener that waits for packets reads them: nobody *)
(* is late by more than one interval, but for the listeners that are held. *)
(***************************************************************************)
EXTENDS Integers, FiniteSets

CONSTANTS
    MaxConnections, \* bound: connections accepted, one after another
    MaxFd,          \* bound: connections open at a time
    Kept,           \* connections with a ConnectionKeeper
    Timeout         \* KEEP_ALIVE_TIMEOUT in intervals

Connection == 1 .. MaxConnections
Fd == 1 .. MaxFd
Nobody == 0

ASSUME ConstantsAssumption ==
    /\ MaxConnections \in Nat /\ MaxFd \in Nat
    /\ Kept \subseteq Connection
    /\ Timeout \in Nat \ {0, 1, 2}

VARIABLES
    accepted,  \* connections accepted so far
    fds,       \* the connection each descriptor is for
    shut,      \* descriptors that were shut down
    fdOf,      \* the number that the threads of a connection go by
    peer,      \* what the other end of a connection does
    due,       \* peers that have to send a KEEP_ALIVE before the next tick
    unread,    \* connections with KEEP_ALIVEs that the listener has not read
    quiet,     \* ticks since it read the last KEEP_ALIVE, up to Timeout + 2
    age,       \* socketLastKeepAlive: the age of each entry, Timeout if absent or 0
    listener,  \* the listener thread of each connection
    monitor,   \* its monitor thread
    keeper,    \* its ConnectionKeeper
    target,    \* the number a keeper's write failed on, 0 if it is not one of Fd
    held,      \* history variable: at how many ticks since it read a KEEP_ALIVE a
               \* listener was busy, up to Timeout - 1, until its number is given up
    followed   \* history variable: connections whose number a thread of an earlier
               \* one was about to shut down before they were monitored

sockets == <<accepted, fds, shut, fdOf>>
peers == <<peer, due, unread, quiet>>
threads == <<listener, monitor, keeper, target>>
history == <<held, followed>>
vars == <<sockets, peers, age, threads, history>>

TypeOK ==
    /\ accepted \in 0 .. MaxConnections
    /\ fds \in [Fd -> Connection \cup {Nobody}]
    /\ shut \subseteq {d \in Fd : fds[d] # Nobody}
    /\ fdOf \in [Connection -> Fd \cup {0}]
    /\ peer \in [Connection -> {"off", "alive", "silent", "gone"}]
    /\ due \subseteq Connection /\ unread \subseteq Connection
    /\ quiet \in [Connection -> 0 .. Timeout + 2]
    /\ age \in [Fd -> 0 .. Timeout]
    /\ listener \in [Connection -> {"off", "read", "busy", "tell", "forget", "close", "done"}]
    /\ monitor \in [Connection -> {"off", "start", "sleep", "look", "erase", "shutdown", "done"}]
    /\ keeper \in [Connection -> {"off", "sleep", "write", "shutdown", "done"}]
    /\ target \in [Connection -> Fd \cup {0}]
    /\ held \in [Connection -> 0 .. Timeout - 1]
    /\ followed \subseteq Connection

Init ==
    /\ accepted = 0
    /\ fds = [d \in Fd |-> Nobody]
    /\ shut = {}
    /\ fdOf = [c \in Connection |-> 0]
    /\ peer = [c \in Connection |-> "off"]
    /\ due = {} /\ unread = {}
    /\ quiet = [c \in Connection |-> 0]
    /\ age = [d \in Fd |-> Timeout]
    /\ listener = [c \in Connection |-> "off"]
    /\ monitor = [c \in Connection |-> "off"]
    /\ keeper = [c \in Connection |-> "off"]
    /\ target = [c \in Connection |-> 0]
    /\ held = [c \in Connection |-> 0]
    /\ followed = {}

-----------------------------------------------------------------------------
(* Threads that will shut a number down, whatever connection has it then.    *)
Shooting(d) == {c \in Connection :
    \/ fdOf[c] = d /\ monitor[c] \in {"erase", "shutdown"}
    \/ target[c] = d /\ keeper[c] = "shutdown"}

(* shutdown(): EBADF, and nothing else, if the number is not in use.         *)
Shutdown(d) == shut' = IF fds[d] = Nobody THEN shut ELSE shut \cup {d}

(* accept: the lowest free number, and a thread each to listen and monitor.  *)
Accept ==
    /\ accepted < MaxConnections
    /\ LET c == accepted + 1
       IN  \E d \in Fd :
             /\ fds[d] = Nobody /\ \A e \in Fd : fds[e] = Nobody => d <= e
             /\ accepted' = c
             /\ fds' = [fds EXCEPT ![d] = c]
             /\ fdOf' = [fdOf EXCEPT ![c] = d]
             /\ peer' = [peer EXCEPT ![c] = "alive"]
             /\ listener' = [listener EXCEPT ![c] = "read"]
             /\ monitor' = [monitor EXCEPT ![c] = "start"]
             /\ keeper' = [keeper EXCEPT ![c] = IF c \in Kept THEN "sleep" ELSE "off"]
             /\ followed' = IF Shooting(d) # {} THEN followed \cup {c} ELSE followed
    /\ UNCHANGED <<shut, due, unread, quiet, age, target, held>>

-----------------------------------------------------------------------------
(* The other end.  A peer that is silent hangs or is cut off, or its own     *)
(* keeper has stopped.                                                       *)
SendKeepAlive(c) ==
    /\ c \in due
    /\ due' = due \ {c}
    /\ unread' = unread \cup {c}
    /\ UNCHANGED <<sockets, peer, quiet, age, threads, history>>

Stop(c) ==
    /\ peer[c] = "alive"
    /\ \E p \in {"silent", "gone"} : peer' = [peer EXCEPT ![c] = p]
    /\ due' = due \ {c}
    /\ UNCHANGED <<sockets, unread, quiet, age, threads, history>>

-----------------------------------------------------------------------------
(* The listener reads a KEEP_ALIVE: refresh.  (held stands still once some    *)
(* thread is to shut the number down.)                                       *)
ReadKeepAlive(c) ==
    /\ listener[c] = "read"
    /\ c \in unread
    /\ unread' = unread \ {c}
    /\ quiet' = [quiet EXCEPT ![c] = 0]
    /\ age' = [age EXCEPT ![fdOf[c]] = 0]
    /\ held' = IF Shooting(fdOf[c]) # {} \/ fdOf[c] \in shut THEN held ELSE [held EXCEPT ![c] = 0]
    /\ UNCHANGED <<sockets, peer, due, threads, followed>>

(* A JOIN or a message that a client has sent: registerUserSocket retries to  *)
(* send the one, the other waits for its place in                            *)
(* processIncomingClientMessage.  More of them that wait behind it only make *)
(* the listener busy for longer.                                             *)
ReadPacket(c) ==
    /\ c \notin Kept
    /\ peer[c] = "alive"
    /\ listener[c] = "read"
    /\ listener' = [listener EXCEPT ![c] = "busy"]
    /\ UNCHANGED <<sockets, peers, age, monitor, keeper, target, history>>

(* ... until a server takes it.                                              *)
Unblock(c) ==
    /\ listener[c] = "busy"
    /\ listener' = [listener EXCEPT ![c] = "read"]
    /\ UNCHANGED <<sockets, peers, age, monitor, keeper, target, history>>

(* End of file, also of a connection that was shut down or reset before all   *)
(* of it was read.  disconnectUser tells the server of a client that has sent *)
(* something, and retries until one takes it; ...                            *)
EndOfFile(c) ==
    /\ listener[c] = "read"
    /\ peer[c] = "gone" \/ fdOf[c] \in shut
    /\ \E l \in IF c \in Kept THEN {"forget"} ELSE {"tell", "forget"} :
           listener' = [listener EXCEPT ![c] = l]
    /\ unread' = unread \ {c}
    /\ UNCHANGED <<sockets, peer, due, quiet, age, monitor, keeper, target, history>>

Told(c) ==
    /\ listener[c] = "tell"
    /\ listener' = [listener EXCEPT ![c] = "forget"]
    /\ UNCHANGED <<sockets, peers, age, monitor, keeper, target, history>>

(* ... then killSocket and close.                                            *)
KillSocket(c) ==
    /\ listener[c] = "forget"
    /\ age' = [age EXCEPT ![fdOf[c]] = Timeout]
    /\ listener' = [listener EXCEPT ![c] = "close"]
    /\ UNCHANGED <<sockets, peers, monitor, keeper, target, history>>

Close(c) ==
    /\ listener[c] = "close"
    /\ fds' = [fds EXCEPT ![fdOf[c]] = Nobody]
    /\ shut' = shut \ {fdOf[c]}
    /\ listener' = [listener EXCEPT ![c] = "done"]
    /\ peer' = [peer EXCEPT ![c] = "gone"]
    /\ due' = due \ {c}
    /\ quiet' = [quiet EXCEPT ![c] = 0]
    /\ held' = [held EXCEPT ![c] = 0]
    /\ UNCHANGED <<accepted, fdOf, unread, age, monitor, keeper, target, followed>>

-----------------------------------------------------------------------------
BugStart(c) ==
    /\ monitor[c] = "start"
    /\ monitor' = [monitor EXCEPT ![c] = "sleep"]
    /\ UNCHANGED <<sockets, peers, age, listener, keeper, target, history>>

(* The monitor: it sets the entry once, then looks at it after every sleep.  *)
Start(c) ==
    /\ monitor[c] = "start"
    /\ age' = [age EXCEPT ![fdOf[c]] = 0]
    /\ monitor' = [monitor EXCEPT ![c] = "sleep"]
    /\ UNCHANGED <<sockets, peers, listener, keeper, target, history>>

Look(c) ==
    /\ monitor[c] = "look"
    /\ monitor' = [monitor EXCEPT ![c] = IF age[fdOf[c]] < Timeout THEN "sleep" ELSE "erase"]
    /\ followed' = followed \cup {b \in Connection :
          fds[fdOf[c]] = b /\ monitor[b] = "start" /\ age[fdOf[c]] = Timeout}
    /\ UNCHANGED <<sockets, peers, age, listener, keeper, target, held>>

BugErase(c) ==
    /\ monitor[c] = "erase"
    /\ age' = [age EXCEPT ![fdOf[c]] = Timeout]
    /\ monitor' = [monitor EXCEPT ![c] = "done"]
    /\ UNCHANGED <<sockets, peers, listener, keeper, target, history>>

Erase(c) ==
    /\ monitor[c] = "erase"
    /\ age' = [age EXCEPT ![fdOf[c]] = Timeout]
    /\ monitor' = [monitor EXCEPT ![c] = "shutdown"]
    /\ UNCHANGED <<sockets, peers, listener, keeper, target, history>>

BugCloseTimedOut(c) ==
    /\ monitor[c] = "shutdown"
    /\ fds' = [fds EXCEPT ![fdOf[c]] = Nobody]
    /\ shut' = shut \ {fdOf[c]}
    /\ monitor' = [monitor EXCEPT ![c] = "done"]
    /\ UNCHANGED <<accepted, fdOf, peers, age, listener, keeper, target, history>>

ShutTimedOut(c) ==
    /\ monitor[c] = "shutdown"
    /\ Shutdown(fdOf[c])
    /\ monitor' = [monitor EXCEPT ![c] = "done"]
    /\ UNCHANGED <<accepted, fds, fdOf, peers, age, listener, keeper, target, history>>

-----------------------------------------------------------------------------
(* The keeper stops when a write fails; by then sendPacket has shut the      *)
(* number down.  A write to a peer that is gone may still succeed.           *)
(* listenServerCommunication makes the keeper a temporary object, in a frame *)
(* that ends with the listener thread: after that the keeper's thread reads  *)
(* any number from it, and may sleep for any time.                           *)
Writable(d) == d \in Fd \ shut /\ fds[d] # Nobody
CanFail(d) == Writable(d) => peer[fds[d]] = "gone"

Targets(c) == IF listener[c] = "done" THEN Fd \cup {0} ELSE {fdOf[c]}

Write(c) ==
    /\ keeper[c] = "write"
    /\ \E d \in Targets(c) :
          \/ /\ Writable(d) \/ listener[c] = "done"
             /\ keeper' = [keeper EXCEPT ![c] = "sleep"]
             /\ UNCHANGED target
          \/ /\ CanFail(d)
             /\ keeper' = [keeper EXCEPT ![c] = "shutdown"]
             /\ target' = [target EXCEPT ![c] = d]
    /\ UNCHANGED <<sockets, peers, age, listener, monitor, history>>

ShutUnwritable(c) ==
    /\ keeper[c] = "shutdown"
    /\ IF target[c] = 0 THEN UNCHANGED shut ELSE Shutdown(target[c])
    /\ keeper' = [keeper EXCEPT ![c] = "done"]
    /\ target' = [target EXCEPT ![c] = 0]
    /\ UNCHANGED <<accepted, fds, fdOf, peers, age, listener, monitor, history>>

-----------------------------------------------------------------------------
(* An interval passes when all that was due in the last one is done.         *)
Tick ==
    /\ due = {}
    /\ \A c \in Connection : /\ listener[c] = "read" => c \notin unread
                             /\ monitor[c] \in {"off", "sleep", "done"}
                             /\ keeper[c] \in {"off", "sleep", "done"}
    /\ due' = {c \in Connection : peer[c] = "alive"}
    /\ quiet' = [c \in Connection |->
          IF listener[c] \notin {"off", "done"} /\ quiet[c] < Timeout + 2 THEN quiet[c] + 1
          ELSE quiet[c]]
    /\ held' = [c \in Connection |->
          IF listener[c] = "busy" /\ held[c] < Timeout - 1 THEN held[c] + 1 ELSE held[c]]
    /\ age' = [d \in Fd |-> IF age[d] < Timeout THEN age[d] + 1 ELSE Timeout]
    /\ monitor' = [c \in Connection |-> IF monitor[c] = "sleep" THEN "look" ELSE monitor[c]]
    /\ keeper' = [c \in Connection |-> IF keeper[c] = "sleep" THEN "write" ELSE keeper[c]]
    /\ UNCHANGED <<sockets, peer, unread, listener, target, followed>>

ListenerStep(c) == ReadKeepAlive(c) \/ ReadPacket(c) \/ EndOfFile(c) \/ KillSocket(c) \/ Close(c)
Serve(c) == Unblock(c) \/ Told(c)
MonitorStep(c) == Start(c) \/ Look(c) \/ Erase(c) \/ ShutTimedOut(c)
KeeperStep(c) == Write(c) \/ ShutUnwritable(c)

Next ==
    \/ Tick
    \/ Accept
    \/ \E c \in Connection : \/ SendKeepAlive(c) \/ Stop(c)
                             \/ ListenerStep(c) \/ Serve(c)
                             \/ MonitorStep(c) \/ KeeperStep(c)

Spec == Init /\ [][Next]_vars

(* Time passes, and the threads run in it.  Nothing is assumed of Serve: no   *)
(* server need ever come back.                                               *)
Fairness ==
    /\ WF_vars(Tick)
    /\ \A c \in Connection : /\ WF_vars(SendKeepAlive(c))
                             /\ WF_vars(ListenerStep(c))
                             /\ WF_vars(MonitorStep(c))
                             /\ WF_vars(KeeperStep(c))

FairSpec == Spec /\ Fairness

-----------------------------------------------------------------------------
(* Properties.                                                               *)

Open(c, d) == fds[d] = c /\ d \notin shut

(* A connection on which no KEEP_ALIVE has been read for the timeout is ended *)
(* in the next interval, although other monitors may have erased its entry,   *)
(* and others that went by its number may have set it.                        *)
SilentIsShut ==
    \A c \in Connection, d \in Fd : Open(c, d) => quiet[c] <= Timeout

(* A peer that sends its KEEP_ALIVEs is not disconnected, unless              *)
(*   - a thread of an earlier connection with the same number was about to    *)
(*     shut that one down when it was accepted, or decided so before its own  *)
(*     monitor had started (ConnectionMonitor.cpp:53), or                     *)
(*   - its listener has not come to read them for all of the timeout: it was  *)
(*     found busy (ProxyFE.cpp:545, 565) at every tick but one.               *)
ShutForAReason ==
    \A c \in Connection, d \in Fd :
        fds[d] = c /\ peer[c] = "alive" /\ d \in shut
            => c \in followed \/ held[c] = Timeout - 1

(* README.md:12: the users remain connected.                                  *)
AliveIsNotShut ==
    \A c \in Connection, d \in Fd :
        fds[d] = c /\ peer[c] = "alive" /\ d \in shut => c \in followed

(* Whoever fell silent or left gives its descriptor back, unless its listener *)
(* is held for ever.                                                          *)
Reclaimed ==
    \A c \in Connection :
        []<>(listener[c] \notin {"busy", "tell"})
            => (peer[c] \in {"silent", "gone"} ~> listener[c] = "done")
=============================================================================
