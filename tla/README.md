# Instant-Messenger-Cpp in TLA+

This directory keeps TLA+ models of the C++ messenger in `src/`, the TLC
configurations that check them on small instances, and TLAPS proofs of the
properties that matter most. Paths below are relative to the repository's
sources (`src/src/...` is abbreviated to the file name).

## 1. The system

    client -- ProxyFE (front end) -- primary server == backup servers
              several clients        one at a time      ring + replication mesh

A *client* connects to a *front end*, which forwards its packets to the one
*primary* server. The primary replicates each packet to the *backups*, answers
it, and applies it: it counts the session, enters it in a group, queues the
message, stores it in the group's file and broadcasts it back through the front
ends. The servers are linked in a ring; when a server's predecessor disappears
the ring is repaired and, if the primary is the one that died, an election
chooses the next one, which connects to the front ends.

Everything is threads over blocking sockets; locks are a counting `Semaphore`
with initial value 1, and threads wake one another by unlocking a
`pthread_mutex` another thread has locked.

### Inventory

| Component | State | Operations | Interacts through | Hard behaviour | What makes it correct |
|---|---|---|---|---|---|
| `Server`, sessions (`server.cpp`) | `connectionsCount`, `feAddresses`, sockets | JOIN, DISCONNECT, end of a front end, keep-alive expiry | listener and monitor threads of each front end; calls ServerGroupManager | two threads close one front end; counting and registering are two critical sections | the counter equals the sessions; no user exceeds the limit; a dead front end leaves no sessions |
| `ServerGroupManager` | `groupMap` | find or create a group, forward a message, fan a disconnection out | called by listeners, RM threads | test and creation without a lock | one object per group name |
| `Group`, `User` | member list, session entries, message queue, consumer mutex | register, disconnect, enqueue, consume | listeners on one side, its consumer thread on the other | mutex used as a signal; history read before registration | nothing queued is left behind; members see one stream; notifications are true |
| `FileSystemManager` | one history file and its `temp` file per group | append, crop, read | consumer and joining listeners, no lock | overlapping crops; process ends between remove and rename | reads are tails of what was stored; recent messages stay on disk |
| `Server`, replication (`server.cpp`) | `rm_connect_sockets_fd`, `isPrimaryServer` | replicate, confirm, apply | one TCP connection per pair of servers | primary crashes in its loop; backups fail while it waits | what was answered survives; backups agree |
| `ServersRing`, `Election` | ring sockets, position in `config.txt`, `isPrimary`, `isParticipating` | connect, accept, retry, elect, only one left | messages around the ring | several threads share every field unlocked; crashes during repair | at most one primary; an election ends; everybody agrees |
| `ProxyFE` | `usersMap`, `socketsMap`, `serverRM_socket`, `processing_message` | forward with retry, route answers, lose and regain the server | threads per client, one consumer, one router, one acceptor | descriptor numbers reused while others hold them; server changes between tries | no message overwritten or sent twice; ACK means handled; the newest primary is accepted, unless it was accepted once and shut out |
| `Client` | message queue, `mutex_ack` | join, send one message per ACK, leave | its front end | an ACK that never comes | goes on only after the ACK |
| `ServerMessageManager` | none | broadcast a message to members | called by the consumer | members change meanwhile | each member gets each broadcast |
| `app_server`, `Server` at a promotion | `isPrimary`, `isPrimaryServer`, sockets, one argument block | copy the flag, wait, connect to each front end, start two threads for each | the ring thread sets the flags; the consumer reads them; new threads read the block | two flags set one after the other, and one copied back; front ends die meanwhile; the block is overwritten and freed | each thread gets its own address; every live front end is served and shown every message |
| `FeAddressBook` | descriptor of each front end's address | register, remove, look up | Server and ServerMessageManager | lookups of front ends not connected yet answer 0 | no broadcast needs an address that is not there |
| `ConnectionMonitor`, `ConnectionKeeper` | time of the last keep-alive per descriptor number | refresh, expire, kill, send | their own threads | monitors and keepers outlive their connection, numbers are reused; a listener that is held reads no keep-alives | silent peers are disconnected; a peer that is not silent only for a known reason |
| `Semaphore` | counter, condition variable | wait, post | everything | `wait` tests the counter once | as many holders as permits; nobody stranded |
| `Socket`, `Packet`, `Uuid`, applications | - | I/O, start-up | - | - | - |
| `client_communication`, `client_message_manager`, `user_interface` | - | empty stubs | - | - | - |

`PROJECT.json` lists each of these with what is modelled, and under `hazards`
every place where the code is hard to test, with the properties that watch it.

## 2. Modules

Each module has one action per operation or critical section; `pc`-like
variables name the place a thread has reached. Definitions whose name starts
with `Bug` are plausible mistakes: each is a changed copy of the definition
below it, and shows which property would notice.

* **`Sessions`** - sessions at the primary. `connectionsCount` is the code's map;
  `groupMap` and `home` are Group *objects*, so that two threads that create the
  same group get different ones; `sessions` are the entries of `User` objects.
  The listener goes through `IncrementNumberOfConnections` (or
  `RefuseConnection`), `GroupExists`/`CreateGroup`/`FetchGroup`,
  `RegisterNewSession`, `ReadDisconnect`; listener and monitor both end a front
  end through `CloseCheck`, `DropSessions`, `CloseSocket`, `PurgeFeConnection`.
  `FeTagStable = FALSE` stands for the pointer `FE_DISCONNECT` into a destroyed
  temporary (`StringConstants.cpp`): the comparison, made in each Group object
  anew, may then fail in some of them.
* **`GroupQueue`** - one group: listeners post messages and register or
  disconnect sessions, the consumer takes, stores and broadcasts. `gate` is
  `mutex_consumer_producer`: any number of unlocks before a lock collapse into one.
  The threads that post are the listeners and, in `MonitorOf`, the monitor threads
  of the front ends, which may drop a member while the listener is at work.
* **`Room`** - what a group promises: of what has been posted, the oldest post of
  some source is published to whoever is a member at that moment; posts of
  different sources may pass one another. `GroupQueue`'s `RoomSpec` is the
  refinement: messages of a front end come from that front end, notifications
  from the group; what waits is the item that the consumer has taken and not yet
  broadcast, then the queue.
* **`History`** - the group's file as directory entries and inodes, so that a
  thread writing to a removed or renamed file writes where POSIX says.
  `overlapped` remembers whether two operations have ever been under way at once.
* **`Replication`** - the RMs' mesh. A listener of the primary takes the semaphore
  (`Lock`), sends to each peer and waits for its confirmation (`SendToRm`,
  `ReadConfirmation`), releases it (`Unlock`), answers and applies. `HandlerTop`,
  `HandlerRead`, `HandlerApply` are the RM threads. `Crash` ends a server with
  what it has sent still readable, then end of file; `Promote` makes any live
  RM primary, which covers whoever the ring elects. The loop follows the order of
  the primary's own map, whose keys are descriptor numbers: `SocketOf` gives the
  numbers that each server has for its peers, in no common order.
* **`Replicas`** - what the replicated servers promise: a packet is answered when
  every live server has it, a server keeps what it has as long as it lives, and
  until the first crash each server gets the packets of a front end without a
  gap. `Replication`'s `ServiceSpec` is the refinement: a backup has a packet
  when it has applied it, the primary when its listener has left the replication
  loop with it.
* **`ServersRing`** - the ring and the election: connector threads that try the
  ports of `config.txt` in order, the accepting listener, candidates and results.
* **`FrontEnd`** - one front end with its clients and a sequence of primaries:
  client listeners, the forwarding consumer, the router of answers, the thread
  that waits for the next server, and the process's descriptor table `fds`. A
  write succeeds or fails by what the descriptor stands for *now*. A write to a
  server that has died may still succeed, until the loss is noticed. A write that
  fails is followed by the `shutdown` of the number in a step of its own
  (`ShutDirect`, `ShutSlot`, `ShutReply`), and a monitor may shut a number down at
  any time (`TimesOut`): either may end the connection of a server that is
  alive, which connects only once. `Abandoned` is the state that follows.
* **`Semaphore`** - the counter and the condition variable, with the wake-ups that
  `std::condition_variable` may make by itself. `wait` is `Wait` and, for a thread
  that blocked, `Return`, which does not look at the counter again.
  **`CountingLock`** is what callers rely on: enter with a free permit, leave, and
  `Breach`, one permit more. `LockSpec` is the refinement.
* **`KeepAlive`** - connections of one process over one descriptor table:
  listeners refresh the table of times, monitors look at it once per interval
  and shut down a *number*, keepers write to one. A keep-alive counts when it is
  read (`ReadKeepAlive`), and a listener that waits for its place or retries to
  send (`ReadPacket` to `Unblock`, `EndOfFile` to `Told`) reads nothing, for as
  long as no server takes anything. A keeper made as a temporary
  (`ProxyFE.cpp:233`) holds a reference that dangles once its function has
  returned: it may then go by any number. Time is counted in intervals.
* **`Promotion`** - `main` of a server from its copy of the flag
  (`app_server.cpp:80`) to the threads of every front end, with the ring thread
  that sets the two flags, front ends that die or are timed out while they live
  (`TimeOut`) at any point, and a group's consumer that broadcasts by the
  address book meanwhile.
* **`MCSessions`, `MCGroupQueue`, `MCHistory`, `MCReplication`, `MCServersRing`,
  `MCFrontEnd`, `MCSemaphore`, `MCKeepAlive`, `MCPromotion`** - values of the
  constants for TLC.
* **`SessionsProofs`, `GroupQueueProofs`, `PromotionProofs`, `FrontEndProofs`,
  `ReplicationProofs`, `HistoryProofs`, `ServersRingProofs`** - theorems about the
  module each is named after. **`UtilProofs`** - theorems about the two modules of
  `src/util`, `Semaphore` and `KeepAlive`, whose definitions therefore have
  different names.

The modules are separate views of one system, joined at these seams: the
`JOIN`/`DISCONNECT`/message packets that `FrontEnd` writes are what `Replication`
applies; what `Replication` applies is handled by `Sessions` (registration) and
`GroupQueue` (messages); `GroupQueue`'s `Store` is `History`'s append; the
promotion that `Replication` and `FrontEnd` choose freely is `ServersRing`'s
result, and `Promotion` is what the elected server does with it. Every module
takes `Semaphore` for the lock that `CountingLock` describes, without `Breach`;
`KeepAlive` is where a monitor's verdict, a free choice in `Sessions`, comes from.

## 3. Runs

Sizes are distinct states; times are on two cores.

| Run | Instance | What it shows |
|---|---|---|
| `sessions_safety` | 3 sessions of a user, 2 groups, 2 front ends, limit 2, early timeouts, dangling tag; 1.9 M, 1 min | `CountExact`, `SessionLimit`, `AcceptMeansEntry`: the counter, the entries and the answers agree under every interleaving; `LeftMeansNoEntry` |
| `sessions_fe_death` | as above, groups exist, timeouts only after the front end is gone; 98 k | `JoinAnswered`, `FeDeathHandled`: what the code guarantees when its two sources of trouble are absent |
| `replication` | 3 RMs, 2 crashes, 2 front ends, JOIN then message and a message; 508 k, 3.5 min | `AnsweredSurvives`, `FifoPerFrontEnd`, `BackupsAgree` (in the first primary's term); `ServiceSpec`; `PacketHandled`: no listener waits for ever for a confirmation |
| `ring_election` | 4 servers with ids out of ring order, 3 crashes apart, down to the last server; 2.9 k | `Agreement`, `HighestWins`, `AtMostOnePrimary`; `RingHasPrimary`: while two servers are left a primary always comes |
| `ring_split` | the 4 servers of `config.txt`, 2 crashes at any time | divergence, see section 5 |
| `history` | 2 readers, 5 messages, limit 2, 2 crashes, any overlap; 2.1 M | `ReadsAreAtomic`: without overlap a read is the tail of what was stored; `RecentOnDisk`: a crash anywhere in a crop leaves the newest messages in one of the files; `TempHasOwner`, `LoneReadIsCropped`: overlaps leave neither a stale temporary file nor one that a lone read shows too long |
| `group_queue` | 2 sessions of a user at 2 front ends, 2 messages, one front end with its monitor thread; 588 k, 2.5 min | `RoomSpec`, `NoneStranded`, `MembersInStep`, `ActivityTrue`, `Delivered` |
| `frontend` | 2 clients (one may leave), a message each, 2 primaries, of which monitors may shut out the first; 527 k, 3 min | `HandledOnce`, `NothingOverwritten`, `AckMeansHandled`, `UsersOwnSockets`; `SlotFreed`, `ConnectsEventually`: the slot is given back and the newest primary accepted |
| `frontend_lost` | the same, without monitors; 1 min | divergence, see section 5 |
| `semaphore` | 5 threads, 1 permit, 2 spurious wake-ups; 1.4 k | `HoldersBounded`: each such wake-up lets one thread more in, once; `BlockedOnlyBehindHolders`, and no deadlock: nobody is stranded; `LockSpec` |
| `keep_alive` | 3 connections, one descriptor number, the first with a keeper, a timeout of 3 intervals; 382 k, 2 min | `SilentIsShut`: no peer stays silent unnoticed; `ShutForAReason`: a peer that is alive is shut only for one of two reasons; `Reclaimed` |
| `promotion` | 2 front ends, a message each, either may be timed out, primary from the start or later; 117 k, 1 min | `OwnAddress`, `AcceptedIsShown`, `ReplicatesInTheEnd`, `Served` |

Several properties state the limit of what the code does rather than an ideal:

* `RingHasPrimary` leaves out the last server, which may never find out that it
  is alone (`ring_last.cfg`).
* `ShutForAReason` allows a connection with a live peer to be shut down in two
  cases: it was accepted while a thread of an earlier one was about to shut their
  number down (`followed`), or its listener was busy at all ticks of the timeout but
  one, and so read no keep-alives (`held`; `keep_alive_blocked.cfg`). `Reclaimed` is for
  listeners that are not held for ever.
* `SlotFreed` excepts `Abandoned`, a primary that is alive and was shut out;
  `ConnectsEventually` speaks of the primaries that have not been accepted yet.
  `frontend_abandoned.cfg` shows that such a primary is never listened to again.
* `AcceptedIsShown` and `ReplicatesInTheEnd` except the window between the ring's
  two assignments and a flag that `main` has overwritten; `AcceptedIsShown` and
  `Served` also the front ends that were given up.
* `ReadsAreAtomic` speaks of the time before the first overlap or crash
  (`history_race.cfg`); what holds after them is `LoneReadIsCropped` and
  `RecentOnDisk`.

The type invariants, and `OnlyOwnFe` and `Heals`, are proved (section 4) and in no run.

`BackupsAgree` speaks of the term of the first primary, up to the crash that ends
it. It is false afterwards with four servers or more: when the primary crashes
in its loop, the promoted backup may send new packets to a third one that has
not read the last packet of the old primary yet.

### Bounds

* Sessions: the limit is the code's 2; three sessions over two groups and two
  front ends are the fewest with which a limit is reached while another
  listener races for the same user and group.
* Replication: `MCSocketOf` numbers the peers as they connect when servers start
  one after another, so two servers differ in the order of their maps. Two
  backups are the fewest that can disagree; two crashes leave one server, so
  every mixture of dead primary and dead backup occurs. `Traffic` bounds each
  front end's packets and their kinds.
* Ring: with four servers the ring can be repaired across two gaps; `MCShuffled`
  separates ring order from the order of the identifiers. `MaxThreads` and
  `MaxSockets` are never reached in `ring_election`; in `ring_split` and
  `ring_overlap` they cut the repeated retries of servers whose peers keep
  vanishing. `ring_overlap.cfg`, the same with three servers, has no violation
  in its 1.0 M states: the skipped line must be that of a live server.
* History: the limit 2 stands for the code's 10: the crop keeps a limit or one
  less, so with five messages files are cropped, refilled and cropped again.
* Semaphore: five threads and two wake-ups leave one thread blocked behind two
  that got in by themselves. The proofs cover every number.
* Keep-alive: the timeout is 3 intervals, the code's 5 (10 s in intervals of 2
  s); the proofs cover every timeout of 3 or more. Three connections on one
  number are the fewest in which a monitor of the first meets the entry that the
  second left for the third.
* Promotion: two front ends make the block pass between pairs of threads; one
  message of each may come before the election, through a backup, or after it.
* Group queue: two posters and two members make every collapse of signals and
  every join or leave around a broadcast possible. One front end has a monitor
  thread (`MCMonitorOf`): with two the other one plays the same part.
* Front end: two clients and the server share three descriptors, so that each
  number can pass from a client to a client, to the server and back. The monitors
  of `Doubted`, the first primary, are enough to shut a live connection out; in
  the proofs any set of peers may be doubted. `frontend_lost` has none, so that
  its message is lost by the write alone.

### Fairness

* `Sessions`, `GroupQueue`, `FrontEnd`: weak fairness of every thread - the
  operating system runs a thread that can run. Semaphores are modelled as locks
  in which a step is enabled only when the lock is free; each is held for a
  bounded section, and traffic is bounded, so weak fairness is enough.
  `Sessions` also lets a monitor expire once `killSocket` has removed its entry,
  as the missing entry reads as time 0.
* `Replication`: weak fairness of each listener and RM thread and of the reading
  of an end of file; nothing is assumed of crashes and promotions.
* `ServersRing`: weak fairness of connectors and listeners; crashes are never fair.
* `FrontEnd` also assumes that a dead primary is replaced and that a live server
  handles what it was sent; nothing of what monitors do (`TimesOut`) or when a client
  notices that it was shut out. `ring_election` shows the first under its
  conditions; the second is `PacketHandled`.
* `KeepAlive`: time passes only when the threads due in an interval have run, so
  no thread is more than an interval late, but for listeners that are held; peers
  that are alive send. Nothing is assumed of `Serve`, the return of a server.
* `Promotion`: weak fairness of `main`, of each thread, the consumer and the
  second assignment of the ring; elections, packets, deaths and timeouts may never come.
* `Semaphore` needs none: its properties are safety, and deadlock is checked.
* Users are never obliged to act. `CHECK_DEADLOCK FALSE` appears where a bounded
  instance comes to rest when its users have done all they may; `semaphore` and
  `keep_alive` never do.

## 4. Proofs

Each theorem holds for every value of the constants that the module's
assumption on its constants (`ConstantsAssumption`, in `Semaphore`
`SemaphoreAssumption`) allows: any number of clients, users, groups, front ends,
servers, readers, messages, crashes and connections, and any limit. What is
assumed of the constants is their types, that the limits are not zero, that the
sets which are counted or walked through are finite, and that values which stand
for different things differ. Two assumptions say more: in `KeepAlive` the timeout
is at least three intervals (the code's is five), and in `Replication`
`SocketsAssumption` gives each server a descriptor number for each peer: they are the
keys of the code's map, whose order the loop over it follows.
The theorems about the ring's elections have the hypothesis `~Overlap`: no server
crashes before the ring has settled after the last crash. `ring_split` shows that
they are false without it.

**`SessionsProofs`**: `TypeCorrect`, `CountIsExact`, `AcceptedHaveEntries`,
`SessionsLimited`, `OthersSessionsKept`, `LeftClientsForgotten`. The inductive
invariant `IInv` has the parts

* `TypeOK`;
* `PacketsMatch` - a listener between the count and the registration holds the
  packet of a client of its own front end that is still joining (without it
  nothing ties the program counter to the client that was counted);
* `EntriesAnswered` - who has an entry was accepted, so that nobody is entered
  twice or disconnected before it was accepted;
* `CountExact` - a user's count is the number of its entries plus the number of
  its clients now registering. It alone makes the decrements safe (the count
  never goes below zero) and lets the room test of `User` be decided;
* `CountWithinLimit` - the guard of the increment;
* `AcceptMeansEntry`.

`SessionLimit` follows from `CountExact` and `CountWithinLimit`. The work lies in
the cardinalities: a step moves one client in or out of a user's set, and
`FiniteSetTheorems` turns this into plus or minus one. `OthersSessionsKept` is an
action property: a step that removes a session changes the program counter of a
thread of that session's own front end. `LeftClientsForgotten`
(`LeftMeansNoEntry`) needs one fact more: an entry left behind in a lost Group
object stays out of reach, because a JOIN creates at most one object
(`CreatorsJoined`).

**`GroupQueueProofs`**: `TypeCorrect`, `NoWakeUpLost` (`NoneStranded`),
`MembersGetAll` (`MembersInStep`), `NotificationsTrue` (`ActivityTrue`),
`ImplementsRoom` (`RoomSpec`). `IInv` adds `JobsMatch` (what a listener's
program counter says about the client it serves), `ItemInHand` (the consumer has
an item exactly when it is storing or broadcasting), and `EntriesAreMembers`.
`NoneStranded` is itself inductive with these: every path that leaves a
non-empty queue passes through a place where either a listener is about to
unlock the gate or the consumer has yet to find the queue empty.

`ActivityTrue` speaks of the moments at which nobody holds `usersSemaphore`. `AInv`
says what it becomes in between: a user was announced exactly when it has an
entry or one of its sessions is about to be entered (`Announced`), and only the
thread that holds the lock is in the critical section (`LockHeld`). The lemmas
`OtherPost` and `OwnPost` say what one more post does to the notifications about
a user. With `HandsFree` - the consumer holds nothing while it looks for
something - every step maps to `Room`: an enqueued item is a `Post`, a broadcast is a
`Publish` of the first post, a registration a `Join`, a disconnection with its
notification a `Leave`; taking an item from the queue is a stutter.

**`UtilProofs`, the semaphore**: `PermitsKept` (`HoldersBounded`), `NoneBlockedAlone`
(`BlockedOnlyBehindHolders`), `CounterRestored` (`Heals`), `ImplementsLock`
(`LockSpec`). `HoldersBounded` speaks of two of the places a thread can be in; it
becomes inductive with what the counter says of all of them:

* `CounterTrue` - the counter is the permits less the threads that are inside, on
  their way in, or blocked;
* `BlockedAreCounted` - no more threads are blocked than the counter is below
  zero, and at most `spurious` fewer: a wake-up that nobody asked for leaves the
  counter as it was, which is why a later `post` may notify nobody.

The refinement maps `free` to the permits and the wake-ups so far less the
threads inside; `HoldersBounded` keeps it from going below zero. `Return` is the
abstract `Enter`, `SpuriousWakeup` is `Breach`, and blocking is a stutter.

**`PromotionProofs`**: `AddressesHandedOver` (`OwnAddress`),
`AcceptedMessagesShown` (`AcceptedIsShown`). `IInv` adds to the first

* `BlockInUse` - a started thread that has not copied its address holds the one
  permit for `main`, so there is at most one such thread;
* `SameAddress` - the list does not change while `main` walks it, as `main` holds
  `feAddressesSemaphore`, and the block still has the listener's address when the
  monitor is started;
* `Tables` - the types that these need.

`AcceptedIsShown` is an action property, from `AInv`: `Flags` ties the two flags to
the places of the ring's thread and of `main`; by `Connecting` every live front end is
in the address book before the first thread runs; by `Queued` a front end's
message can be in the queue only after that.

**`FrontEndProofs`**: `NoMessageOverwritten` (`NothingOverwritten`), `TypeCorrect`,
`UsersKeepTheirSockets` (`UsersOwnSockets`), `PacketsHandledOnce` (`HandledOnce`),
`AckedMeansHandled` (`AckMeansHandled`). The invariant comes in three layers:

* `BInv`, the threads: every open descriptor has one owner who knows it
  (`Descriptors`), the threads of the server's connection take turns (`Turns`), a
  client's thread holds a packet of its own client (`Hands`), and `OneProducer`:
  between the two semaphores one thread at a time uses `processing_message`, and a
  message is put there only when the one before has been forwarded;
* `PInv`, a packet on its way: it is in one place at a time (the client's socket,
  its thread, the slot, the server's socket, handled), once, and moves only forward;
* `AInv`, the way back: an ACK exists only for a client whose last message has been
  handled (`Acks`), and a descriptor that changed hands after the router had
  looked it up belongs to a client that expects no ACK (`Routes`). Only the last
  two together make a misdirected answer harmless.

**`ReplicationProofs`**: `TypeCorrect`, `AnsweredPacketsSurvive` (`AnsweredSurvives`),
`PacketsInOrder` (`FifoPerFrontEnd`), `BackupsInOneOrder` (`BackupsAgree`),
`ImplementsReplicas` (`ServiceSpec`). The
confirmations are anonymous: the primary counts whatever it reads. They can be
trusted because the semaphore lets one packet out at a time and each RM thread
writes one confirmation for one packet. `SInv` says so:

* `Links` - between two live servers there is nothing under way, except between
  the primary and the peer whose confirmation it waits for;
* `Deliveries` - there, either the packet is under way and no confirmation, or
  the peer has applied it and one confirmation is on its way;
* `Replicated` - a live peer that the loop has passed has applied the packet, until
  the listener is done with it;
* `Connected`, `Listeners`, `Handlers` - a primary has all live servers in its map,
  one listener replicates, an RM thread applies what it holds.

For the order of one front end's packets, `FInv` says that a server which has not
applied the packet in hand has only older ones. For the backups' common order,
`BInv` says that there is one sequence that every backup has applied, or has
applied up to the packet in the loop; a crash of the primary leaves that packet
somewhere on its way to each of them.

The refinement maps `ReadPacket` to `Send`; `Unlock` is the primary's `Store`, and
`HandlerApply` a backup's; `SendAck`, or `ProcessPacket` for a packet without an
ACK, is `Answer`; everything else but a crash is a stutter. It needs `SInv` and
`FInv` and, about where packets come from, `VInv`: no packet in a socket or in a
thread's hand is one that its front end has not sent (`NoneForged`, across all
crashes), and until the first crash every server has applied all packets but
those that the primary's threads have in hand (`NoneMissing`).

**`UtilProofs`, the keep-alive**: `TypeCorrect`, `SilenceIsNoticed` (`SilentIsShut`),
`ShutOnlyForAReason` (`ShutForAReason`). Threads outlive their connections, so
a descriptor's entry in the table may be written for several. It is of use
because the owner of a number is the last connection accepted with it (`Latest`),
and a monitor starts in the interval of its connection (`Fresh`). `Monitored` then
ties the age of the entry to how long the peer has been silent, from below: no
thread, whichever connection it was made for, makes the entry younger than the
owner's last keep-alive, so that no monitor takes longer than the timeout and the
interval after it. For the second theorem `Cared` bounds it from above: where neither
reason applies, a connection with a live peer has no thread on its way to shut its
number down, and, once its monitor has started, an entry that is older than the ticks
at which its listener was busy (`held`) by no more than the keep-alive under way.

**`HistoryProofs`**: `TypeCorrect`, `TempIsRenamed` (`TempHasOwner`),
`LoneReadsAreCropped` (`LoneReadIsCropped`), `CrashKeepsRecent` (`RecentOnDisk`),
`JoinersSeeTheHistory` (`ReadsAreAtomic`: until two operations on the file have
overlapped or the process has crashed, every read is the end of what was stored,
with the whole limit or all of it).

* `TInv`, under any overlap: the two names never stand for one inode
  (`Distinct`), and `Kinds`, what a thread has in hand at each step.
* `Lone`: a reader that is alone knows, at each step of its crop, how much of
  the limit is left.
* `Rec`, without overlap but through crashes: the file ends as the messages
  stored do, and the recent ones that it is too short for are in the
  temporary file (`Covered`); during a crop what is in the temporary file and what is
  still to be written to it make up every recent message (`Saved`).
* `Whence`, without overlap or crash: the file is to the line the end of what was
  stored, with at least `Limit` lines or all of them, except where a crop is
  under way (`Exact`).

**`ServersRingProofs`**: `TypeCorrect`, under crashes at any time; for crashes that
are apart `OnePrimary` (`AtMostOnePrimary`), `HighestElected` (`HighestWins`) and
`AllAgree` (`Agreement`), for any number of servers, any distinct ports in any
order, any number of threads and sockets, and any number of crashes. What has to be
ruled out is a second candidate, a connector that skips a live server, and a
message that reaches a server after the ring has changed. `RInv` describes the
whole ring:

* `Wires`, proved with the types: who waits to be accepted, or was accepted, is
  connected to the one who accepts, and a position in `config.txt` is that of
  the last socket;
* `Sound` - of a live server's sockets only the last can reach a live server,
  the first one after it (`Nearest`); its first connector starts again only when
  its successor is lost; a second connector runs only at a server that is alone;
* `Queues` - only the new predecessor waits to be accepted, once the old one is gone;
* the phases: `Forming`, the first connections; `Mending(p)`, in which only p, the
  predecessor of the one that died, may lack its successor (`Busy`), and there is
  one primary that all know (`Led`), or it is the one that died and p will
  start the election (`Leaderless`); and `Election`, in which the ring is whole and
  exactly one message is under way (`Token`). It makes a `FirstRound`, whose
  message carries the highest port so far, a `SecondRound` with the highest of
  all, and a round of its `Result`;
* `Stuck` and `Deaf`, the two ways in which the last server can end without a
  connection (`ring_last.cfg`): it is alone, so the three properties hold.

The order of the lines in `config.txt` enters by `Dist`, the number of lines from
one server to another: a lemma each says that it tells servers apart, grows by one
with the next line, and that two servers do not have the same successor. TLC
checked `RInv` for one to five servers before the proof was begun.

**Only model-checked.** Liveness, which is out of the prover's reach: `JoinAnswered`,
`FeDeathHandled`, `PacketHandled`, `RingHasPrimary`, `Delivered`, `SlotFreed`,
`ConnectsEventually`, `Reclaimed`, `ReplicatesInTheEnd`, `Served`. Every other
property of the passing runs - the invariants, the action properties and the
three refinements - is a theorem.

## 5. Where code and documentation part

Runs that are expected to be violated:

* `ring_split` (`ServersRing.cpp:248`): a server may run two connector threads,
  which share the position in `config.txt` and the address last tried. One of
  them skips a line, the server comes to its own port and declares itself the
  only one left while another server is primary and alive; two primaries follow.
  The comment at that line says that the server's own port comes up only when no
  other server is left.
* `frontend_lost` (`ProxyFE.cpp:545`): a forwarded message is kept only while
  `write` fails. A write to a server that is dead but not yet noticed, or to a
  descriptor number that now belongs to a client, succeeds: the message is lost
  and its sender waits for an ACK for ever. `README.md:12` says such messages
  are buffered and delivered.

Further configurations kept for the same purpose, each with one property that
TLC finds violated:

| Configuration (module) | Property | Cause |
|---|---|---|
| `sessions_leak.cfg` (MCSessions) | `FeDeathClearsSessions` | the monitor thread may close a front end while its listener is between reading a JOIN and registering it (`server.cpp:206`): the session outlives the front end, contrary to the comment at `server.cpp:279` |
| `sessions_refused.cfg` (MCSessions) | `RefusedOnlyWhenFull` | two JOINs create a group twice (`server_group_manager.cpp:22`); the lost object's sessions are never given back, and the user is refused below the limit of `README.md:7` |
| `sessions_close.cfg` (MCSessions) | `ClosedOnce` | both threads of a front end pass the test at `server.cpp:293` and call `close` |
| `replication_failover.cfg` (MCReplication) | `NewPrimaryHasData` | packets go to the backups one after another (`server.cpp:219`): a primary that crashes in the loop can be followed by a backup without the packet (`README.md:17`) |
| `replication_same.cfg` (MCReplication) | `SameData` | the primary applies after releasing the semaphore (`server.cpp:251`): its order may differ from the backups' (`README.md:16`) |
| `ring_last.cfg` (MCServersRing) | `PrimaryEventually` | two connectors share the position in `config.txt`; the survivor of two may never see its own line (`ServersRing.cpp:139`, `README.md:11`) |
| `ring_pair.cfg` (MCServersRing) | `PrimaryEventually` | the primary and its predecessor crash close together: nobody who repairs the ring was connected to the primary (`ServersRing.cpp:234`) |
| `history_race.cfg` (MCHistory) | `ReadsAlwaysAtomic` | crops by the consumer and by a joining listener share one temporary file (`file_system_manager.cpp:98`, `README.md:8`) |
| `group_join.cfg` (MCGroupQueue) | `SeesLastMessages` | the history is read before the member is registered (`Group.cpp:107`): a message in between is in neither |
| `frontend_abandoned.cfg` (MCFrontEnd) | `AlwaysServed` | the `shutdown` that follows a failed write (`Socket.cpp:60`), or a monitor's (`ProxyFE.cpp:387`), ends the connection of a primary that is alive; it connects only once (`app_server.cpp:91`) and the front end waits in `accept` for ever (`README.md:12`) |
| `keep_alive_blocked.cfg` (MCKeepAlive) | `AliveIsNotShut` | a listener that waits for `processing_message_semaphore` (`ProxyFE.cpp:565`) or retries a JOIN (`:545`) reads no keep-alives: after the timeout without a server its client is shut down, alive (`:387`, `README.md:12`) |
| `promotion_race.cfg` (MCPromotion) | `AcceptedIsReplicated` | a front end's message is handled between the ring's two assignments (`ServersRing.cpp:200`, `:202`), or after `main` has copied an old flag over the new one (`app_server.cpp:80`), and is not replicated (`README.md:16`) |

`Promotion` shows two more losses that nothing in the repository speaks about: a
message that a backup consumed before its promotion is broadcast by nobody if
the old primary died first, and one that it consumes after its flag is set but
before it has connected to the front ends is written to descriptor 0, the answer
of the address book for an address it does not have.

## 6. Abstractions

* Whole packets travel on reliable FIFO connections; a dead peer's connection
  gives what it sent, then end of file. Partial reads and writes are left out.
* Text, names, time stamps and identifiers are model values; truncation of
  names and messages is not modelled.
* In the other modules a semaphore is a correct lock. `Semaphore` says how far
  that is true: its `wait` tests the counter only once (`Semaphore.cpp:17`), and a
  spurious wake-up lets one thread more in.
* Unlocking a mutex that another thread locked, which POSIX does not define for
  every mutex type, is what glibc's default mutex does: it wakes the waiter.
* `erase` inside a range-`for` (`releaseSession`, `purgeFeConnection`) leaves, in
  the library the project is built with, an element that compares unequal; the
  models erase exactly one. `erase(end())` has no effect in `Replication`.
* `sendPacket`'s `shutdown` after a failed write is a step of its own in
  `FrontEnd` and `KeepAlive`. The modules of the server name a connection by its
  peer and not by a descriptor number, and leave that `shutdown` out: a peer whose
  connection fails a write is gone, and its reader sees the end of file anyway. That
  the number may be another connection's by then is modelled in the front end only.
* In `FrontEnd` the reading of `serverRM_socket` and the write to it are one step:
  only `handleServerConnection` sets it, when the old number is closed, so a write to the
  old number could as well have come before. A broadcast to a client whose
  connection fails, with the `shutdown` after it, is left out: the router's
  answers (`RouteReply`, `ShutReply`) do the same to the same numbers.
* When a monitor (keep-alive) shuts down a descriptor *number* is modelled in
  `KeepAlive`; in `FrontEnd` (`TimesOut`), `Sessions` and `Promotion` (`TimeOut`) it
  is a free choice. `GroupQueue` has the monitor thread's disconnections.
* In `KeepAlive` an absent entry and one with time 0 are both as old as the
  timeout. Packets that wait behind the one which holds a listener hold it longer,
  and are not counted one by one.
* In `Promotion` the group has one session behind every front end; a JOIN or a
  DISCONNECT changes nothing there.
* A packet other than JOIN, message or DISCONNECT changes only keep-alive times.
* Not modelled: the SIGINT handlers, argument parsing, restarts of a server
  (which takes the first free port and may call itself primary; nothing in the
  repository restarts one), the order in which servers first connect to one
  another, a front end that closes at the primary but not at the backups, the
  client's own queue between its input and its sender thread (`GroupQueue` has
  its shape), the array of thread identifiers that `app_proxy_fe.cpp:82` may
  overrun after 4096 connections, the empty stubs.
  `maxNumberOfMessagesOnHistory` is parsed but never passed on, so the history
  limit is a constant.

## 7. Plan

Sections 2 to 4 describe what there is. Left, in order:

1. `Client`: the queue between the input thread and the sender, with the ACK
   mutex, composed with `FrontEnd` in place of its one-step client.
2. Start-up and restarts: port binding in `config.txt` order and the first
   connections between the RMs.
