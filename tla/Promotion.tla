----------------------------- MODULE Promotion ------------------------------
(***************************************************************************)
(* One server from its start, or as a backup from its promotion, until it  *)
(* serves the front ends (FEs): main() of app_server, the flags that the   *)
(* ring thread sets, the connections main opens to the FEs, the threads it *)
(* starts for each of them through one shared argument block, and the      *)
(* consumer of a group that broadcasts meanwhile by the address book       *)
(* (Server, FeAddressBook, ServerMessageManager).                          *)
(*                                                                         *)
(* Modules ServersRing (who is elected), Replication (how backups get      *)
(* packets) and Sessions (what the end of an FE does to sessions) have the *)
(* rest of what these threads do.                                          *)
(***************************************************************************)
EXTENDS Naturals, Sequences, SequencesExt, FiniteSets

CONSTANTS
    NumFe,       \* fePortList.size()
    MaxMessages  \* bound: messages that come from FEs and from the old primary

ASSUME ConstantsAssumption ==
    /\ NumFe \in Nat \ {0}
    /\ MaxMessages \in Nat

VARIABLES
    isPrimary,       \* ServersRing::isPrimary
    isPrimaryServer, \* Server::isPrimaryServer
    ring,            \* program counter of the ring thread that gets the result
    main,            \* program counter of main()
    flag,            \* what main has read of isPrimary
    i,               \* the loops' counter
    feUp,            \* FEs that have not gone away
    timedOut,        \* history variable: those of them that a monitor found silent
    book,            \* FeAddressBook: addresses with a socket
    feAddresses,     \* Server::feAddresses
    locked,          \* TRUE: main holds feAddressesSemaphore
    permits,         \* feConnectionInitializationSemaphore
    args,            \* the address in the block shared with new threads, None if freed
    thread,          \* program counters of each FE's listener and monitor
    own,             \* the address a thread has copied
    rm,              \* TRUE: the threads of the RM connections read packets
    received,        \* messages received so far
    queue,           \* Group::messages_queue; a message is where it came from, None
                     \* being the old primary
    item,            \* the message the consumer sends
    todo,            \* FEs of the sessions it has still to be sent to
    overwritten      \* history variable: main has written an older flag over the ring's

flags == <<isPrimary, isPrimaryServer, ring, flag, overwritten>>
connections == <<feUp, timedOut, book, feAddresses>>
handover == <<permits, args, thread, own>>
group == <<rm, received, queue, item, todo>>
vars == <<flags, main, i, connections, locked, handover, group>>

FE == 1 .. NumFe
None == 0
Thread == {"listener", "monitor"}

TypeOK ==
    /\ isPrimary \in BOOLEAN /\ isPrimaryServer \in BOOLEAN
    /\ ring \in {"backup", "elected", "leader"}
    /\ main \in {"read", "store", "wait", "connect", "lock", "listener", "monitor",
                 "drain", "serving"}
    /\ flag \in BOOLEAN /\ overwritten \in BOOLEAN
    /\ i \in 1 .. NumFe + 1
    /\ feUp \subseteq FE /\ timedOut \subseteq FE /\ book \subseteq FE
    /\ feAddresses \in Seq(FE)
    /\ locked \in BOOLEAN
    /\ permits \in 0 .. 1
    /\ args \in FE \cup {None}
    /\ thread \in [FE -> [Thread -> {"off", "start", "run", "check", "purge", "done"}]]
    /\ own \in [FE -> [Thread -> FE \cup {None}]]
    /\ rm \in BOOLEAN
    /\ received \in 0 .. MaxMessages
    /\ queue \in Seq(FE \cup {None})
    /\ item \in FE \cup {None}
    /\ todo \subseteq FE

(* The server has joined the ring; the one on the first port leads it.       *)
Init ==
    /\ isPrimary \in BOOLEAN
    /\ isPrimaryServer = FALSE
    /\ ring = IF isPrimary THEN "leader" ELSE "backup"
    /\ main = "read"
    /\ flag = FALSE
    /\ i = 1
    /\ feUp = FE /\ timedOut = {}
    /\ book = {}
    /\ feAddresses = <<>>
    /\ locked = FALSE
    /\ permits = 1
    /\ args = None
    /\ thread = [f \in FE |-> [t \in Thread |-> "off"]]
    /\ own = [f \in FE |-> [t \in Thread |-> None]]
    /\ rm = FALSE
    /\ received = 0
    /\ queue = <<>>
    /\ item = None
    /\ todo = {}
    /\ overwritten = FALSE

-----------------------------------------------------------------------------
(* The ring thread: it has won the election, or is the only one left.        *)
Win ==
    /\ ring = "backup"
    /\ isPrimary' = TRUE
    /\ ring' = "elected"
    /\ UNCHANGED <<isPrimaryServer, flag, overwritten, main, i, connections, locked,
                   handover, group>>

BugTellServer ==
    /\ ring = "elected"
    /\ ring' = "leader"
    /\ UNCHANGED <<isPrimary, isPrimaryServer, flag, overwritten, main, i, connections,
                   locked, handover, group>>

TellServer ==
    /\ ring = "elected"
    /\ isPrimaryServer' = TRUE
    /\ ring' = "leader"
    /\ UNCHANGED <<isPrimary, flag, overwritten, main, i, connections, locked,
                   handover, group>>

-----------------------------------------------------------------------------
(* main().                                                                   *)

(* The flag of the ring is read ...                                          *)
ReadFlag ==
    /\ main = "read"
    /\ flag' = isPrimary
    /\ main' = "store"
    /\ UNCHANGED <<isPrimary, isPrimaryServer, ring, overwritten, i, connections, locked,
                   handover, group>>

(* ... and copied; prepareReplicationManager starts the RM threads, which     *)
(* read packets only in a backup.                                            *)
StoreFlag ==
    /\ main = "store"
    /\ isPrimaryServer' = flag
    /\ overwritten' = (isPrimaryServer /\ ~flag)
    /\ rm' = ~flag
    /\ main' = "wait"
    /\ UNCHANGED <<isPrimary, ring, flag, i, connections, locked, handover, received,
                   queue, item, todo>>

WaitForPromotion ==
    /\ main = "wait"
    /\ isPrimary
    /\ main' = "connect"
    /\ UNCHANGED <<flags, i, connections, locked, handover, group>>

BugConnectToFE ==
    /\ main = "connect"
    /\ IF i \in feUp
       THEN book' = book \cup {i} /\ feAddresses' = Append(feAddresses, i)
       ELSE UNCHANGED <<book, feAddresses>>
    /\ IF i = NumFe - 1 THEN main' = "lock" /\ i' = 1 ELSE main' = main /\ i' = i + 1
    /\ UNCHANGED <<flags, feUp, timedOut, locked, handover, group>>

(* One attempt for each FE: one that cannot be reached is left out.           *)
ConnectToFE ==
    /\ main = "connect"
    /\ IF i \in feUp
       THEN book' = book \cup {i} /\ feAddresses' = Append(feAddresses, i)
       ELSE UNCHANGED <<book, feAddresses>>
    /\ IF i = NumFe THEN main' = "lock" /\ i' = 1 ELSE main' = main /\ i' = i + 1
    /\ UNCHANGED <<flags, feUp, timedOut, locked, handover, group>>

(* handleFrontEndsConnections: it holds feAddressesSemaphore in its loop.     *)
LockAddresses ==
    /\ main = "lock"
    /\ IF feAddresses = <<>> THEN main' = "drain" /\ locked' = FALSE
                             ELSE main' = "listener" /\ locked' = TRUE
    /\ UNCHANGED <<flags, i, connections, handover, group>>

BugSpawnListener ==
    LET f == feAddresses[i]
    IN  /\ main = "listener"
        /\ args' = f
        /\ thread' = [thread EXCEPT ![f]["listener"] = "start"]
        /\ main' = "monitor"
        /\ UNCHANGED <<flags, i, connections, locked, permits, own, group>>

(* The block gets the next address once nobody needs the last one.           *)
SpawnListener ==
    LET f == feAddresses[i]
    IN  /\ main = "listener"
        /\ permits > 0
        /\ permits' = permits - 1
        /\ args' = f
        /\ thread' = [thread EXCEPT ![f]["listener"] = "start"]
        /\ main' = "monitor"
        /\ UNCHANGED <<flags, i, connections, locked, own, group>>

SpawnMonitor ==
    LET f == feAddresses[i]
    IN  /\ main = "monitor"
        /\ permits > 0
        /\ permits' = permits - 1
        /\ thread' = [thread EXCEPT ![f]["monitor"] = "start"]
        /\ IF i = Len(feAddresses)
           THEN main' = "drain" /\ locked' = FALSE /\ i' = i
           ELSE main' = "listener" /\ locked' = locked /\ i' = i + 1
        /\ UNCHANGED <<flags, connections, args, own, group>>

(* The block is freed once the last thread has copied it.                     *)
FreeArgs ==
    /\ main = "drain"
    /\ permits > 0
    /\ args' = None
    /\ main' = "serving"
    /\ UNCHANGED <<flags, i, connections, locked, permits, thread, own, group>>

-----------------------------------------------------------------------------
(* The listener and the monitor thread of an FE.                             *)
Goto(f, t, l) == thread' = [thread EXCEPT ![f][t] = l]

BugCopyArgs(f, t) ==
    /\ thread[f][t] = "start"
    /\ ~locked
    /\ own' = [own EXCEPT ![f][t] = args]
    /\ permits' = permits + 1
    /\ Goto(f, t, "run")
    /\ UNCHANGED <<flags, main, i, connections, locked, args, group>>

(* The thread copies the address, looks its socket up and lets main go on.    *)
CopyArgs(f, t) ==
    /\ thread[f][t] = "start"
    /\ own' = [own EXCEPT ![f][t] = args]
    /\ permits' = permits + 1
    /\ Goto(f, t, "run")
    /\ UNCHANGED <<flags, main, i, connections, locked, args, group>>

(* A MESSAGE is sent to the backups by a primary, acknowledged and queued.    *)
(* A read that is under way when the monitor closes the socket still ends    *)
(* with what the FE sends next; the one after it fails.                      *)
ReceiveMessage(f) ==
    /\ thread[f]["listener"] = "run"
    /\ f \in feUp
    /\ received < MaxMessages
    /\ received' = received + 1
    /\ queue' = Append(queue, f)
    /\ Goto(f, "listener", IF f \in book THEN "run" ELSE "check")
    /\ UNCHANGED <<flags, main, i, connections, locked, permits, args, own, rm, item, todo>>

(* End of file, a socket that the monitor has closed, or keep-alives that are *)
(* overdue as the FE is gone: closeFrontEndConnection.                       *)
NoticeDeath(f, t) ==
    /\ thread[f][t] = "run"
    /\ f \notin feUp \/ (t = "listener" /\ f \notin book)
    /\ Goto(f, t, "check")
    /\ UNCHANGED <<flags, main, i, connections, locked, permits, args, own, group>>

(* Keep-alives that are overdue although the FE is up.                        *)
TimeOut(f) ==
    /\ thread[f]["monitor"] = "run"
    /\ f \in feUp
    /\ timedOut' = timedOut \cup {f}
    /\ Goto(f, "monitor", "check")
    /\ UNCHANGED <<flags, main, i, feUp, book, feAddresses, locked, permits, args, own, group>>

CloseCheck(f, t) ==
    /\ thread[f][t] = "check"
    /\ ~locked
    /\ Goto(f, t, IF f \in ToSet(feAddresses) THEN "purge" ELSE "done")
    /\ UNCHANGED <<flags, main, i, connections, locked, permits, args, own, group>>

PurgeFeConnection(f, t) ==
    /\ thread[f][t] = "purge"
    /\ ~locked
    /\ feAddresses' = SelectSeq(feAddresses, LAMBDA g : g # f)
    /\ book' = book \ {f}
    /\ Goto(f, t, "done")
    /\ UNCHANGED <<flags, main, i, feUp, timedOut, locked, permits, args, own, group>>

FeDies(f) ==
    /\ f \in feUp
    /\ feUp' = feUp \ {f}
    /\ UNCHANGED <<flags, main, i, timedOut, book, feAddresses, locked, handover, group>>

-----------------------------------------------------------------------------
(* handleRMCommunication queues a replicated message.                        *)
ApplyReplicated ==
    /\ rm
    /\ received < MaxMessages
    /\ received' = received + 1
    /\ queue' = Append(queue, None)
    /\ UNCHANGED <<flags, main, i, connections, locked, handover, rm, item, todo>>

(* The consumer of a group with a session behind every FE.  Only a server     *)
(* that takes itself for the primary broadcasts.                              *)
Take ==
    /\ todo = {}
    /\ queue # <<>>
    /\ queue' = Tail(queue)
    /\ IF isPrimaryServer THEN item' = Head(queue) /\ todo' = FE
                          ELSE item' = None /\ todo' = {}
    /\ UNCHANGED <<flags, main, i, connections, locked, handover, rm, received>>

(* sendMessageToSession: the book answers 0 for an address it does not have,  *)
(* and the write goes to descriptor 0.                                       *)
SendToSession(f) ==
    /\ f \in todo
    /\ todo' = todo \ {f}
    /\ item' = IF todo = {f} THEN None ELSE item
    /\ UNCHANGED <<flags, main, i, connections, locked, handover, rm, received, queue>>

MainStep ==
    \/ ReadFlag \/ StoreFlag \/ WaitForPromotion \/ ConnectToFE
    \/ LockAddresses \/ SpawnListener \/ SpawnMonitor \/ FreeArgs

ThreadStep(f, t) ==
    CopyArgs(f, t) \/ NoticeDeath(f, t) \/ CloseCheck(f, t) \/ PurgeFeConnection(f, t)

ConsumerStep == Take \/ \E f \in FE : SendToSession(f)

Next ==
    \/ Win \/ TellServer
    \/ MainStep
    \/ ConsumerStep
    \/ ApplyReplicated
    \/ \E f \in FE : \/ FeDies(f) \/ ReceiveMessage(f) \/ TimeOut(f)
                     \/ \E t \in Thread : ThreadStep(f, t)

Spec == Init /\ [][Next]_vars

(* The threads run; an election, packets, the death of an FE and its silence  *)
(* may never come.                                                           *)
Fairness ==
    /\ WF_vars(TellServer)
    /\ WF_vars(MainStep)
    /\ WF_vars(ConsumerStep)
    /\ \A f \in FE, t \in Thread : WF_vars(ThreadStep(f, t))

FairSpec == Spec /\ Fairness

-----------------------------------------------------------------------------
(* Properties.                                                               *)

(* Every thread gets the address it was started for, although all of them     *)
(* read it from one block, which main overwrites and finally frees.          *)
OwnAddress ==
    \A f \in FE, t \in Thread :
        /\ thread[f][t] = "start" => args = f
        /\ thread[f][t] \notin {"off", "start"} => own[f][t] = f

(* What an FE sends to this server is written to every FE that is alive and   *)
(* was never timed out, as main listens to none of them before it has        *)
(* connected to all.  It is dropped only if the consumer finds the flag not  *)
(* yet set, or overwritten.                                                  *)
SentTo(f) == f \in todo /\ f \notin todo'

Dropped(m) == queue # <<>> /\ m = Head(queue) /\ queue' = Tail(queue) /\ todo' = {}

AcceptedIsShown ==
    [][\A f \in FE : /\ SentTo(f) /\ item # None /\ f \in feUp \ timedOut => f \in book
                     /\ Dropped(f) => ring = "elected" \/ overwritten]_vars

(* A promoted server replicates what it accepts, from some time on: the two   *)
(* flags agree unless main overwrote the new one with what it had read.       *)
ReplicatesInTheEnd == isPrimary ~> [](isPrimaryServer \/ overwritten)

(* A server that leads the ring ends up with a listener and a monitor for     *)
(* every FE that stays up and is not timed out, whichever FEs die or fall     *)
(* silent while it connects and starts the threads.                           *)
Serving(f) == f \in book /\ \A t \in Thread : thread[f][t] = "run"

Served == \A f \in FE : isPrimary ~> f \notin feUp \ timedOut \/ Serving(f)

(* README: when the primary receives a message it replicates it.              *)
AcceptedIsReplicated ==
    [][received' # received /\ Last(queue') # None => isPrimaryServer]_vars
=============================================================================
