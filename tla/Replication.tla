---------------------------- MODULE Replication ----------------------------
(***************************************************************************)
(* Passive replication between the server processes (replication managers, *)
(* RMs): the primary's front-end threads in                                *)
(* Server::listenFrontEndCommunication send each packet to every other RM  *)
(* and wait for a confirmation before they answer it and apply it; the     *)
(* other RMs apply it in Server::handleRMCommunication.                    *)
(*                                                                         *)
(* Every pair of RMs shares one TCP connection.  A crashed RM's connection *)
(* delivers what it sent and then end of file.  Which RM becomes primary   *)
(* after a crash is the ring's business (module ServersRing): here any     *)
(* live RM may.                                                            *)
(***************************************************************************)
EXTENDS Integers, Sequences, SequencesExt, FiniteSets

CONSTANTS
    RM,           \* the replication managers
    SocketOf,     \* SocketOf[r][p]: the number of r's descriptor for its peer p
    FirstPrimary, \* the RM that booted as primary: it runs no RM threads
    FE,           \* front ends, one listener thread each at the primary
    Traffic,      \* bound: for each front end, the kinds its n-th packet may have
    MaxCrashes,   \* bound: RMs that crash
    NoRM, NoFE

(* The kinds of packet that are replicated.                                 *)
Kind == {"MESSAGE", "JOIN", "DISCONNECT"}

ASSUME ConstantsAssumption ==
    /\ IsFiniteSet(RM)
    /\ FirstPrimary \in RM
    /\ Traffic \in [FE -> Seq(SUBSET Kind)]
    /\ MaxCrashes \in Nat
    /\ NoRM \notin RM
    /\ NoFE \notin FE

ASSUME SocketsAssumption == SocketOf \in [RM -> [RM -> Nat]]

VARIABLES
    alive,    \* RMs that have not crashed
    leader,   \* the live RM with isPrimaryServer, or NoRM
    socks,    \* Server::rm_connect_sockets_fd of each RM, as the peers' numbers
    wire,     \* wire[p][r]: packets p has sent to r that r has not read
    handler,  \* handleRMCommunication of RM r for its peer p
    hand,     \* the packet that thread has read and not yet handled
    applied,  \* packets each RM has passed to its ServerGroupManager, in order
    answered, \* packets whose front end has been answered (ACK or ACCEPT)
    sent,     \* packets each front end has sent
    pc,       \* the primary's listener thread of each front end
    packet,   \* receivedPacket of that thread
    current,  \* the peer it is waiting for
    todo,     \* the peers its replication loop has not reached
    sem       \* the thread that holds the primary's sockets_connections_semaphore

vars == <<alive, leader, socks, wire, handler, hand, applied, answered, sent,
          pc, packet, current, todo, sem>>

threads == <<pc, packet, current, todo, sem>>

-----------------------------------------------------------------------------
Packet == [fe : FE, n : Nat, kind : Kind]

(* REPLICATION_CONFIRMATION_PACKET, and the absence of a packet.            *)
Confirmation == [fe |-> NoFE, n |-> 0, kind |-> "CONFIRMATION"]
NoPacket     == [fe |-> NoFE, n |-> 0, kind |-> "NONE"]

TypeOK ==
    /\ alive \subseteq RM
    /\ leader \in alive \cup {NoRM}
    /\ socks \in [RM -> SUBSET RM]
    /\ wire \in [RM -> [RM -> Seq(Packet \cup {Confirmation})]]
    /\ handler \in [RM -> [RM -> {"none", "top", "reading", "apply", "closed"}]]
    /\ hand \in [RM -> [RM -> Packet \cup {Confirmation, NoPacket}]]
    /\ applied \in [RM -> Seq(Packet)]
    /\ answered \subseteq Packet
    /\ sent \in [FE -> Nat]
    /\ pc \in [FE -> {"reading", "lock", "replicate", "confirm", "ack", "process"}]
    /\ packet \in [FE -> Packet \cup {NoPacket}]
    /\ current \in [FE -> RM \cup {NoRM}]
    /\ todo \in [FE -> SUBSET RM]
    /\ sem \in FE \cup {NoFE}

IdleThreads ==
    /\ pc = [f \in FE |-> "reading"]
    /\ packet = [f \in FE |-> NoPacket]
    /\ current = [f \in FE |-> NoRM]
    /\ todo = [f \in FE |-> {}]
    /\ sem = NoFE

Init ==
    /\ alive = RM
    /\ leader = FirstPrimary
    /\ socks = [r \in RM |-> RM \ {r}]
    /\ wire = [p \in RM |-> [r \in RM |-> <<>>]]
    /\ handler = [r \in RM |-> [p \in RM |->
          IF r = p \/ r = FirstPrimary THEN "none" ELSE "top"]]
    /\ hand = [r \in RM |-> [p \in RM |-> NoPacket]]
    /\ applied = [r \in RM |-> <<>>]
    /\ answered = {}
    /\ sent = [f \in FE |-> 0]
    /\ IdleThreads

-----------------------------------------------------------------------------
(* Listener threads of the primary, one per front end.                      *)
Serving == leader # NoRM

(* The loop runs through the map by key, and the keys are the descriptor    *)
(* numbers of that server: each server has an order of its own.             *)
First(r, S) == CHOOSE p \in S : \A q \in S : SocketOf[r][p] <= SocketOf[r][q]

From(r, v, S) == {q \in S : SocketOf[r][q] >= SocketOf[r][v]}

ReadPacket(f) ==
    /\ Serving
    /\ pc[f] = "reading"
    /\ sent[f] < Len(Traffic[f])
    /\ sent' = [sent EXCEPT ![f] = @ + 1]
    /\ \E k \in Traffic[f][sent[f] + 1] :
          packet' = [packet EXCEPT ![f] = [fe |-> f, n |-> sent[f] + 1, kind |-> k]]
    /\ pc' = [pc EXCEPT ![f] = "lock"]
    /\ UNCHANGED <<alive, leader, socks, wire, handler, hand, applied, answered,
                   current, todo, sem>>

BugLock(f) ==
    /\ Serving
    /\ pc[f] = "lock"
    /\ sem' = f
    /\ todo' = [todo EXCEPT ![f] = socks[leader]]
    /\ pc' = [pc EXCEPT ![f] = "replicate"]
    /\ UNCHANGED <<alive, leader, socks, wire, handler, hand, applied, answered,
                   sent, packet, current>>

Lock(f) ==
    /\ Serving
    /\ pc[f] = "lock"
    /\ sem = NoFE
    /\ sem' = f
    /\ todo' = [todo EXCEPT ![f] = socks[leader]]
    /\ pc' = [pc EXCEPT ![f] = "replicate"]
    /\ UNCHANGED <<alive, leader, socks, wire, handler, hand, applied, answered,
                   sent, packet, current>>

Remaining(f) == todo[f] \cap socks[leader]

Transmit(r, p, m) ==
    IF p \in alive THEN [wire EXCEPT ![r][p] = Append(@, m)] ELSE wire

BugSendToRm(f) ==
    LET p == First(leader, Remaining(f))
    IN  /\ Serving
        /\ pc[f] = "replicate"
        /\ Remaining(f) # {}
        /\ wire' = Transmit(leader, p, packet[f])
        /\ current' = [current EXCEPT ![f] = p]
        /\ pc' = [pc EXCEPT ![f] = "confirm"]
        /\ UNCHANGED <<alive, leader, socks, handler, hand, applied, answered,
                       sent, packet, todo, sem>>

(* The loop sends the packet to its next socket; a write to a dead peer is  *)
(* lost.                                                                    *)
SendToRm(f) ==
    LET p == First(leader, Remaining(f))
    IN  /\ Serving
        /\ pc[f] = "replicate"
        /\ Remaining(f) # {}
        /\ wire' = Transmit(leader, p, packet[f])
        /\ current' = [current EXCEPT ![f] = p]
        /\ todo' = [todo EXCEPT ![f] = Remaining(f) \ {p}]
        /\ pc' = [pc EXCEPT ![f] = "confirm"]
        /\ UNCHANGED <<alive, leader, socks, handler, hand, applied, answered,
                       sent, packet, sem>>

BugReadConfirmation(f) ==
    /\ Serving
    /\ pc[f] = "confirm"
    /\ wire' = [wire EXCEPT ![current[f]][leader] = IF @ = <<>> THEN @ ELSE Tail(@)]
    /\ pc' = [pc EXCEPT ![f] = "replicate"]
    /\ UNCHANGED <<alive, leader, socks, handler, hand, applied, answered,
                   sent, packet, current, todo, sem>>

(* readPacket takes whatever comes next on that socket for the confirmation. *)
ReadConfirmation(f) ==
    LET p == current[f]
    IN  /\ Serving
        /\ pc[f] = "confirm"
        /\ wire[p][leader] # <<>>
        /\ wire' = [wire EXCEPT ![p][leader] = Tail(@)]
        /\ pc' = [pc EXCEPT ![f] = "replicate"]
        /\ UNCHANGED <<alive, leader, socks, handler, hand, applied, answered,
                       sent, packet, current, todo, sem>>

EndOfFile(p, r) == p \notin alive /\ wire[p][r] = <<>>

(* End of file: the loop erases the map element it stands on and then steps *)
(* on from it.  The increment of the erased iterator reads a freed node: it *)
(* finds the successor, or, from the last element, an element visited       *)
(* before; the outcome that ends the process is a Crash.                    *)
ReadConfirmationFails(f) ==
    LET p    == current[f]
        left == socks[leader] \ {p}
    IN  /\ Serving
        /\ pc[f] = "confirm"
        /\ EndOfFile(p, leader)
        /\ socks' = [socks EXCEPT ![leader] = left]
        /\ \/ todo' = todo
           \/ /\ Remaining(f) \ {p} = {}
              /\ \E v \in left : todo' = [todo EXCEPT ![f] = From(leader, v, left)]
        /\ pc' = [pc EXCEPT ![f] = "replicate"]
        /\ UNCHANGED <<alive, leader, wire, handler, hand, applied, answered,
                       sent, packet, current, sem>>

BugUnlock(f) ==
    /\ Serving
    /\ pc[f] = "replicate"
    /\ Remaining(f) # socks[leader]
    /\ sem' = NoFE
    /\ todo' = [todo EXCEPT ![f] = {}]
    /\ current' = [current EXCEPT ![f] = NoRM]
    /\ pc' = [pc EXCEPT ![f] = IF packet[f].kind = "MESSAGE" THEN "ack" ELSE "process"]
    /\ UNCHANGED <<alive, leader, socks, wire, handler, hand, applied, answered,
                   sent, packet>>

(* The loop is over: the semaphore is released, before anything is applied. *)
Unlock(f) ==
    /\ Serving
    /\ pc[f] = "replicate"
    /\ Remaining(f) = {}
    /\ sem' = NoFE
    /\ todo' = [todo EXCEPT ![f] = {}]
    /\ current' = [current EXCEPT ![f] = NoRM]
    /\ pc' = [pc EXCEPT ![f] = IF packet[f].kind = "MESSAGE" THEN "ack" ELSE "process"]
    /\ UNCHANGED <<alive, leader, socks, wire, handler, hand, applied, answered,
                   sent, packet>>

(* A MESSAGE is acknowledged before it is put in its group's queue.         *)
SendAck(f) ==
    /\ Serving
    /\ pc[f] = "ack"
    /\ answered' = answered \cup {packet[f]}
    /\ pc' = [pc EXCEPT ![f] = "process"]
    /\ UNCHANGED <<alive, leader, socks, wire, handler, hand, applied, sent,
                   packet, current, todo, sem>>

(* registerUserToServer and closeClientConnection take the semaphore again.  *)
SemaphoreFree(r) == r = leader => sem = NoFE

MayApply(r, m) == m.kind \in {"JOIN", "DISCONNECT"} => SemaphoreFree(r)

ProcessPacket(f) ==
    /\ Serving
    /\ pc[f] = "process"
    /\ MayApply(leader, packet[f])
    /\ applied' = [applied EXCEPT ![leader] = Append(@, packet[f])]
    /\ answered' = IF packet[f].kind = "JOIN" THEN answered \cup {packet[f]} ELSE answered
    /\ packet' = [packet EXCEPT ![f] = NoPacket]
    /\ pc' = [pc EXCEPT ![f] = "reading"]
    /\ UNCHANGED <<alive, leader, socks, wire, handler, hand, sent, current, todo, sem>>

-----------------------------------------------------------------------------
(* handleRMCommunication of RM r for its peer p.  An RM that is promoted    *)
(* keeps these threads: they test isPrimaryServer only when they start.     *)
HandlerTop(r, p) ==
    /\ r \in alive
    /\ handler[r][p] = "top"
    /\ SemaphoreFree(r)
    /\ handler' = [handler EXCEPT ![r][p] = "reading"]
    /\ UNCHANGED <<alive, leader, socks, wire, hand, applied, answered, sent, threads>>

HandlerRead(r, p) ==
    /\ r \in alive
    /\ handler[r][p] = "reading"
    /\ wire[p][r] # <<>>
    /\ hand' = [hand EXCEPT ![r][p] = Head(wire[p][r])]
    /\ wire' = [wire EXCEPT ![p][r] = Tail(@)]
    /\ handler' = [handler EXCEPT ![r][p] = "apply"]
    /\ UNCHANGED <<alive, leader, socks, applied, answered, sent, threads>>

BugConfirmOnce(r, p) ==
    LET m == hand[r][p]
    IN  /\ r \in alive
        /\ handler[r][p] = "apply"
        /\ MayApply(r, m)
        /\ applied' = IF m = Confirmation THEN applied
                      ELSE [applied EXCEPT ![r] = Append(@, m)]
        /\ wire' = IF m = Confirmation THEN wire ELSE Transmit(r, p, Confirmation)
        /\ hand' = [hand EXCEPT ![r][p] = NoPacket]
        /\ handler' = [handler EXCEPT ![r][p] = "top"]
        /\ UNCHANGED <<alive, leader, socks, answered, sent, threads>>

(* The packet is applied and confirmed; a confirmation is confirmed too.    *)
HandlerApply(r, p) ==
    LET m == hand[r][p]
    IN  /\ r \in alive
        /\ handler[r][p] = "apply"
        /\ MayApply(r, m)
        /\ applied' = IF m = Confirmation THEN applied
                      ELSE [applied EXCEPT ![r] = Append(@, m)]
        /\ wire' = Transmit(r, p, Confirmation)
        /\ hand' = [hand EXCEPT ![r][p] = NoPacket]
        /\ handler' = [handler EXCEPT ![r][p] = "top"]
        /\ UNCHANGED <<alive, leader, socks, answered, sent, threads>>

HandlerEof(r, p) ==
    /\ r \in alive
    /\ handler[r][p] = "reading"
    /\ EndOfFile(p, r)
    /\ socks' = [socks EXCEPT ![r] = @ \ {p}]
    /\ handler' = [handler EXCEPT ![r][p] = "closed"]
    /\ UNCHANGED <<alive, leader, wire, hand, applied, answered, sent, threads>>

-----------------------------------------------------------------------------
(* An RM process ends; what was sent to it is lost with it.                 *)
Crash(r) ==
    /\ r \in alive
    /\ Cardinality(RM \ alive) < MaxCrashes
    /\ alive' = alive \ {r}
    /\ wire' = [p \in RM |-> [wire[p] EXCEPT ![r] = <<>>]]
    /\ hand' = [hand EXCEPT ![r] = [p \in RM |-> NoPacket]]
    /\ handler' = [handler EXCEPT ![r] = [p \in RM |-> "none"]]
    /\ IF r = leader
       THEN /\ leader' = NoRM
            /\ pc' = [f \in FE |-> "reading"]
            /\ packet' = [f \in FE |-> NoPacket]
            /\ current' = [f \in FE |-> NoRM]
            /\ todo' = [f \in FE |-> {}]
            /\ sem' = NoFE
       ELSE UNCHANGED <<leader, threads>>
    /\ UNCHANGED <<socks, applied, answered, sent>>

(* The ring elects r, which then connects to the front ends.                *)
Promote(r) ==
    /\ leader = NoRM
    /\ r \in alive
    /\ leader' = r
    /\ UNCHANGED <<alive, socks, wire, handler, hand, applied, answered, sent, threads>>

-----------------------------------------------------------------------------
ListenerStep(f) ==
    \/ Lock(f)
    \/ SendToRm(f)
    \/ ReadConfirmation(f)
    \/ ReadConfirmationFails(f)
    \/ Unlock(f)
    \/ SendAck(f)
    \/ ProcessPacket(f)

HandlerStep(r, p) ==
    \/ HandlerTop(r, p)
    \/ HandlerRead(r, p)
    \/ HandlerApply(r, p)
    \/ HandlerEof(r, p)

Next ==
    \/ \E f \in FE : ReadPacket(f) \/ ListenerStep(f)
    \/ \E r \in RM, p \in RM : HandlerStep(r, p)
    \/ \E r \in RM : Crash(r) \/ Promote(r)

Spec == Init /\ [][Next]_vars

(* Threads run.  Front ends need not send, RMs need not crash or be elected. *)
(* Weak fairness is less than the semaphore gives, which hands itself to its *)
(* waiters in turn: enough here, since no thread takes it without bound.     *)
Fairness ==
    /\ \A f \in FE : WF_vars(ListenerStep(f))
    /\ \A r \in RM, p \in RM : WF_vars(HandlerStep(r, p))

FairSpec == Spec /\ Fairness

-----------------------------------------------------------------------------
(* Properties.                                                              *)

Has(r, m) == m \in ToSet(applied[r])

(* A packet whose front end has been answered survives every crash that     *)
(* leaves an RM alive: each live RM has applied it, or is the primary and   *)
(* has it in hand.  The confirmations the primary waits for are anonymous   *)
(* and, after a promotion, also read by the RM threads.                     *)
AnsweredSurvives ==
    \A m \in answered, r \in alive :
        Has(r, m) \/ (r = leader /\ \E f \in FE : packet[f] = m)

(* Every RM applies a front end's packets in the order they were sent, each  *)
(* once.  (As long as no RM has crashed.)                                    *)
FifoPerFrontEnd ==
    alive = RM => \A r \in RM : \A i, j \in DOMAIN applied[r] :
        i < j /\ applied[r][i].fe = applied[r][j].fe => applied[r][i].n < applied[r][j].n

(* No RM has been promoted, and none but the first primary has crashed.     *)
FirstTerm ==
    /\ RM \ {FirstPrimary} \subseteq alive
    /\ leader \in {FirstPrimary, NoRM}

(* The RMs that only replicate apply all packets in one order, the order in  *)
(* which the primary's threads held the semaphore, also when the primary     *)
(* crashes between its writes.  (In its first term: the next primary sends   *)
(* new packets before a third backup has seen the last ones of the old, and  *)
(* a loop that loses a peer may write to another one twice.)                 *)
BackupsAgree ==
    FirstTerm => \A r, s \in RM \ {FirstPrimary} :
        IsPrefix(applied[r], applied[s]) \/ IsPrefix(applied[s], applied[r])

(* What r has to show for a packet: it has applied it or, as the primary, it *)
(* holds it and has replicated it.                                           *)
Name(m) == <<m.fe, m.n>>

Stored(r) ==
    IF r \notin alive THEN {}
    ELSE {Name(m) : m \in ToSet(applied[r])} \cup
         {Name(packet[f]) : f \in {g \in FE : r = leader /\ pc[g] \in {"ack", "process"}}}

(* The front ends' servers keep the promise of Replicas, across any crashes  *)
(* and promotions: the primary stores a packet as it leaves the replication  *)
(* loop, the others as they apply it.                                        *)
Service == INSTANCE Replicas
    WITH live <- alive, stored <- [r \in RM |-> Stored(r)],
         answered <- {Name(m) : m \in answered}

ServiceSpec == Service!Spec

(* Every packet a listener has read is dealt with, or its primary crashes:   *)
(* no crash of another RM, and no RM thread that reads a confirmation in its *)
(* stead, leaves the listener (and the semaphore) waiting for ever.          *)
PacketHandled == \A f \in FE : pc[f] # "reading" ~> pc[f] = "reading"

Quiet ==
    /\ Serving
    /\ \A f \in FE : pc[f] = "reading"
    /\ \A r, p \in alive : handler[r][p] # "apply"
    /\ \A p \in RM, r \in alive : wire[p][r] = <<>>

(* README: "the exactly same data is shared and synced between all the       *)
(* servers": when nothing is under way, all live RMs have applied the same   *)
(* packets in the same order.                                                *)
SameData == Quiet => \A r, s \in alive : applied[r] = applied[s]

(* README: the newly elected server "will have the same data": when nothing  *)
(* is under way, the new primary has all that any other live RM has.         *)
NewPrimaryHasData ==
    Quiet /\ leader # FirstPrimary =>
        \A r \in alive : ToSet(applied[r]) \subseteq ToSet(applied[leader])
=============================================================================
