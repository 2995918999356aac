-------------------------- MODULE ReplicationProofs --------------------------
(***************************************************************************)
(* Proofs about the replication between the servers (module Replication),  *)
(* for any number of servers, front ends, packets and crashes: what a      *)
(* front end has been answered survives, the backups apply all packets in  *)
(* one order, and the packets of a front end in the order it sent them;    *)
(* and the servers together implement Replicas.                            *)
(*                                                                         *)
(* The confirmations are anonymous.  What makes them trustworthy is that   *)
(* sockets_connections_semaphore lets one packet at a time out, and that   *)
(* every RM thread that reads something writes one thing back: between two *)
(* live servers there is nothing under way, or the one packet the primary  *)
(* waits for, or one confirmation that follows its application.            *)
(***************************************************************************)
EXTENDS Replication, SequenceTheorems, FiniteSetTheorems, WellFoundedInduction, TLAPS

(* The library's loop over a map goes on with one of the keys that are left. *)
LEMMA FirstExists ==
    ASSUME NEW r \in RM, NEW S, S \subseteq RM, IsFiniteSet(S), S # {}
    PROVE  First(r, S) \in S
  <1> DEFINE At(p) == SocketOf[r][p]
             NoFirst(T) == T # {} /\ \A p \in T : \E q \in T : ~ (At(p) <= At(q))
             Bad == {T \in FiniteSubsetsOf(S) : NoFirst(T)}
  <1>0. \A q \in S : At(q) \in Int
    BY SocketsAssumption
  <1> HIDE DEF At
  <1>1. ASSUME NoFirst(S) PROVE FALSE
    <2>1. S \in Bad /\ Bad \subseteq FiniteSubsetsOf(S)
      BY <1>1 DEF FiniteSubsetsOf
    <2>2. PICK T \in Bad : \A U \in Bad : ~(<<U, T>> \in StrictSubsetOrdering(S))
      <3>1. IsWellFoundedOn(StrictSubsetOrdering(S), FiniteSubsetsOf(S))
        BY FS_StrictSubsetOrderingWellFounded
      <3> HIDE DEF Bad
      <3> QED
        BY <2>1, <3>1, WFMin
    <2>3. T \subseteq S /\ IsFiniteSet(T) /\ NoFirst(T)
      BY <2>2 DEF FiniteSubsetsOf
    <2>4. PICK x \in T : TRUE
      BY <2>3
    <2> DEFINE U == T \ {x}
    <2>5. U \subseteq S /\ IsFiniteSet(U) /\ U \subseteq T /\ U # T
      BY <2>3, <2>4, FS_RemoveElement
    <2>6. <<U, T>> \in StrictSubsetOrdering(S)
      BY <2>3, <2>5 DEF StrictSubsetOrdering
    <2>7. ~NoFirst(U)
      BY <2>2, <2>5, <2>6 DEF FiniteSubsetsOf
    <2>8. CASE U = {}
      <3>1. T = {x} /\ At(x) \in Int
        BY <1>0, <2>3, <2>4, <2>8
      <3> QED
        BY <2>3, <3>1
    <2>9. CASE U # {}
      <3>1. PICK y \in U : \A q \in U : At(y) <= At(q)
        BY <2>7, <2>9
      <3>2. \A q \in T : q = x \/ q \in U
        OBVIOUS
      <3>3. \A q \in T : At(q) \in Int
        BY <1>0, <2>3
      <3>4. CASE At(x) <= At(y)
        BY <2>3, <2>4, <3>1, <3>2, <3>3, <3>4
      <3>5. CASE At(y) <= At(x)
        BY <2>3, <2>4, <3>1, <3>2, <3>3, <3>5
      <3> QED
        BY <2>4, <3>1, <3>3, <3>4, <3>5
    <2> QED
      BY <2>8, <2>9
  <1>2. PICK p \in S : \A q \in S : At(p) <= At(q)
    BY <1>1
  <1> QED
    BY <1>2 DEF First, At

-----------------------------------------------------------------------------
(* What is answered survives.                                               *)

(* A primary replicates to every other RM that is alive.                     *)
Connected == \A r \in RM : r \notin socks[r] /\ alive \ {r} \subseteq socks[r]

(* One of the primary's threads at a time replicates.                        *)
Listeners ==
    \A f \in FE :
        /\ leader = NoRM => pc[f] = "reading"
        /\ pc[f] \in {"replicate", "confirm"} <=> sem = f
        /\ IF pc[f] = "reading" THEN packet[f] = NoPacket
                                ELSE packet[f] \in Packet /\ packet[f].fe = f
        /\ pc[f] = "confirm" => current[f] \in RM \ (todo[f] \cup {leader})

(* An RM's thread has a packet in hand when it applies one, and dead RMs get *)
(* nothing.                                                                  *)
Handlers ==
    /\ \A r, p \in RM : handler[r][p] = "apply" <=> hand[r][p] # NoPacket
    /\ \A r \in RM : handler[r][r] = "none"
    /\ \A r \in RM \ alive : \A p \in RM : handler[r][p] = "none" /\ wire[p][r] = <<>>

(* From a to b, nothing or one packet is under way.                          *)
Nothing(a, b) == wire[a][b] = <<>> /\ hand[b][a] = NoPacket
Only(m, a, b) == \/ wire[a][b] = <<m>> /\ hand[b][a] = NoPacket
                 \/ wire[a][b] = <<>> /\ hand[b][a] = m

Awaits(f, p) == pc[f] = "confirm" /\ current[f] = p

(* The primary waits for the confirmation of p: it follows the packet.       *)
Delivery(f, p) ==
    \/ Only(packet[f], leader, p) /\ Nothing(p, leader)
    \/ /\ Has(p, packet[f])
       /\ \/ Only(Confirmation, leader, p) /\ Nothing(p, leader)
          \/ Only(Confirmation, p, leader) /\ Nothing(leader, p)

Deliveries == \A f \in FE, p \in alive : Awaits(f, p) => Delivery(f, p)

(* Between other RMs there is nothing under way.                             *)
Quiescent(a, b) == \A f \in FE : ~(Awaits(f, a) /\ b = leader) /\ ~(Awaits(f, b) /\ a = leader)

Links == \A a, b \in alive : Quiescent(a, b) => Nothing(a, b)

(* An RM that the loop has passed has applied the packet.                    *)
Replicated ==
    \A f \in FE, r \in alive \ {leader} :
        /\ pc[f] \in {"replicate", "confirm"} => r \in todo[f] \/ Awaits(f, r) \/ Has(r, packet[f])
        /\ pc[f] \in {"ack", "process"} => Has(r, packet[f])

SInv == /\ TypeOK
        /\ Connected /\ Listeners /\ Handlers
        /\ Links /\ Deliveries
        /\ Replicated /\ AnsweredSurvives

(* The two markers are no packets.                                           *)
LEMMA NotPackets ==
    /\ NoPacket \notin Packet /\ Confirmation \notin Packet /\ NoPacket # Confirmation
    /\ \A m \in Packet : m.kind \in Kind
  BY ConstantsAssumption DEF NoPacket, Confirmation, Packet

(* What Append and Tail do to the queues.                                    *)
LEMMA AppendOne == ASSUME NEW m PROVE Append(<<>>, m) = <<m>>
  OBVIOUS

(* A queue of one element.                                                   *)
LEMMA OneItem ==
    ASSUME NEW m
    PROVE  <<m>> # <<>> /\ Head(<<m>>) = m /\ Tail(<<m>>) = <<>>
  OBVIOUS

(* A queue keeps its elements and gains one.                                 *)
LEMMA AppendItems ==
    ASSUME NEW S, NEW s \in Seq(S), NEW e \in S
    PROVE  Append(s, e) \in Seq(S) /\ ToSet(Append(s, e)) = ToSet(s) \cup {e}
  <1>1. /\ Append(s, e) \in Seq(S) /\ Len(Append(s, e)) = Len(s) + 1 /\ Len(s) \in Nat
        /\ Append(s, e)[Len(s) + 1] = e /\ \A i \in 1 .. Len(s) : Append(s, e)[i] = s[i]
    OBVIOUS
  <1>2. DOMAIN Append(s, e) = 1 .. Len(s) + 1 /\ DOMAIN s = 1 .. Len(s)
    BY <1>1
  <1>3. \A x : x \in ToSet(Append(s, e)) => x \in ToSet(s) \cup {e}
    BY <1>1, <1>2 DEF ToSet
  <1>4. \A x : x \in ToSet(s) => x \in ToSet(Append(s, e))
    BY <1>1, <1>2 DEF ToSet
  <1>5. e \in ToSet(Append(s, e))
    BY <1>1, <1>2 DEF ToSet
  <1> QED
    BY <1>1, <1>3, <1>4, <1>5

(* A write reaches one queue, if its reader is alive.                        *)
LEMMA TransmitEffect ==
    ASSUME TypeOK, NEW r \in RM, NEW p \in RM, NEW m \in Packet \cup {Confirmation}
    PROVE  /\ Transmit(r, p, m) \in [RM -> [RM -> Seq(Packet \cup {Confirmation})]]
           /\ \A a, b \in RM : Transmit(r, p, m)[a][b] =
                 IF a = r /\ b = p /\ p \in alive THEN Append(wire[r][p], m) ELSE wire[a][b]
  <1> DEFINE W == [RM -> [RM -> Seq(Packet \cup {Confirmation})]]
             s == Append(wire[r][p], m)
  <1>1. wire \in W /\ s \in Seq(Packet \cup {Confirmation})
    <2>1. wire \in W
      BY DEF TypeOK
    <2>2. wire[r][p] \in Seq(Packet \cup {Confirmation})
      BY <2>1
    <2> QED
      BY <2>1, <2>2, AppendItems
  <1>2. CASE p \in alive
    <2>1. Transmit(r, p, m) = [wire EXCEPT ![r][p] = s]
      BY <1>2 DEF Transmit
    <2> HIDE DEF s
    <2>2. /\ [wire EXCEPT ![r][p] = s] \in W
          /\ \A a, b \in RM :
                [wire EXCEPT ![r][p] = s][a][b] = IF a = r /\ b = p THEN s ELSE wire[a][b]
      BY <1>1
    <2> QED
      BY <1>2, <2>1, <2>2 DEF s
  <1>3. CASE p \notin alive
    BY <1>1, <1>3 DEF Transmit
  <1> QED
    BY <1>2, <1>3

(* The servers boot with nothing under way.                                  *)
LEMMA Started == Init => SInv
  <1> SUFFICES ASSUME Init PROVE SInv
    OBVIOUS
  <1> USE ConstantsAssumption, NotPackets DEF Init, IdleThreads
  <1>1. TypeOK
    BY DEF TypeOK
  <1>2. Connected /\ Listeners /\ Handlers
    BY DEF Connected, Listeners, Handlers
  <1>3. Links /\ Deliveries
    BY DEF Links, Deliveries, Nothing, Awaits
  <1>4. Replicated /\ AnsweredSurvives
    BY DEF Replicated, AnsweredSurvives
  <1> QED
    BY <1>1, <1>2, <1>3, <1>4 DEF SInv

-----------------------------------------------------------------------------
(* The types.                                                               *)
LEMMA TypesStep == SInv /\ [Next]_vars => TypeOK'
  <1> SUFFICES ASSUME SInv, [Next]_vars PROVE TypeOK'
    OBVIOUS
  <1> USE ConstantsAssumption, NotPackets DEF SInv, TypeOK, threads
  <1>1. ASSUME NEW f \in FE, ReadPacket(f) PROVE TypeOK'
    <2>1. PICK k \in Traffic[f][sent[f] + 1] :
              packet' = [packet EXCEPT ![f] = [fe |-> f, n |-> sent[f] + 1, kind |-> k]]
      BY <1>1 DEF ReadPacket
    <2>2. sent[f] + 1 \in 1 .. Len(Traffic[f]) /\ k \in Kind /\ sent[f] \in Nat
      BY <1>1 DEF ReadPacket
    <2>3. [fe |-> f, n |-> sent[f] + 1, kind |-> k] \in Packet
      BY <2>2 DEF Packet
    <2>4. packet' \in [FE -> Packet \cup {NoPacket}] /\ sent' \in [FE -> Nat]
      BY <1>1, <2>1, <2>2, <2>3 DEF ReadPacket
    <2> QED
      BY <1>1, <2>4 DEF ReadPacket
  <1>2. ASSUME NEW f \in FE, Lock(f) PROVE TypeOK'
    <2>1. leader \in RM
      BY <1>2 DEF Lock, Serving
    <2> QED
      BY <1>2, <2>1 DEF Lock
  <1>3. ASSUME NEW f \in FE, SendToRm(f) PROVE TypeOK'
    <2> DEFINE p == First(leader, Remaining(f))
    <2>1. leader \in RM /\ packet[f] \in Packet
      BY <1>3 DEF SendToRm, Serving, Listeners
    <2>2. p \in Remaining(f) /\ Remaining(f) \subseteq RM
      <3>1. Remaining(f) \subseteq RM /\ Remaining(f) # {}
        BY <1>3, <2>1 DEF SendToRm, Remaining
      <3>2. IsFiniteSet(Remaining(f))
        BY <3>1, FS_Subset
      <3> QED
        BY <2>1, <3>1, <3>2, FirstExists
    <2> HIDE DEF p
    <2>3. /\ wire' = Transmit(leader, p, packet[f])
          /\ current' = [current EXCEPT ![f] = p]
          /\ todo' = [todo EXCEPT ![f] = Remaining(f) \ {p}]
          /\ pc' = [pc EXCEPT ![f] = "confirm"]
          /\ UNCHANGED <<alive, leader, socks, handler, hand, applied, answered, sent, packet, sem>>
      BY <1>3 DEF SendToRm, p
    <2>4. wire' \in [RM -> [RM -> Seq(Packet \cup {Confirmation})]]
      BY <2>1, <2>2, <2>3, TransmitEffect
    <2> QED
      BY <2>2, <2>3, <2>4
  <1>4. ASSUME NEW f \in FE, ReadConfirmation(f) PROVE TypeOK'
    <2> DEFINE p == current[f]
    <2>1. leader \in RM /\ p \in RM /\ wire[p][leader] # <<>>
      BY <1>4 DEF ReadConfirmation, Serving, Listeners
    <2>2. Tail(wire[p][leader]) \in Seq(Packet \cup {Confirmation})
      <3>1. wire \in [RM -> [RM -> Seq(Packet \cup {Confirmation})]]
        OBVIOUS
      <3> HIDE DEF p
      <3>2. wire[p][leader] \in Seq(Packet \cup {Confirmation})
        BY ONLY <2>1, <3>1
      <3> QED
        BY <2>1, <3>2, HeadTailProperties
    <2>3. wire' = [wire EXCEPT ![p][leader] = Tail(wire[p][leader])]
      BY <1>4 DEF ReadConfirmation
    <2>4. wire' \in [RM -> [RM -> Seq(Packet \cup {Confirmation})]]
      BY <2>1, <2>2, <2>3
    <2> QED
      BY <1>4, <2>4 DEF ReadConfirmation
  <1>5. ASSUME NEW f \in FE, ReadConfirmationFails(f) PROVE TypeOK'
    <2>1. leader \in RM
      BY <1>5 DEF ReadConfirmationFails, Serving
    <2>2. socks' \in [RM -> SUBSET RM]
      BY <1>5, <2>1 DEF ReadConfirmationFails
    <2>3. \A v : From(leader, v, socks[leader] \ {current[f]}) \subseteq RM
      BY <2>1 DEF From
    <2>4. todo' \in [FE -> SUBSET RM]
      <3>1. CASE todo' = todo
        BY <3>1
      <3>2. CASE todo' # todo
        <4>1. PICK v : todo' = [todo EXCEPT ![f] = From(leader, v, socks[leader] \ {current[f]})]
          BY <1>5, <3>2 DEF ReadConfirmationFails
        <4> QED
          BY <2>3, <4>1
      <3> QED
        BY <3>1, <3>2
    <2> QED
      BY <1>5, <2>2, <2>4 DEF ReadConfirmationFails
  <1>6. ASSUME NEW f \in FE, Unlock(f) PROVE TypeOK'
    BY <1>6 DEF Unlock
  <1>7. ASSUME NEW f \in FE, SendAck(f) PROVE TypeOK'
    <2>1. packet[f] \in Packet
      BY <1>7 DEF SendAck, Listeners
    <2> QED
      BY <1>7, <2>1 DEF SendAck
  <1>8. ASSUME NEW f \in FE, ProcessPacket(f) PROVE TypeOK'
    <2>1. packet[f] \in Packet /\ leader \in RM
      BY <1>8 DEF ProcessPacket, Listeners, Serving
    <2>2. applied' \in [RM -> Seq(Packet)]
      BY <1>8, <2>1 DEF ProcessPacket
    <2> QED
      BY <1>8, <2>1, <2>2 DEF ProcessPacket
  <1>9. ASSUME NEW r \in RM, NEW p \in RM, HandlerTop(r, p) \/ HandlerEof(r, p) PROVE TypeOK'
    <2>1. CASE HandlerTop(r, p)
      <3>1. handler' \in [RM -> [RM -> {"none", "top", "reading", "apply", "closed"}]]
        BY <2>1 DEF HandlerTop
      <3> QED
        BY <2>1, <3>1 DEF HandlerTop
    <2>2. CASE HandlerEof(r, p)
      <3>1. handler' \in [RM -> [RM -> {"none", "top", "reading", "apply", "closed"}]]
        BY <2>2 DEF HandlerEof
      <3>2. socks' \in [RM -> SUBSET RM]
        BY <2>2 DEF HandlerEof
      <3> QED
        BY <2>2, <3>1, <3>2 DEF HandlerEof
    <2> QED
      BY <1>9, <2>1, <2>2
  <1>10. ASSUME NEW r \in RM, NEW p \in RM, HandlerRead(r, p) PROVE TypeOK'
    <2>1. wire[p][r] # <<>> /\ wire[p][r] \in Seq(Packet \cup {Confirmation})
      BY <1>10 DEF HandlerRead
    <2>2. /\ Tail(wire[p][r]) \in Seq(Packet \cup {Confirmation})
          /\ Head(wire[p][r]) \in Packet \cup {Confirmation}
      BY <2>1, HeadTailProperties
    <2>3. wire' = [wire EXCEPT ![p][r] = Tail(wire[p][r])]
      BY <1>10 DEF HandlerRead
    <2>4. wire' \in [RM -> [RM -> Seq(Packet \cup {Confirmation})]]
      BY <2>2, <2>3
    <2>5. hand' \in [RM -> [RM -> Packet \cup {Confirmation, NoPacket}]]
      BY <1>10, <2>2 DEF HandlerRead
    <2>6. handler' \in [RM -> [RM -> {"none", "top", "reading", "apply", "closed"}]]
      BY <1>10 DEF HandlerRead
    <2> QED
      BY <1>10, <2>4, <2>5, <2>6 DEF HandlerRead
  <1>11. ASSUME NEW r \in RM, NEW p \in RM, HandlerApply(r, p) PROVE TypeOK'
    <2> DEFINE m == hand[r][p]
    <2>1. m \in Packet \cup {Confirmation}
      BY <1>11 DEF HandlerApply, Handlers
    <2>2. wire' \in [RM -> [RM -> Seq(Packet \cup {Confirmation})]]
      BY <1>11, TransmitEffect DEF HandlerApply
    <2>3. hand' \in [RM -> [RM -> Packet \cup {Confirmation, NoPacket}]]
      BY <1>11 DEF HandlerApply
    <2>4. handler' \in [RM -> [RM -> {"none", "top", "reading", "apply", "closed"}]]
      BY <1>11 DEF HandlerApply
    <2>5. applied' \in [RM -> Seq(Packet)]
      <3>1. CASE m = Confirmation
        BY <1>11, <3>1 DEF HandlerApply
      <3>2. CASE m # Confirmation
        <4>1. applied' = [applied EXCEPT ![r] = Append(applied[r], m)]
          BY <1>11, <3>2 DEF HandlerApply
        <4>2. Append(applied[r], m) \in Seq(Packet)
          BY <2>1, <3>2, AppendItems
        <4> QED
          BY <4>1, <4>2
      <3> QED
        BY <3>1, <3>2
    <2> QED
      BY <1>11, <2>2, <2>3, <2>4, <2>5 DEF HandlerApply
  <1>12. ASSUME NEW r \in RM, Crash(r) PROVE TypeOK'
    <2>1. /\ alive' \subseteq RM
          /\ handler' \in [RM -> [RM -> {"none", "top", "reading", "apply", "closed"}]]
      BY <1>12 DEF Crash
    <2>2. hand' \in [RM -> [RM -> Packet \cup {Confirmation, NoPacket}]]
      BY <1>12 DEF Crash
    <2>3. wire' \in [RM -> [RM -> Seq(Packet \cup {Confirmation})]]
      <3>1. \A p \in RM : [wire[p] EXCEPT ![r] = <<>>] \in [RM -> Seq(Packet \cup {Confirmation})]
        BY EmptySeq
      <3> QED
        BY <1>12, <3>1 DEF Crash
    <2>4. UNCHANGED <<socks, applied, answered, sent>> /\ alive' = alive \ {r}
      BY <1>12 DEF Crash
    <2>5. leader' \in alive' \cup {NoRM}
      BY <1>12, <2>4 DEF Crash
    <2>6. pc' \in [FE -> {"reading", "lock", "replicate", "confirm", "ack", "process"}]
      BY <1>12 DEF Crash
    <2>7. packet' \in [FE -> Packet \cup {NoPacket}]
      BY <1>12 DEF Crash
    <2>8. /\ current' \in [FE -> RM \cup {NoRM}]
          /\ todo' \in [FE -> SUBSET RM]
          /\ sem' \in FE \cup {NoFE}
      BY <1>12 DEF Crash
    <2> QED
      BY <2>1, <2>2, <2>3, <2>4, <2>5, <2>6, <2>7, <2>8
  <1>13. ASSUME NEW r \in RM, Promote(r) PROVE TypeOK'
    BY <1>13 DEF Promote
  <1>14. CASE UNCHANGED vars
    BY <1>14 DEF vars
  <1> QED
    BY <1>1, <1>2, <1>3, <1>4, <1>5, <1>6, <1>7, <1>8, <1>9, <1>10, <1>11, <1>12, <1>13, <1>14
    DEF Next, ListenerStep, HandlerStep

-----------------------------------------------------------------------------
(* What the steps do, entry by entry.                                       *)
LEMMA ReadPacketEffect ==
    ASSUME SInv, NEW f \in FE, ReadPacket(f)
    PROVE  /\ leader \in alive /\ pc[f] = "reading"
           /\ \A g \in FE : pc'[g] = IF g = f THEN "lock" ELSE pc[g]
           /\ \A g \in FE : g # f => packet'[g] = packet[g]
           /\ packet'[f] \in Packet /\ packet'[f].fe = f /\ packet'[f].n = sent[f] + 1
           /\ \A g \in FE : sent'[g] = IF g = f THEN sent[f] + 1 ELSE sent[g]
           /\ UNCHANGED <<alive, leader, socks, wire, handler, hand, applied, answered,
                          current, todo, sem>>
  <1>1. PICK k \in Traffic[f][sent[f] + 1] :
            packet' = [packet EXCEPT ![f] = [fe |-> f, n |-> sent[f] + 1, kind |-> k]]
    BY DEF ReadPacket
  <1>2. /\ pc \in [FE -> {"reading", "lock", "replicate", "confirm", "ack", "process"}]
        /\ packet \in [FE -> Packet \cup {NoPacket}] /\ sent \in [FE -> Nat]
        /\ leader \in alive \cup {NoRM}
    BY DEF SInv, TypeOK
  <1>3. sent[f] + 1 \in 1 .. Len(Traffic[f]) /\ k \in Kind /\ sent[f] \in Nat
    BY <1>1, <1>2, ConstantsAssumption DEF ReadPacket
  <1>4. [fe |-> f, n |-> sent[f] + 1, kind |-> k] \in Packet
    BY <1>3 DEF Packet
  <1> QED
    BY <1>1, <1>2, <1>4 DEF ReadPacket, Serving

(* Server::listenFrontEndCommunication takes the semaphore.                  *)
LEMMA LockEffect ==
    ASSUME SInv, NEW f \in FE, Lock(f)
    PROVE  /\ leader \in alive /\ leader \in RM /\ pc[f] = "lock" /\ sem = NoFE /\ sem' = f
           /\ \A g \in FE : pc'[g] = IF g = f THEN "replicate" ELSE pc[g]
           /\ \A g \in FE : todo'[g] = IF g = f THEN socks[leader] ELSE todo[g]
           /\ UNCHANGED <<alive, leader, socks, wire, handler, hand, applied, answered,
                          sent, packet, current>>
  BY DEF SInv, TypeOK, Lock, Serving

(* The peer that SendToRm writes to, and what changes.                       *)
WritesTo(f, p) ==
    /\ p \in todo[f]
    /\ \A g \in FE : current'[g] = IF g = f THEN p ELSE current[g]
    /\ \A g \in FE : todo'[g] = IF g = f THEN Remaining(f) \ {p} ELSE todo[g]
    /\ \A a, b \in RM : wire'[a][b] =
          IF a = leader /\ b = p /\ p \in alive
          THEN Append(wire[leader][p], packet[f]) ELSE wire[a][b]

(* The replication loop writes to its next peer.                             *)
LEMMA SendToRmEffect ==
    ASSUME SInv, NEW f \in FE, SendToRm(f)
    PROVE  /\ leader \in alive /\ leader \in RM /\ pc[f] = "replicate" /\ sem = f
           /\ packet[f] \in Packet /\ packet[f].fe = f
           /\ \E p \in RM \ {leader} : WritesTo(f, p)
           /\ \A g \in FE : pc'[g] = IF g = f THEN "confirm" ELSE pc[g]
           /\ UNCHANGED <<alive, leader, socks, handler, hand, applied, answered, sent,
                          packet, sem>>
  <1> DEFINE p == First(leader, Remaining(f))
  <1>1. leader \in alive /\ leader \in RM /\ packet[f] \in Packet /\ packet[f].fe = f /\ sem = f
    BY DEF SInv, SendToRm, Serving, Listeners, TypeOK
  <1>2. Remaining(f) \subseteq RM \ {leader} /\ Remaining(f) # {} /\ Remaining(f) \subseteq todo[f]
    <2>1. socks[leader] \subseteq RM \ {leader}
      BY <1>1 DEF SInv, TypeOK, Connected
    <2> QED
      BY <2>1 DEF SendToRm, Remaining
  <1>3. IsFiniteSet(Remaining(f))
    BY <1>2, FS_Subset, ConstantsAssumption
  <1>4. p \in Remaining(f)
    BY <1>1, <1>2, <1>3, FirstExists
  <1> HIDE DEF p
  <1>5. /\ wire' = Transmit(leader, p, packet[f])
        /\ current' = [current EXCEPT ![f] = p]
        /\ todo' = [todo EXCEPT ![f] = Remaining(f) \ {p}]
        /\ pc' = [pc EXCEPT ![f] = "confirm"]
        /\ pc[f] = "replicate"
        /\ UNCHANGED <<alive, leader, socks, handler, hand, applied, answered, sent, packet, sem>>
    BY DEF SendToRm, p
  <1>6. /\ pc \in [FE -> {"reading", "lock", "replicate", "confirm", "ack", "process"}]
        /\ current \in [FE -> RM \cup {NoRM}] /\ todo \in [FE -> SUBSET RM] /\ TypeOK
    BY DEF SInv, TypeOK
  <1>7. \A a, b \in RM : wire'[a][b] =
             IF a = leader /\ b = p /\ p \in alive
             THEN Append(wire[leader][p], packet[f]) ELSE wire[a][b]
    <2>1. \A a, b \in RM : Transmit(leader, p, packet[f])[a][b] =
             IF a = leader /\ b = p /\ p \in alive
             THEN Append(wire[leader][p], packet[f]) ELSE wire[a][b]
      BY <1>1, <1>2, <1>4, <1>6, TransmitEffect
    <2> QED
      BY ONLY <1>5, <2>1
  <1>8. /\ \A g \in FE : current'[g] = IF g = f THEN p ELSE current[g]
        /\ \A g \in FE : todo'[g] = IF g = f THEN Remaining(f) \ {p} ELSE todo[g]
        /\ \A g \in FE : pc'[g] = IF g = f THEN "confirm" ELSE pc[g]
    BY <1>5, <1>6
  <1>9. p \in RM \ {leader} /\ WritesTo(f, p)
    BY <1>2, <1>4, <1>7, <1>8 DEF WritesTo
  <1> QED
    BY <1>1, <1>5, <1>8, <1>9

(* It reads what that peer has written.                                      *)
LEMMA ReadConfirmationEffect ==
    ASSUME SInv, NEW f \in FE, ReadConfirmation(f)
    PROVE  LET p == current[f] IN
           /\ leader \in alive /\ leader \in RM /\ pc[f] = "confirm" /\ sem = f
           /\ p \in RM \ {leader} /\ wire[p][leader] # <<>>
           /\ wire[p][leader] \in Seq(Packet \cup {Confirmation})
           /\ \A a, b \in RM : wire'[a][b] =
                 IF a = p /\ b = leader THEN Tail(wire[p][leader]) ELSE wire[a][b]
           /\ wire' = [wire EXCEPT ![p][leader] = Tail(wire[p][leader])]
           /\ \A g \in FE : pc'[g] = IF g = f THEN "replicate" ELSE pc[g]
           /\ UNCHANGED <<alive, leader, socks, handler, hand, applied, answered, sent,
                          packet, current, todo, sem>>
  <1> DEFINE p == current[f]
  <1>1. leader \in alive /\ leader \in RM /\ pc[f] = "confirm" /\ p \in RM \ {leader} /\ sem = f
    BY DEF SInv, TypeOK, Listeners, ReadConfirmation, Serving
  <1>2. /\ wire \in [RM -> [RM -> Seq(Packet \cup {Confirmation})]]
        /\ pc \in [FE -> {"reading", "lock", "replicate", "confirm", "ack", "process"}]
    BY DEF SInv, TypeOK
  <1>3. /\ wire' = [wire EXCEPT ![p][leader] = Tail(wire[p][leader])]
        /\ pc' = [pc EXCEPT ![f] = "replicate"]
        /\ wire[p][leader] # <<>>
        /\ UNCHANGED <<alive, leader, socks, handler, hand, applied, answered, sent,
                       packet, current, todo, sem>>
    BY DEF ReadConfirmation
  <1> HIDE DEF p
  <1>4. \A a, b \in RM : wire'[a][b] =
                 IF a = p /\ b = leader THEN Tail(wire[p][leader]) ELSE wire[a][b]
    BY <1>1, <1>2, <1>3
  <1>5. wire[p][leader] \in Seq(Packet \cup {Confirmation})
    BY <1>1, <1>2
  <1>6. \A g \in FE : pc'[g] = IF g = f THEN "replicate" ELSE pc[g]
    BY <1>2, <1>3
  <1> QED
    BY <1>1, <1>3, <1>4, <1>5, <1>6 DEF p

(* It reads end of file: the peer is dead and loses its socket.              *)
LEMMA ReadConfirmationFailsEffect ==
    ASSUME SInv, NEW f \in FE, ReadConfirmationFails(f)
    PROVE  LET p == current[f] IN
           /\ leader \in alive /\ leader \in RM /\ pc[f] = "confirm" /\ sem = f
           /\ p \in RM \ alive /\ p \notin todo[f]
           /\ \A r \in RM : socks'[r] = IF r = leader THEN socks[r] \ {p} ELSE socks[r]
           /\ socks' \in [RM -> SUBSET RM]
           /\ \A g \in FE : g # f => todo'[g] = todo[g]
           /\ todo' \in [FE -> SUBSET RM]
           /\ todo'[f] = todo[f] \/ Remaining(f) \subseteq {p}
           /\ \A g \in FE : pc'[g] = IF g = f THEN "replicate" ELSE pc[g]
           /\ UNCHANGED <<alive, leader, wire, handler, hand, applied, answered, sent,
                          packet, current, sem>>
  <1> DEFINE p == current[f]
             left == socks[leader] \ {p}
  <1>1. /\ leader \in alive /\ leader \in RM /\ pc[f] = "confirm" /\ p \in RM \ alive /\ sem = f
        /\ p \notin todo[f]
    BY DEF SInv, TypeOK, Listeners, ReadConfirmationFails, Serving, EndOfFile
  <1>2. /\ socks \in [RM -> SUBSET RM] /\ todo \in [FE -> SUBSET RM]
        /\ pc \in [FE -> {"reading", "lock", "replicate", "confirm", "ack", "process"}]
    BY DEF SInv, TypeOK
  <1>3. /\ socks' = [socks EXCEPT ![leader] = left]
        /\ pc' = [pc EXCEPT ![f] = "replicate"]
        /\ UNCHANGED <<alive, leader, wire, handler, hand, applied, answered, sent,
                       packet, current, sem>>
    BY DEF ReadConfirmationFails
  <1>4. /\ \A r \in RM : socks'[r] = IF r = leader THEN left ELSE socks[r]
        /\ socks' \in [RM -> SUBSET RM]
    BY <1>1, <1>2, <1>3
  <1>5. /\ \A g \in FE : g # f => todo'[g] = todo[g]
        /\ todo' \in [FE -> SUBSET RM]
        /\ todo'[f] = todo[f] \/ Remaining(f) \subseteq {p}
    <2>1. CASE todo' = todo
      BY <1>2, <2>1
    <2>2. CASE todo' # todo
      <3>1. PICK v : todo' = [todo EXCEPT ![f] = From(leader, v, left)]
        BY <2>2 DEF ReadConfirmationFails
      <3>2. Remaining(f) \ {p} = {}
        BY <2>2 DEF ReadConfirmationFails
      <3>3. From(leader, v, left) \subseteq RM
        BY <1>1, <1>2 DEF From
      <3> HIDE DEF left, p
      <3> QED
        BY <1>2, <3>1, <3>2, <3>3
    <2> QED
      BY <2>1, <2>2
  <1>6. \A g \in FE : pc'[g] = IF g = f THEN "replicate" ELSE pc[g]
    BY <1>2, <1>3
  <1> QED
    BY <1>1, <1>3, <1>4, <1>5, <1>6

(* The loop is over and the semaphore released.                              *)
LEMMA UnlockEffect ==
    ASSUME SInv, NEW f \in FE, Unlock(f)
    PROVE  /\ leader \in alive /\ leader \in RM /\ pc[f] = "replicate" /\ sem = f /\ sem' = NoFE
           /\ Remaining(f) = {}
           /\ \A g \in FE : pc'[g] =
                 IF g = f THEN IF packet[f].kind = "MESSAGE" THEN "ack" ELSE "process"
                 ELSE pc[g]
           /\ \A g \in FE : g # f => todo'[g] = todo[g] /\ current'[g] = current[g]
           /\ UNCHANGED <<alive, leader, socks, wire, handler, hand, applied, answered,
                          sent, packet>>
  BY DEF SInv, TypeOK, Unlock, Serving, Listeners

(* The packet is acknowledged, then applied.                                 *)
LEMMA SendAckEffect ==
    ASSUME SInv, NEW f \in FE, SendAck(f)
    PROVE  /\ leader \in alive /\ leader \in RM /\ pc[f] = "ack" /\ packet[f] \in Packet
           /\ answered' = answered \cup {packet[f]}
           /\ \A g \in FE : pc'[g] = IF g = f THEN "process" ELSE pc[g]
           /\ UNCHANGED <<alive, leader, socks, wire, handler, hand, applied, sent,
                          packet, current, todo, sem>>
  BY DEF SInv, TypeOK, SendAck, Serving, Listeners

(* The packet is handed to the primary's ServerGroupManager.                 *)
LEMMA ProcessPacketEffect ==
    ASSUME SInv, NEW f \in FE, ProcessPacket(f)
    PROVE  /\ leader \in alive /\ leader \in RM /\ pc[f] = "process" /\ packet[f] \in Packet
           /\ \A r \in RM : applied'[r] =
                 IF r = leader THEN Append(applied[r], packet[f]) ELSE applied[r]
           /\ applied' \in [RM -> Seq(Packet)]
           /\ answered \subseteq answered' /\ answered' \subseteq answered \cup {packet[f]}
           /\ \A g \in FE : packet'[g] = IF g = f THEN NoPacket ELSE packet[g]
           /\ \A g \in FE : pc'[g] = IF g = f THEN "reading" ELSE pc[g]
           /\ UNCHANGED <<alive, leader, socks, wire, handler, hand, sent, current, todo, sem>>
  <1>1. leader \in alive /\ leader \in RM /\ pc[f] = "process" /\ packet[f] \in Packet
    BY DEF SInv, TypeOK, ProcessPacket, Serving, Listeners
  <1>2. /\ pc \in [FE -> {"reading", "lock", "replicate", "confirm", "ack", "process"}]
        /\ packet \in [FE -> Packet \cup {NoPacket}] /\ applied \in [RM -> Seq(Packet)]
    BY DEF SInv, TypeOK
  <1>3. Append(applied[leader], packet[f]) \in Seq(Packet)
    BY <1>1, <1>2, AppendItems
  <1>4. applied' = [applied EXCEPT ![leader] = Append(applied[leader], packet[f])]
    BY DEF ProcessPacket
  <1>5. /\ applied' \in [RM -> Seq(Packet)]
        /\ \A r \in RM : applied'[r] =
                 IF r = leader THEN Append(applied[r], packet[f]) ELSE applied[r]
    BY <1>1, <1>2, <1>3, <1>4
  <1>6. /\ \A g \in FE : packet'[g] = IF g = f THEN NoPacket ELSE packet[g]
        /\ \A g \in FE : pc'[g] = IF g = f THEN "reading" ELSE pc[g]
    BY <1>2 DEF ProcessPacket
  <1>7. answered \subseteq answered' /\ answered' \subseteq answered \cup {packet[f]}
    BY DEF ProcessPacket
  <1> QED
    BY <1>1, <1>5, <1>6, <1>7 DEF ProcessPacket

(* The steps of an RM's thread.                                              *)
LEMMA HandlerIdleEffect ==
    ASSUME SInv, NEW r \in RM, NEW p \in RM, HandlerTop(r, p) \/ HandlerEof(r, p)
    PROVE  /\ r \in alive /\ r # p /\ hand[r][p] = NoPacket
           /\ \A a, b \in RM : a # r \/ b # p => handler'[a][b] = handler[a][b]
           /\ handler'[r][p] \in {"reading", "closed"}
           /\ UNCHANGED <<alive, leader, wire, hand, applied, answered, sent, threads>>
  <1>1. handler \in [RM -> [RM -> {"none", "top", "reading", "apply", "closed"}]]
    BY DEF SInv, TypeOK
  <1>2. /\ r \in alive /\ handler[r][p] \in {"top", "reading"}
        /\ UNCHANGED <<alive, leader, wire, hand, applied, answered, sent, threads>>
    BY DEF HandlerTop, HandlerEof
  <1>3. \E l \in {"reading", "closed"} : handler' = [handler EXCEPT ![r][p] = l]
    BY DEF HandlerTop, HandlerEof
  <1>4. r # p /\ hand[r][p] = NoPacket
    BY <1>2 DEF SInv, Handlers
  <1>5. /\ \A a, b \in RM : a # r \/ b # p => handler'[a][b] = handler[a][b]
        /\ handler'[r][p] \in {"reading", "closed"}
    BY <1>1, <1>3
  <1> QED
    BY <1>2, <1>4, <1>5

(* It reads a packet.                                                        *)
LEMMA HandlerReadEffect ==
    ASSUME SInv, NEW r \in RM, NEW p \in RM, HandlerRead(r, p)
    PROVE  /\ r \in alive /\ r # p /\ hand[r][p] = NoPacket /\ wire[p][r] # <<>>
           /\ Head(wire[p][r]) \in Packet \cup {Confirmation}
           /\ \A a, b \in RM :
                 /\ wire'[a][b] = IF a = p /\ b = r THEN Tail(wire[p][r]) ELSE wire[a][b]
                 /\ hand'[a][b] = IF a = r /\ b = p THEN Head(wire[p][r]) ELSE hand[a][b]
                 /\ handler'[a][b] = IF a = r /\ b = p THEN "apply" ELSE handler[a][b]
           /\ UNCHANGED <<alive, leader, socks, applied, answered, sent, threads>>
  <1>1. /\ handler \in [RM -> [RM -> {"none", "top", "reading", "apply", "closed"}]]
        /\ wire \in [RM -> [RM -> Seq(Packet \cup {Confirmation})]]
        /\ hand \in [RM -> [RM -> Packet \cup {Confirmation, NoPacket}]]
    BY DEF SInv, TypeOK
  <1>2. /\ r \in alive /\ handler[r][p] = "reading" /\ wire[p][r] # <<>>
        /\ hand' = [hand EXCEPT ![r][p] = Head(wire[p][r])]
        /\ wire' = [wire EXCEPT ![p][r] = Tail(wire[p][r])]
        /\ handler' = [handler EXCEPT ![r][p] = "apply"]
        /\ UNCHANGED <<alive, leader, socks, applied, answered, sent, threads>>
    BY DEF HandlerRead
  <1>3. r # p /\ hand[r][p] = NoPacket
    BY <1>2 DEF SInv, Handlers
  <1>4. Head(wire[p][r]) \in Packet \cup {Confirmation}
    <2>1. wire[p][r] \in Seq(Packet \cup {Confirmation})
      BY <1>1
    <2> QED
      BY <1>2, <2>1, HeadTailProperties
  <1>5. \A a, b \in RM : wire'[a][b] = IF a = p /\ b = r THEN Tail(wire[p][r]) ELSE wire[a][b]
    BY <1>1, <1>2
  <1>6. \A a, b \in RM : hand'[a][b] = IF a = r /\ b = p THEN Head(wire[p][r]) ELSE hand[a][b]
    BY <1>1, <1>2
  <1>7. \A a, b \in RM : handler'[a][b] = IF a = r /\ b = p THEN "apply" ELSE handler[a][b]
    BY <1>1, <1>2
  <1> QED
    BY <1>2, <1>3, <1>4, <1>5, <1>6, <1>7

(* It applies the packet and writes a confirmation.                          *)
LEMMA HandlerApplyEffect ==
    ASSUME SInv, NEW r \in RM, NEW p \in RM, HandlerApply(r, p)
    PROVE  LET m == hand[r][p] IN
           /\ r \in alive /\ r # p /\ m \in Packet \cup {Confirmation}
           /\ \A a, b \in RM :
                 /\ wire'[a][b] = IF a = r /\ b = p /\ p \in alive
                                  THEN Append(wire[r][p], Confirmation) ELSE wire[a][b]
                 /\ hand'[a][b] = IF a = r /\ b = p THEN NoPacket ELSE hand[a][b]
                 /\ handler'[a][b] = IF a = r /\ b = p THEN "top" ELSE handler[a][b]
           /\ \A a \in RM : applied'[a] =
                 IF a = r /\ m # Confirmation THEN Append(applied[r], m) ELSE applied[a]
           /\ applied' \in [RM -> Seq(Packet)]
           /\ UNCHANGED <<alive, leader, socks, answered, sent, threads>>
  <1> DEFINE m == hand[r][p]
  <1>1. /\ handler \in [RM -> [RM -> {"none", "top", "reading", "apply", "closed"}]]
        /\ wire \in [RM -> [RM -> Seq(Packet \cup {Confirmation})]]
        /\ hand \in [RM -> [RM -> Packet \cup {Confirmation, NoPacket}]]
        /\ applied \in [RM -> Seq(Packet)]
        /\ TypeOK
    BY DEF SInv, TypeOK
  <1>2. /\ r \in alive /\ handler[r][p] = "apply"
        /\ applied' = IF m = Confirmation THEN applied
                      ELSE [applied EXCEPT ![r] = Append(applied[r], m)]
        /\ wire' = Transmit(r, p, Confirmation)
        /\ hand' = [hand EXCEPT ![r][p] = NoPacket]
        /\ handler' = [handler EXCEPT ![r][p] = "top"]
        /\ UNCHANGED <<alive, leader, socks, answered, sent, threads>>
    BY DEF HandlerApply
  <1>3. r # p /\ m # NoPacket
    BY <1>2 DEF SInv, Handlers
  <1>4. m \in Packet \cup {Confirmation}
    BY <1>1, <1>3
  <1> HIDE DEF m
  <1>5. \A a, b \in RM : wire'[a][b] = IF a = r /\ b = p /\ p \in alive
                                  THEN Append(wire[r][p], Confirmation) ELSE wire[a][b]
    <2>1. \A a, b \in RM : Transmit(r, p, Confirmation)[a][b] =
             IF a = r /\ b = p /\ p \in alive
             THEN Append(wire[r][p], Confirmation) ELSE wire[a][b]
      <3>1. TypeOK /\ r \in RM /\ p \in RM /\ Confirmation \in Packet \cup {Confirmation}
        BY <1>1
      <3> QED
        BY ONLY <3>1, TransmitEffect
    <2>2. wire' = Transmit(r, p, Confirmation)
      BY <1>2
    <2> QED
      BY ONLY <2>1, <2>2
  <1>6. \A a, b \in RM : hand'[a][b] = IF a = r /\ b = p THEN NoPacket ELSE hand[a][b]
    BY <1>1, <1>2
  <1>7. \A a, b \in RM : handler'[a][b] = IF a = r /\ b = p THEN "top" ELSE handler[a][b]
    BY <1>1, <1>2
  <1>8. /\ \A a \in RM : applied'[a] =
              IF a = r /\ m # Confirmation THEN Append(applied[r], m) ELSE applied[a]
        /\ applied' \in [RM -> Seq(Packet)]
    <2>1. CASE m = Confirmation
      BY <1>1, <1>2, <2>1
    <2>2. CASE m # Confirmation
      <3>1. Append(applied[r], m) \in Seq(Packet)
        BY <1>1, <1>4, <2>2, AppendItems
      <3> QED
        BY <1>1, <1>2, <2>2, <3>1
    <2> QED
      BY <2>1, <2>2
  <1> QED
    BY <1>2, <1>3, <1>4, <1>5, <1>6, <1>7, <1>8 DEF m

(* A server ends, with its threads and what it was sent.                     *)
LEMMA CrashEffect ==
    ASSUME SInv, NEW r \in RM, Crash(r)
    PROVE  /\ r \in alive /\ alive' = alive \ {r}
           /\ \A a, b \in RM :
                 /\ wire'[a][b] = IF b = r THEN <<>> ELSE wire[a][b]
                 /\ hand'[a][b] = IF a = r THEN NoPacket ELSE hand[a][b]
                 /\ handler'[a][b] = IF a = r THEN "none" ELSE handler[a][b]
           /\ IF r = leader THEN leader' = NoRM /\ IdleThreads'
                            ELSE UNCHANGED <<leader, threads>>
           /\ UNCHANGED <<socks, applied, answered, sent>>
  <1>1. /\ handler \in [RM -> [RM -> {"none", "top", "reading", "apply", "closed"}]]
        /\ wire \in [RM -> [RM -> Seq(Packet \cup {Confirmation})]]
        /\ hand \in [RM -> [RM -> Packet \cup {Confirmation, NoPacket}]]
    BY DEF SInv, TypeOK
  <1>2. \A a, b \in RM : wire'[a][b] = IF b = r THEN <<>> ELSE wire[a][b]
    <2>1. \A a \in RM : wire'[a] = [wire[a] EXCEPT ![r] = <<>>]
      BY DEF Crash
    <2>2. \A a \in RM : wire[a] \in [RM -> Seq(Packet \cup {Confirmation})]
      BY <1>1
    <2> QED
      BY <2>1, <2>2
  <1>3. \A a, b \in RM : hand'[a][b] = IF a = r THEN NoPacket ELSE hand[a][b]
    <2>1. hand' = [hand EXCEPT ![r] = [p \in RM |-> NoPacket]]
      BY DEF Crash
    <2> QED
      BY <1>1, <2>1
  <1>4. \A a, b \in RM : handler'[a][b] = IF a = r THEN "none" ELSE handler[a][b]
    <2>1. handler' = [handler EXCEPT ![r] = [p \in RM |-> "none"]]
      BY DEF Crash
    <2> QED
      BY <1>1, <2>1
  <1>5. /\ r \in alive /\ alive' = alive \ {r}
        /\ UNCHANGED <<socks, applied, answered, sent>>
        /\ IF r = leader THEN leader' = NoRM /\ IdleThreads'
                         ELSE UNCHANGED <<leader, threads>>
    BY DEF Crash, IdleThreads
  <1> QED
    BY <1>2, <1>3, <1>4, <1>5

-----------------------------------------------------------------------------
(* The threads and the sockets.                                             *)
LEMMA ConnectedStep == SInv /\ [Next]_vars => Connected'
  <1> SUFFICES ASSUME SInv, [Next]_vars PROVE Connected'
    OBVIOUS
  <1>1. Connected
    BY DEF SInv
  <1>2. CASE UNCHANGED <<alive, socks>>
    BY <1>1, <1>2 DEF Connected
  <1>3. ASSUME NEW r \in RM, NEW p \in RM \ alive, alive' = alive,
               \A a \in RM : socks'[a] = IF a = r THEN socks[a] \ {p} ELSE socks[a]
        PROVE  Connected'
    BY <1>1, <1>3 DEF Connected
  <1>4. ASSUME NEW f \in FE, ReadConfirmationFails(f) PROVE Connected'
    BY <1>3, <1>4, ReadConfirmationFailsEffect
  <1>5. ASSUME NEW r \in RM, NEW p \in RM, HandlerEof(r, p) PROVE Connected'
    <2>1. socks' = [socks EXCEPT ![r] = socks[r] \ {p}] /\ alive' = alive /\ p \notin alive
      BY <1>5 DEF HandlerEof, EndOfFile
    <2>2. socks \in [RM -> SUBSET RM]
      BY DEF SInv, TypeOK
    <2>3. \A a \in RM : socks'[a] = IF a = r THEN socks[a] \ {p} ELSE socks[a]
      BY <2>1, <2>2
    <2> QED
      BY <1>3, <2>1, <2>3
  <1>6. ASSUME NEW r \in RM, Crash(r) PROVE Connected'
    BY <1>1, <1>6 DEF Crash, Connected
  <1> QED
    BY <1>2, <1>4, <1>5, <1>6
    DEF Next, ListenerStep, HandlerStep, ReadPacket, Lock, SendToRm, ReadConfirmation, Unlock,
        SendAck, ProcessPacket, HandlerTop, HandlerRead, HandlerApply, Promote, vars

(* The semaphore belongs to the thread in the loop.                          *)
LEMMA ListenersStep == SInv /\ [Next]_vars => Listeners'
  <1> SUFFICES ASSUME SInv, [Next]_vars PROVE Listeners'
    OBVIOUS
  <1> USE ConstantsAssumption, NotPackets DEF Listeners
  <1>1. Listeners
    BY DEF SInv
  <1>2. CASE UNCHANGED <<leader, threads>>
    BY <1>1, <1>2 DEF threads
  <1>3. ASSUME NEW f \in FE, ReadPacket(f) PROVE Listeners'
    <2>1. /\ leader \in alive /\ \A g \in FE : pc'[g] = IF g = f THEN "lock" ELSE pc[g]
          /\ \A g \in FE : g # f => packet'[g] = packet[g]
          /\ packet'[f] \in Packet /\ packet'[f].fe = f /\ pc[f] = "reading"
          /\ UNCHANGED <<alive, leader, current, todo, sem>>
      BY <1>3, ReadPacketEffect
    <2>2. leader # NoRM
      BY <2>1 DEF SInv, TypeOK
    <2> QED
      BY <1>1, <2>1, <2>2
  <1>4. ASSUME NEW f \in FE, Lock(f) PROVE Listeners'
    BY <1>1, <1>4, LockEffect
  <1>5. ASSUME NEW f \in FE, SendToRm(f) PROVE Listeners'
    <2>1. PICK p \in RM \ {leader} : WritesTo(f, p)
      BY <1>5, SendToRmEffect
    <2>2. /\ \A g \in FE : pc'[g] = IF g = f THEN "confirm" ELSE pc[g]
          /\ UNCHANGED <<alive, leader, packet, sem>> /\ pc[f] = "replicate"
      BY <1>5, SendToRmEffect
    <2> QED
      BY <1>1, <2>1, <2>2 DEF WritesTo
  <1>6. ASSUME NEW f \in FE, ReadConfirmation(f) PROVE Listeners'
    BY <1>1, <1>6, ReadConfirmationEffect
  <1>7. ASSUME NEW f \in FE, ReadConfirmationFails(f) PROVE Listeners'
    BY <1>1, <1>7, ReadConfirmationFailsEffect
  <1>8. ASSUME NEW f \in FE, Unlock(f) PROVE Listeners'
    BY <1>1, <1>8, UnlockEffect
  <1>9. ASSUME NEW f \in FE, SendAck(f) PROVE Listeners'
    BY <1>1, <1>9, SendAckEffect
  <1>10. ASSUME NEW f \in FE, ProcessPacket(f) PROVE Listeners'
    BY <1>1, <1>10, ProcessPacketEffect
  <1>11. ASSUME NEW r \in RM, Crash(r) PROVE Listeners'
    <2>1. CASE r = leader
      <3>1. IdleThreads' /\ leader' = NoRM
        BY <1>11, <2>1, CrashEffect
      <3>2. \A f \in FE : pc'[f] = "reading" /\ packet'[f] = NoPacket /\ sem' = NoFE
        BY <3>1 DEF IdleThreads
      <3> QED
        BY <3>1, <3>2
    <2>2. CASE r # leader
      BY <1>2, <1>11, <2>2, CrashEffect
    <2> QED
      BY <2>1, <2>2
  <1>12. ASSUME NEW r \in RM, Promote(r) PROVE Listeners'
    BY <1>1, <1>12 DEF Promote, threads
  <1>13. ASSUME NEW r \in RM, NEW p \in RM, HandlerStep(r, p) PROVE Listeners'
    BY <1>2, <1>13 DEF HandlerStep, HandlerTop, HandlerRead, HandlerApply, HandlerEof
  <1>14. CASE UNCHANGED vars
    BY <1>2, <1>14 DEF vars, threads
  <1> QED
    BY <1>3, <1>4, <1>5, <1>6, <1>7, <1>8, <1>9, <1>10, <1>11, <1>12, <1>13, <1>14
    DEF Next, ListenerStep

(* The threads of dead servers are gone.                                     *)
LEMMA HandlersStep == SInv /\ [Next]_vars => Handlers'
  <1> SUFFICES ASSUME SInv, [Next]_vars PROVE Handlers'
    OBVIOUS
  <1> USE NotPackets DEF Handlers
  <1>1. Handlers
    BY DEF SInv
  <1>2. CASE UNCHANGED <<alive, handler, hand, wire>>
    BY <1>1, <1>2
  <1>3. ASSUME NEW f \in FE, SendToRm(f) PROVE Handlers'
    <2>1. PICK p \in RM \ {leader} : WritesTo(f, p)
      BY <1>3, SendToRmEffect
    <2>2. \A a \in RM, b \in RM \ alive : wire'[a][b] = wire[a][b]
      BY <2>1 DEF WritesTo
    <2> QED
      BY <1>1, <1>3, <2>2, SendToRmEffect
  <1>4. ASSUME NEW f \in FE, ReadConfirmation(f) PROVE Handlers'
    <2>1. leader \in alive /\ UNCHANGED <<alive, handler, hand>>
      BY <1>4, ReadConfirmationEffect
    <2>2. \A a, b \in RM : b # leader => wire'[a][b] = wire[a][b]
      BY <1>4, ReadConfirmationEffect
    <2> QED
      BY <1>1, <2>1, <2>2
  <1>5. ASSUME NEW r \in RM, NEW p \in RM, HandlerTop(r, p) \/ HandlerEof(r, p) PROVE Handlers'
    BY <1>1, <1>5, HandlerIdleEffect
  <1>6. ASSUME NEW r \in RM, NEW p \in RM, HandlerRead(r, p) PROVE Handlers'
    BY <1>1, <1>6, HandlerReadEffect
  <1>7. ASSUME NEW r \in RM, NEW p \in RM, HandlerApply(r, p) PROVE Handlers'
    <2>1. \A a \in RM, b \in RM \ alive : wire'[a][b] = wire[a][b]
      BY <1>7, HandlerApplyEffect
    <2>2. /\ r \in alive /\ r # p /\ UNCHANGED alive
          /\ \A a, b \in RM :
                 /\ hand'[a][b] = IF a = r /\ b = p THEN NoPacket ELSE hand[a][b]
                 /\ handler'[a][b] = IF a = r /\ b = p THEN "top" ELSE handler[a][b]
      BY <1>7, HandlerApplyEffect
    <2> QED
      BY <1>1, <2>1, <2>2
  <1>8. ASSUME NEW r \in RM, Crash(r) PROVE Handlers'
    BY <1>1, <1>8, CrashEffect
  <1> QED
    BY <1>2, <1>3, <1>4, <1>5, <1>6, <1>7, <1>8
    DEF Next, ListenerStep, HandlerStep, ReadPacket, Lock, ReadConfirmationFails, Unlock,
        SendAck, ProcessPacket, Promote, vars

-----------------------------------------------------------------------------
(* What is under way between two servers.                                   *)

(* Nobody waits for a confirmation, so nothing is under way at all.          *)
LEMMA AllQuiet ==
    ASSUME SInv, NEW f \in FE, sem # f \/ pc[f] # "confirm", sem \in {f, NoFE}
    PROVE  \A a, b \in alive : Nothing(a, b)
  <1>1. \A g \in FE : pc[g] # "confirm"
    BY ConstantsAssumption DEF SInv, Listeners
  <1>2. \A a, b \in alive : Quiescent(a, b)
    BY <1>1 DEF Quiescent, Awaits
  <1> QED
    BY <1>2 DEF SInv, Links

(* If one waits, nothing is under way but between the primary and its peer.  *)
LEMMA OthersQuiet ==
    ASSUME SInv, NEW f \in FE, pc[f] = "confirm", NEW a \in alive, NEW b \in alive,
           {a, b} # {leader, current[f]}
    PROVE  Nothing(a, b) /\ Nothing(b, a)
  <1>1. \A g \in FE : pc[g] = "confirm" => g = f
    BY DEF SInv, Listeners
  <1>2. Quiescent(a, b) /\ Quiescent(b, a)
    BY <1>1 DEF Quiescent, Awaits
  <1> QED
    BY <1>2 DEF SInv, Links

(* Steps of the primary that write and read nothing.                         *)
LEMMA LinksKept ==
    ASSUME SInv, UNCHANGED <<wire, hand, leader, alive, current>>,
           \A f \in FE : pc'[f] = "confirm" <=> pc[f] = "confirm",
           \A f \in FE : pc[f] = "confirm" => packet'[f] = packet[f],
           \A r \in RM : ToSet(applied[r]) \subseteq ToSet(applied'[r])
    PROVE  Links' /\ Deliveries'
  <1>1. \A a, b : Nothing(a, b)' <=> Nothing(a, b)
    BY DEF Nothing
  <1>2. \A m, a, b : Only(m, a, b)' <=> Only(m, a, b)
    BY DEF Only
  <1>3. \A f \in FE : \A p : Awaits(f, p)' <=> Awaits(f, p)
    BY DEF Awaits
  <1>4. \A a, b : Quiescent(a, b)' <=> Quiescent(a, b)
    BY <1>3 DEF Quiescent
  <1>5. Links'
    BY <1>1, <1>4 DEF SInv, Links
  <1>6. ASSUME NEW f \in FE, NEW p \in alive, Awaits(f, p) PROVE Delivery(f, p)'
    <2>1. Delivery(f, p) /\ packet'[f] = packet[f] /\ p \in RM
      BY <1>6 DEF SInv, TypeOK, Deliveries, Awaits
    <2>2. Has(p, packet[f]) => Has(p, packet[f])'
      BY <2>1 DEF Has
    <2> QED
      BY <1>1, <1>2, <2>1, <2>2 DEF Delivery
  <1>7. Deliveries'
    BY <1>3, <1>6 DEF Deliveries
  <1> QED
    BY <1>5, <1>7

(* A listener's write is the only thing under way, until it is confirmed.    *)
LEMMA LinksListener ==
    ASSUME SInv, NEW f \in FE, ReadPacket(f) \/ ListenerStep(f)
    PROVE  Links' /\ Deliveries'
  <1>1. alive \subseteq RM /\ (leader \in alive => leader \in RM)
    BY DEF SInv, TypeOK
  <1>2. CASE ReadPacket(f)
    BY <1>2, ReadPacketEffect, LinksKept
  <1>3. CASE Lock(f)
    BY <1>3, LockEffect, LinksKept
  <1>4. CASE SendToRm(f)
    <2>1. PICK p \in RM \ {leader} : WritesTo(f, p)
      BY <1>4, SendToRmEffect
    <2>2. /\ leader \in alive /\ pc[f] = "replicate" /\ sem = f
          /\ \A g \in FE : pc'[g] = IF g = f THEN "confirm" ELSE pc[g]
          /\ UNCHANGED <<alive, leader, hand, packet, applied>>
      BY <1>4, SendToRmEffect
    <2>3. \A a, b \in alive : Nothing(a, b)
      BY <2>2, AllQuiet
    <2>4. \A g \in FE : \A q : Awaits(g, q)' <=> g = f /\ q = p
      <3>1. \A g \in FE : pc[g] # "confirm"
        BY <2>2 DEF SInv, Listeners
      <3> QED
        BY <2>1, <2>2, <3>1 DEF Awaits, WritesTo
    <2>5. \A a, b \in alive : a # leader \/ b # p => Nothing(a, b)'
      BY <1>1, <2>1, <2>2, <2>3 DEF Nothing, WritesTo
    <2>6. Links'
      BY <2>2, <2>4, <2>5 DEF Links, Quiescent
    <2>7. ASSUME p \in alive PROVE Delivery(f, p)'
      <3>1. wire'[leader][p] = <<packet[f]>> /\ hand'[p][leader] = NoPacket
        <4>1. wire[leader][p] = <<>> /\ hand[p][leader] = NoPacket
          BY <2>2, <2>3, <2>7 DEF Nothing
        <4>2. wire'[leader][p] = Append(wire[leader][p], packet[f])
          BY <1>1, <2>1, <2>2, <2>7 DEF WritesTo
        <4> QED
          BY <2>2, <4>1, <4>2, AppendOne
      <3>2. Nothing(p, leader)'
        BY <2>1, <2>2, <2>5, <2>7
      <3> QED
        BY <2>2, <3>1, <3>2 DEF Delivery, Only
    <2>8. Deliveries'
      BY <2>2, <2>4, <2>7 DEF Deliveries
    <2> QED
      BY <2>6, <2>8
  <1>5. CASE ReadConfirmation(f)
    <2> DEFINE p == current[f]
    <2>1. /\ leader \in alive /\ pc[f] = "confirm" /\ p \in RM \ {leader}
          /\ wire[p][leader] # <<>>
          /\ \A a, b \in RM : wire'[a][b] =
                IF a = p /\ b = leader THEN Tail(wire[p][leader]) ELSE wire[a][b]
          /\ \A g \in FE : pc'[g] = IF g = f THEN "replicate" ELSE pc[g]
          /\ UNCHANGED <<alive, leader, hand, packet, current, applied>>
      BY <1>5, ReadConfirmationEffect
    <2>2. \A g \in FE : pc'[g] # "confirm"
      BY <2>1 DEF SInv, Listeners
    <2>3. ASSUME NEW a \in alive, NEW b \in alive PROVE Nothing(a, b)'
      <3>1. CASE {a, b} # {leader, p}
        <4>1. Nothing(a, b)
          BY <2>1, <3>1, OthersQuiet
        <4>2. wire'[a][b] = wire[a][b] /\ hand'[b][a] = hand[b][a]
          BY <1>1, <2>1, <3>1
        <4> QED
          BY <4>1, <4>2 DEF Nothing
      <3>2. CASE {a, b} = {leader, p}
        <4>1. p \in alive /\ Awaits(f, p)
          BY <2>1, <3>2 DEF Awaits
        <4>2. Only(Confirmation, p, leader) /\ Nothing(leader, p)
          BY <2>1, <4>1 DEF SInv, Deliveries, Delivery, Nothing
        <4>3. wire[p][leader] = <<Confirmation>> /\ hand[leader][p] = NoPacket
          BY <2>1, <4>2 DEF Only
        <4>4. Tail(wire[p][leader]) = <<>>
          BY <4>3, OneItem
        <4>5. Nothing(p, leader)' /\ Nothing(leader, p)'
          BY <1>1, <2>1, <4>2, <4>3, <4>4 DEF Nothing
        <4>6. (a = leader /\ b = p) \/ (a = p /\ b = leader)
          BY <2>1, <3>2
        <4> QED
          BY <2>1, <4>5, <4>6
      <3> QED
        BY <3>1, <3>2
    <2> QED
      BY <2>1, <2>2, <2>3 DEF Links, Deliveries, Awaits
  <1>6. CASE ReadConfirmationFails(f)
    <2> DEFINE p == current[f]
    <2>1. /\ leader \in alive /\ pc[f] = "confirm" /\ p \in RM \ alive
          /\ \A g \in FE : pc'[g] = IF g = f THEN "replicate" ELSE pc[g]
          /\ UNCHANGED <<alive, leader, hand, wire>>
      BY <1>6, ReadConfirmationFailsEffect
    <2>2. \A g \in FE : pc'[g] # "confirm"
      BY <2>1 DEF SInv, Listeners
    <2>3. \A a, b \in alive : Nothing(a, b)
      BY <2>1, OthersQuiet
    <2>4. \A a, b \in alive : Nothing(a, b)'
      BY <2>1, <2>3 DEF Nothing
    <2> QED
      BY <2>1, <2>2, <2>4 DEF Links, Deliveries, Awaits
  <1>7. CASE Unlock(f)
    <2>1. /\ pc[f] = "replicate" /\ UNCHANGED <<alive, leader, hand, wire, packet, applied>>
          /\ \A g \in FE : g # f => pc'[g] = pc[g] /\ current'[g] = current[g]
          /\ pc'[f] # "confirm" /\ sem = f
      BY <1>7, UnlockEffect
    <2>2. \A g \in FE : pc'[g] # "confirm"
      BY <2>1 DEF SInv, Listeners
    <2>3. \A a, b \in alive : Nothing(a, b)
      BY <2>1, AllQuiet
    <2>4. \A a, b \in alive : Nothing(a, b)'
      BY <2>1, <2>3 DEF Nothing
    <2> QED
      BY <2>1, <2>2, <2>4 DEF Links, Deliveries, Awaits
  <1>8. CASE SendAck(f)
    BY <1>8, SendAckEffect, LinksKept
  <1>9. CASE ProcessPacket(f)
    <2>1. \A r \in RM : ToSet(applied[r]) \subseteq ToSet(applied'[r])
      <3>1. applied \in [RM -> Seq(Packet)]
        BY DEF SInv, TypeOK
      <3> QED
        <4>1. packet[f] \in Packet /\ \A r \in RM : applied'[r] =
                 IF r = leader THEN Append(applied[r], packet[f]) ELSE applied[r]
          BY <1>9, ProcessPacketEffect
        <4>2. \A r \in RM :
                 ToSet(Append(applied[r], packet[f])) = ToSet(applied[r]) \cup {packet[f]}
          BY <3>1, <4>1, AppendItems
        <4> QED
          BY <4>1, <4>2
    <2> QED
      BY <1>9, <2>1, ProcessPacketEffect, LinksKept
  <1> QED
    BY <1>2, <1>3, <1>4, <1>5, <1>6, <1>7, <1>8, <1>9 DEF ListenerStep

(* What a thread of a live peer reads: the packet or a confirmation, and     *)
(* nothing else is under way between the two.                                *)
LEMMA WhatIsRead ==
    ASSUME SInv, NEW r \in alive, NEW p \in alive, r # p, ~Nothing(p, r)
    PROVE  \E f \in FE :
              /\ pc[f] = "confirm" /\ {p, r} = {leader, current[f]} /\ Nothing(r, p)
              /\ \/ /\ p = leader /\ r = current[f] /\ Only(packet[f], p, r)
                 \/ Only(Confirmation, p, r) /\ Has(current[f], packet[f])
  <1>1. PICK f \in FE : (Awaits(f, p) /\ r = leader) \/ (Awaits(f, r) /\ p = leader)
    BY DEF SInv, Links, Quiescent
  <1>2. pc[f] = "confirm" /\ {p, r} = {leader, current[f]}
    BY <1>1 DEF Awaits
  <1>3. CASE Awaits(f, p) /\ r = leader
    <2>1. Delivery(f, p) /\ current[f] = p
      BY <1>3 DEF SInv, Deliveries, Awaits
    <2>2. Has(p, packet[f]) /\ Only(Confirmation, p, r) /\ Nothing(r, p)
      BY <1>3, <2>1 DEF Delivery
    <2> QED
      BY <1>2, <2>1, <2>2
  <1>4. CASE Awaits(f, r) /\ p = leader
    <2>1. Delivery(f, r) /\ current[f] = r
      BY <1>4 DEF SInv, Deliveries, Awaits
    <2>2. /\ Nothing(r, p)
          /\ Only(packet[f], p, r) \/ (Has(r, packet[f]) /\ Only(Confirmation, p, r))
      BY <1>4, <2>1 DEF Delivery
    <2> QED
      BY <1>2, <1>4, <2>1, <2>2
  <1> QED
    BY <1>1, <1>3, <1>4

(* An RM's thread turns the packet into its confirmation, or passes one on.  *)
LEMMA LinksHandler ==
    ASSUME SInv, NEW r \in RM, NEW p \in RM, HandlerStep(r, p)
    PROVE  Links' /\ Deliveries'
  <1>1. alive \subseteq RM /\ applied \in [RM -> Seq(Packet)]
    BY DEF SInv, TypeOK
  <1>2. CASE HandlerTop(r, p) \/ HandlerEof(r, p)
    BY <1>2, HandlerIdleEffect, LinksKept DEF threads
  <1>3. CASE HandlerRead(r, p)
    <2>0. PICK m : m = Head(wire[p][r])
      OBVIOUS
    <2>1. /\ r \in alive /\ r # p /\ hand[r][p] = NoPacket /\ wire[p][r] # <<>>
          /\ m # NoPacket
          /\ \A a, b \in RM :
                /\ wire'[a][b] = IF a = p /\ b = r THEN Tail(wire[p][r]) ELSE wire[a][b]
                /\ hand'[a][b] = IF a = r /\ b = p THEN m ELSE hand[a][b]
          /\ UNCHANGED <<alive, leader, applied, pc, current, packet>>
      BY <1>3, <2>0, HandlerReadEffect, NotPackets DEF threads
    <2>2. /\ \A g \in FE : \A q : Awaits(g, q)' <=> Awaits(g, q)
          /\ \A a, b : Quiescent(a, b)' <=> Quiescent(a, b)
      BY <2>1 DEF Awaits, Quiescent
    <2>3. \A a, b \in alive : a # p \/ b # r =>
              /\ Nothing(a, b)' <=> Nothing(a, b)
              /\ \A x : Only(x, a, b)' <=> Only(x, a, b)
      BY <1>1, <2>1 DEF Nothing, Only
    <2>4. p \in alive => \A x : Only(x, p, r) => Only(x, p, r)'
      <3> SUFFICES ASSUME p \in alive, NEW x, Only(x, p, r) PROVE Only(x, p, r)'
        OBVIOUS
      <3>1. wire[p][r] = <<x>>
        BY <2>1 DEF Only
      <3>2. m = x /\ Tail(wire[p][r]) = <<>>
        BY <2>0, <3>1, OneItem
      <3> QED
        BY <2>1, <3>2 DEF Only
    <2>5. ~Nothing(p, r)
      BY <2>1 DEF Nothing
    <2>6. Links'
      BY <2>1, <2>2, <2>3, <2>5 DEF SInv, Links
    <2>7. ASSUME NEW f \in FE, NEW q \in alive, Awaits(f, q) PROVE Delivery(f, q)'
      <3>1. Delivery(f, q) /\ q # leader /\ leader \in alive
        BY <2>7 DEF SInv, Deliveries, Awaits, Listeners, TypeOK
      <3>2. \A x : Has(x, packet[f])' <=> Has(x, packet[f])
        BY <2>1 DEF Has
      <3>3. CASE p = leader /\ r = q
        BY <2>1, <2>3, <2>4, <2>5, <3>1, <3>2, <3>3 DEF Delivery
      <3>4. CASE p = q /\ r = leader
        BY <2>1, <2>3, <2>4, <2>5, <3>1, <3>2, <3>4 DEF Delivery
      <3>5. CASE ~(p = leader /\ r = q) /\ ~(p = q /\ r = leader)
        BY <2>1, <2>3, <3>1, <3>2, <3>5 DEF Delivery
      <3> QED
        BY <3>3, <3>4, <3>5
    <2>8. Deliveries'
      BY <2>1, <2>2, <2>7 DEF Deliveries
    <2> QED
      BY <2>6, <2>8
  <1>4. CASE HandlerApply(r, p)
    <2>0. PICK m : m = hand[r][p]
      OBVIOUS
    <2>1. /\ r \in alive /\ r # p /\ m \in Packet \cup {Confirmation} /\ m # NoPacket
          /\ \A a, b \in RM :
                 /\ wire'[a][b] = IF a = r /\ b = p /\ p \in alive
                                  THEN Append(wire[r][p], Confirmation) ELSE wire[a][b]
                 /\ hand'[a][b] = IF a = r /\ b = p THEN NoPacket ELSE hand[a][b]
          /\ \A a \in RM : applied'[a] =
                 IF a = r /\ m # Confirmation THEN Append(applied[r], m) ELSE applied[a]
          /\ UNCHANGED <<alive, leader, pc, current, packet>>
      BY <1>4, <2>0, HandlerApplyEffect, NotPackets DEF threads
    <2>2. /\ \A g \in FE : \A q : Awaits(g, q)' <=> Awaits(g, q)
          /\ \A a, b : Quiescent(a, b)' <=> Quiescent(a, b)
      BY <2>1 DEF Awaits, Quiescent
    <2>3. \A a, b \in alive : {a, b} # {r, p} =>
              /\ Nothing(a, b)' <=> Nothing(a, b)
              /\ \A x : Only(x, a, b)' <=> Only(x, a, b)
      BY <1>1, <2>1 DEF Nothing, Only
    <2>4. \A a \in RM, x \in Packet : Has(a, x) => Has(a, x)'
      <3>1. m # Confirmation => ToSet(Append(applied[r], m)) = ToSet(applied[r]) \cup {m}
        BY <1>1, <2>1, AppendItems
      <3> QED
        BY <2>1, <3>1 DEF Has
    <2>5. m \in Packet => Has(r, m)'
      <3>1. m \in Packet => ToSet(Append(applied[r], m)) = ToSet(applied[r]) \cup {m}
        BY <1>1, AppendItems
      <3> QED
        BY <2>1, <3>1, NotPackets DEF Has
    <2>6. ASSUME p \in alive
          PROVE  /\ Nothing(p, r)' /\ Only(Confirmation, r, p)'
                 /\ \E f \in FE : /\ pc[f] = "confirm" /\ {p, r} = {leader, current[f]}
                                  /\ Has(current[f], packet[f])'
      <3>1. ~Nothing(p, r)
        BY <2>1, <2>0 DEF Nothing
      <3>2. PICK f \in FE :
              /\ pc[f] = "confirm" /\ {p, r} = {leader, current[f]} /\ Nothing(r, p)
              /\ \/ /\ p = leader /\ r = current[f] /\ Only(packet[f], p, r)
                 \/ Only(Confirmation, p, r) /\ Has(current[f], packet[f])
        BY <2>1, <2>6, <3>1, WhatIsRead
      <3>3. wire[p][r] = <<>>
        BY <2>1, <2>0, <3>2 DEF Only
      <3>4. Nothing(p, r)'
        BY <2>1, <3>3 DEF Nothing
      <3>5. wire'[r][p] = <<Confirmation>> /\ hand'[p][r] = NoPacket
        BY <2>1, <2>6, <3>2, AppendOne DEF Nothing
      <3>6. packet[f] \in Packet /\ current[f] \in RM
        BY <3>2 DEF SInv, Listeners
      <3>7. Has(current[f], packet[f])'
        <4>1. CASE p = leader /\ r = current[f] /\ Only(packet[f], p, r)
          <5>1. m = packet[f]
            BY <2>1, <2>0, <4>1 DEF Only
          <5> QED
            BY <2>1, <2>5, <3>6, <4>1, <5>1 DEF Has
        <4>2. CASE Has(current[f], packet[f])
          BY <2>1, <2>4, <3>6, <4>2 DEF Has
        <4> QED
          BY <3>2, <4>1, <4>2
      <3> QED
        BY <3>2, <3>4, <3>5, <3>7 DEF Only
    <2>7. Links'
      <3> SUFFICES ASSUME NEW a \in alive, NEW b \in alive, Quiescent(a, b)
                   PROVE  Nothing(a, b)'
        BY <2>1, <2>2 DEF Links
      <3>1. CASE {a, b} # {r, p}
        BY <2>3, <3>1 DEF SInv, Links
      <3>2. CASE {a, b} = {r, p}
        <4>1. p \in alive
          BY <2>1, <3>2
        <4> QED
          BY <2>6, <3>2, <4>1 DEF Quiescent, Awaits
      <3> QED
        BY <3>1, <3>2
    <2>8. ASSUME NEW f \in FE, NEW q \in alive, Awaits(f, q) PROVE Delivery(f, q)'
      <3>1. /\ Delivery(f, q) /\ q # leader /\ leader \in alive /\ packet[f] \in Packet /\ q \in RM
            /\ pc[f] = "confirm" /\ current[f] = q
        BY <2>8 DEF SInv, Deliveries, Awaits, Listeners, TypeOK
      <3>2. Has(q, packet[f]) => Has(q, packet[f])'
        BY <2>1, <2>4, <3>1
      <3>3. CASE {leader, q} # {r, p}
        BY <2>1, <2>3, <3>1, <3>2, <3>3 DEF Delivery
      <3>4. CASE {leader, q} = {r, p}
        <4>1. p \in alive
          BY <2>1, <3>1, <3>4
        <4>2. PICK g \in FE : /\ pc[g] = "confirm" /\ {p, r} = {leader, current[g]}
                              /\ Has(current[g], packet[g])'
          BY <2>6, <4>1
        <4>3. g = f
          BY <3>1, <4>2 DEF SInv, Listeners
        <4>4. Has(q, packet[f])'
          BY <2>1, <3>1, <4>2, <4>3 DEF Has
        <4>5. (r = leader /\ p = q) \/ (r = q /\ p = leader)
          BY <2>1, <3>4
        <4>6. Nothing(p, r)' /\ Only(Confirmation, r, p)'
          BY <2>6, <4>1
        <4> QED
          BY <2>1, <4>4, <4>5, <4>6 DEF Delivery
      <3> QED
        BY <3>3, <3>4
    <2>9. Deliveries'
      BY <2>1, <2>2, <2>8 DEF Deliveries
    <2> QED
      BY <2>7, <2>9
  <1> QED
    BY <1>2, <1>3, <1>4 DEF HandlerStep

(* What is under way, in every step.                                         *)
LEMMA LinksStep == SInv /\ [Next]_vars => Links' /\ Deliveries'
  <1> SUFFICES ASSUME SInv, [Next]_vars PROVE Links' /\ Deliveries'
    OBVIOUS
  <1>1. alive \subseteq RM
    BY DEF SInv, TypeOK
  <1>2. ASSUME NEW r \in RM, Crash(r) PROVE Links' /\ Deliveries'
    <2>1. /\ alive' = alive \ {r}
          /\ \A a, b \in alive' : wire'[a][b] = wire[a][b] /\ hand'[a][b] = hand[a][b]
          /\ UNCHANGED applied
      BY <1>1, <1>2, CrashEffect
    <2>2. \A a, b \in alive' : /\ Nothing(a, b)' <=> Nothing(a, b)
                               /\ \A x : Only(x, a, b)' <=> Only(x, a, b)
      BY <2>1 DEF Nothing, Only
    <2>3. CASE r = leader
      <3>1. \A f \in FE : pc'[f] = "reading"
        BY <1>2, <2>3, CrashEffect DEF IdleThreads
      <3>2. ASSUME NEW a \in alive', NEW b \in alive' PROVE Nothing(a, b)'
        <4>1. Quiescent(a, b)
          BY <2>1, <2>3, <3>2 DEF Quiescent
        <4> QED
          BY <2>1, <2>2, <4>1 DEF SInv, Links
      <3> QED
        BY <3>1, <3>2 DEF Links, Deliveries, Awaits
    <2>4. CASE r # leader
      <3>1. UNCHANGED <<leader, pc, current, packet>>
        BY <1>2, <2>4, CrashEffect DEF threads
      <3>2. /\ \A g \in FE : \A q : Awaits(g, q)' <=> Awaits(g, q)
            /\ \A a, b : Quiescent(a, b)' <=> Quiescent(a, b)
        BY <3>1 DEF Awaits, Quiescent
      <3>3. Links'
        BY <2>1, <2>2, <3>2 DEF SInv, Links
      <3>4. ASSUME NEW f \in FE, NEW q \in alive', Awaits(f, q) PROVE Delivery(f, q)'
        <4>1. Delivery(f, q) /\ leader \in alive'
          BY <2>1, <2>4, <3>4 DEF SInv, Deliveries, Awaits, Listeners, TypeOK
        <4>2. Has(q, packet[f])' <=> Has(q, packet[f])
          BY <2>1, <3>1 DEF Has
        <4> QED
          BY <2>2, <3>1, <3>4, <4>1, <4>2 DEF Delivery
      <3> QED
        BY <3>2, <3>3, <3>4 DEF Deliveries
    <2> QED
      BY <2>3, <2>4
  <1>3. ASSUME NEW r \in RM, Promote(r) PROVE Links' /\ Deliveries'
    <2>1. UNCHANGED <<alive, wire, hand, pc>> /\ leader = NoRM
      BY <1>3 DEF Promote, threads
    <2>2. \A f \in FE : pc[f] = "reading"
      BY <2>1 DEF SInv, Listeners
    <2>3. \A a, b \in alive : Nothing(a, b)
      BY <2>2 DEF SInv, Links, Quiescent, Awaits
    <2> QED
      BY <2>1, <2>2, <2>3 DEF Links, Deliveries, Awaits, Nothing
  <1>4. CASE UNCHANGED vars
    BY <1>4, LinksKept DEF vars
  <1> QED
    BY <1>2, <1>3, <1>4, LinksListener, LinksHandler DEF Next

-----------------------------------------------------------------------------
(* What the loop has passed has the packet.                                 *)
LEMMA ReplicatedStep == SInv /\ [Next]_vars => Replicated'
  <1> SUFFICES ASSUME SInv, [Next]_vars PROVE Replicated'
    OBVIOUS
  <1>1. /\ alive \subseteq RM /\ applied \in [RM -> Seq(Packet)]
        /\ Replicated /\ Listeners
    BY DEF SInv, TypeOK
  <1>2. CASE /\ UNCHANGED <<alive, leader, threads>>
             /\ \A r \in RM : ToSet(applied[r]) \subseteq ToSet(applied'[r])
    BY <1>1, <1>2 DEF Replicated, Has, Awaits, threads
  <1>3. ASSUME NEW f \in FE, ReadPacket(f) PROVE Replicated'
    <2>1. /\ \A g \in FE : pc'[g] = IF g = f THEN "lock" ELSE pc[g]
          /\ \A g \in FE : g # f => packet'[g] = packet[g]
          /\ UNCHANGED <<alive, leader, applied, current, todo>>
      BY <1>3, ReadPacketEffect
    <2> QED
      BY <1>1, <2>1 DEF Replicated, Has, Awaits
  <1>4. ASSUME NEW f \in FE, Lock(f) PROVE Replicated'
    <2>1. /\ leader \in RM
          /\ \A g \in FE : pc'[g] = IF g = f THEN "replicate" ELSE pc[g]
          /\ \A g \in FE : todo'[g] = IF g = f THEN socks[leader] ELSE todo[g]
          /\ UNCHANGED <<alive, leader, applied, packet, current>>
      BY <1>4, LockEffect
    <2>2. alive \ {leader} \subseteq socks[leader]
      BY <2>1 DEF SInv, Connected
    <2> QED
      BY <1>1, <2>1, <2>2 DEF Replicated, Has, Awaits
  <1>5. ASSUME NEW f \in FE, SendToRm(f) PROVE Replicated'
    <2>1. PICK p \in RM \ {leader} : WritesTo(f, p)
      BY <1>5, SendToRmEffect
    <2>2. /\ leader \in RM /\ pc[f] = "replicate"
          /\ \A g \in FE : pc'[g] = IF g = f THEN "confirm" ELSE pc[g]
          /\ UNCHANGED <<alive, leader, applied, packet, socks>>
      BY <1>5, SendToRmEffect
    <2>3. alive \ {leader} \subseteq socks[leader]
      BY <2>2 DEF SInv, Connected
    <2>4. \A r \in alive \ {leader} : r \in todo[f] => r \in todo'[f] \/ r = p
      BY <2>1, <2>3 DEF WritesTo, Remaining
    <2>5. current'[f] = p /\ \A g \in FE : g # f => todo'[g] = todo[g] /\ current'[g] = current[g]
      BY <2>1 DEF WritesTo
    <2> QED
      BY <1>1, <2>2, <2>4, <2>5 DEF Replicated, Has, Awaits
  <1>6. ASSUME NEW f \in FE, ReadConfirmation(f) PROVE Replicated'
    <2> DEFINE p == current[f]
    <2>1. /\ leader \in alive /\ pc[f] = "confirm" /\ p \in RM \ {leader}
          /\ wire[p][leader] # <<>>
          /\ \A g \in FE : pc'[g] = IF g = f THEN "replicate" ELSE pc[g]
          /\ UNCHANGED <<alive, leader, applied, packet, current, todo>>
      BY <1>6, ReadConfirmationEffect
    <2>2. p \in alive => Has(p, packet[f])
      BY <2>1 DEF SInv, Deliveries, Delivery, Nothing, Awaits
    <2> QED
      BY <1>1, <2>1, <2>2 DEF Replicated, Has, Awaits
  <1>7. ASSUME NEW f \in FE, ReadConfirmationFails(f) PROVE Replicated'
    <2> DEFINE p == current[f]
    <2>1. /\ leader \in RM /\ pc[f] = "confirm" /\ p \in RM \ alive
          /\ \A g \in FE : g # f => todo'[g] = todo[g]
          /\ todo'[f] = todo[f] \/ Remaining(f) \subseteq {p}
          /\ \A g \in FE : pc'[g] = IF g = f THEN "replicate" ELSE pc[g]
          /\ UNCHANGED <<alive, leader, applied, packet, current>>
      BY <1>7, ReadConfirmationFailsEffect
    <2>2. alive \ {leader} \subseteq socks[leader]
      BY <2>1 DEF SInv, Connected
    <2>3. \A r \in alive \ {leader} : r \in todo[f] => r \in todo'[f]
      BY <2>1, <2>2 DEF Remaining
    <2> QED
      BY <1>1, <2>1, <2>3 DEF Replicated, Has, Awaits
  <1>8. ASSUME NEW f \in FE, Unlock(f) PROVE Replicated'
    <2>1. /\ leader \in RM /\ pc[f] = "replicate" /\ Remaining(f) = {}
          /\ \A g \in FE : g # f => pc'[g] = pc[g] /\ todo'[g] = todo[g] /\ current'[g] = current[g]
          /\ pc'[f] \in {"ack", "process"}
          /\ UNCHANGED <<alive, leader, applied, packet>>
      BY <1>8, UnlockEffect
    <2>2. alive \ {leader} \subseteq socks[leader]
      BY <2>1 DEF SInv, Connected
    <2>3. \A r \in alive \ {leader} : r \notin todo[f]
      BY <2>1, <2>2 DEF Remaining
    <2> QED
      BY <1>1, <2>1, <2>3 DEF Replicated, Has, Awaits
  <1>9. ASSUME NEW f \in FE, SendAck(f) PROVE Replicated'
    <2>1. /\ pc[f] = "ack" /\ \A g \in FE : pc'[g] = IF g = f THEN "process" ELSE pc[g]
          /\ UNCHANGED <<alive, leader, applied, packet, current, todo>>
      BY <1>9, SendAckEffect
    <2> QED
      BY <1>1, <2>1 DEF Replicated, Has, Awaits
  <1>10. ASSUME NEW f \in FE, ProcessPacket(f) PROVE Replicated'
    <2>1. /\ \A g \in FE : pc'[g] = IF g = f THEN "reading" ELSE pc[g]
          /\ \A g \in FE : g # f => packet'[g] = packet[g]
          /\ \A r \in RM : r # leader => applied'[r] = applied[r]
          /\ UNCHANGED <<alive, leader, current, todo>>
      BY <1>10, ProcessPacketEffect
    <2> QED
      BY <1>1, <2>1 DEF Replicated, Has, Awaits
  <1>11. ASSUME NEW r \in RM, NEW p \in RM, HandlerStep(r, p) PROVE Replicated'
    <2>1. CASE HandlerTop(r, p) \/ HandlerEof(r, p)
      BY <1>2, <2>1, HandlerIdleEffect
    <2>2. CASE HandlerRead(r, p)
      BY <1>2, <2>2, HandlerReadEffect
    <2>3. CASE HandlerApply(r, p)
      <3>1. PICK m : m = hand[r][p]
        OBVIOUS
      <3>2. /\ m \in Packet \cup {Confirmation} /\ UNCHANGED <<alive, leader, threads>>
            /\ \A a \in RM : applied'[a] =
                 IF a = r /\ m # Confirmation THEN Append(applied[r], m) ELSE applied[a]
        BY <2>3, <3>1, HandlerApplyEffect
      <3>3. m # Confirmation => ToSet(Append(applied[r], m)) = ToSet(applied[r]) \cup {m}
        BY <1>1, <3>2, AppendItems
      <3>4. \A a \in RM : ToSet(applied[a]) \subseteq ToSet(applied'[a])
        BY <3>2, <3>3
      <3> QED
        BY <1>2, <3>2, <3>4
    <2> QED
      BY <1>11, <2>1, <2>2, <2>3 DEF HandlerStep
  <1>12. ASSUME NEW r \in RM, Crash(r) PROVE Replicated'
    <2>1. alive' \subseteq alive /\ UNCHANGED applied
      BY <1>12, CrashEffect
    <2>2. CASE r = leader
      <3>1. \A f \in FE : pc'[f] = "reading"
        BY <1>12, <2>2, CrashEffect DEF IdleThreads
      <3> QED
        BY <3>1 DEF Replicated
    <2>3. CASE r # leader
      <3>1. UNCHANGED <<leader, threads>>
        BY <1>12, <2>3, CrashEffect
      <3> QED
        BY <1>1, <2>1, <3>1 DEF Replicated, Has, Awaits, threads
    <2> QED
      BY <2>2, <2>3
  <1>13. ASSUME NEW r \in RM, Promote(r) PROVE Replicated'
    <2>1. UNCHANGED pc /\ \A f \in FE : pc[f] = "reading"
      BY <1>1, <1>13 DEF Promote, Listeners, threads
    <2> QED
      BY <2>1 DEF Replicated
  <1>14. CASE UNCHANGED vars
    BY <1>2, <1>14 DEF vars, threads
  <1> QED
    BY <1>3, <1>4, <1>5, <1>6, <1>7, <1>8, <1>9, <1>10, <1>11, <1>12, <1>13, <1>14
    DEF Next, ListenerStep

(* What is answered is on every live server, or in the primary's hand.       *)
LEMMA AnsweredStep == SInv /\ [Next]_vars => AnsweredSurvives'
  <1> SUFFICES ASSUME SInv, [Next]_vars PROVE AnsweredSurvives'
    OBVIOUS
  <1>1. /\ alive \subseteq RM /\ applied \in [RM -> Seq(Packet)] /\ answered \subseteq Packet
        /\ leader \in alive \cup {NoRM} /\ AnsweredSurvives /\ Replicated /\ Listeners
    BY DEF SInv, TypeOK
  <1>2. CASE /\ UNCHANGED <<alive, leader, answered, packet>>
             /\ \A r \in RM : ToSet(applied[r]) \subseteq ToSet(applied'[r])
    BY <1>1, <1>2 DEF AnsweredSurvives, Has
  <1>3. ASSUME NEW f \in FE, ReadPacket(f) PROVE AnsweredSurvives'
    <2>1. /\ pc[f] = "reading"
          /\ \A g \in FE : g # f => packet'[g] = packet[g]
          /\ UNCHANGED <<alive, leader, applied, answered>>
      BY <1>3, ReadPacketEffect
    <2>2. packet[f] = NoPacket
      BY <1>1, <2>1 DEF Listeners
    <2> QED
      BY <1>1, <2>1, <2>2, NotPackets DEF AnsweredSurvives, Has
  <1>4. ASSUME NEW f \in FE, SendAck(f) PROVE AnsweredSurvives'
    <2>1. /\ pc[f] = "ack" /\ answered' = answered \cup {packet[f]}
          /\ UNCHANGED <<alive, leader, applied, packet>>
      BY <1>4, SendAckEffect
    <2> QED
      BY <1>1, <2>1 DEF AnsweredSurvives, Replicated, Has
  <1>5. ASSUME NEW f \in FE, ProcessPacket(f) PROVE AnsweredSurvives'
    <2>1. /\ leader \in RM /\ pc[f] = "process" /\ packet[f] \in Packet
          /\ \A r \in RM : applied'[r] =
                 IF r = leader THEN Append(applied[r], packet[f]) ELSE applied[r]
          /\ answered' \subseteq answered \cup {packet[f]}
          /\ \A g \in FE : g # f => packet'[g] = packet[g]
          /\ UNCHANGED <<alive, leader>>
      BY <1>5, ProcessPacketEffect
    <2>2. ToSet(applied'[leader]) = ToSet(applied[leader]) \cup {packet[f]}
      BY <1>1, <2>1, AppendItems
    <2>3. ASSUME NEW m \in answered', NEW r \in alive, r # leader PROVE Has(r, m)'
      BY <1>1, <2>1, <2>3 DEF AnsweredSurvives, Replicated, Has
    <2>4. ASSUME NEW m \in answered', leader \in alive
          PROVE  Has(leader, m)' \/ \E g \in FE : packet'[g] = m
      BY <1>1, <2>1, <2>2, <2>4 DEF AnsweredSurvives, Has
    <2> QED
      BY <2>1, <2>3, <2>4 DEF AnsweredSurvives
  <1>6. ASSUME NEW r \in RM, NEW p \in RM, HandlerStep(r, p) PROVE AnsweredSurvives'
    <2>1. CASE HandlerTop(r, p) \/ HandlerEof(r, p)
      BY <1>2, <2>1, HandlerIdleEffect DEF threads
    <2>2. CASE HandlerRead(r, p)
      BY <1>2, <2>2, HandlerReadEffect DEF threads
    <2>3. CASE HandlerApply(r, p)
      <3>1. PICK m : m = hand[r][p]
        OBVIOUS
      <3>2. /\ m \in Packet \cup {Confirmation} /\ UNCHANGED <<alive, leader, answered, packet>>
            /\ \A a \in RM : applied'[a] =
                 IF a = r /\ m # Confirmation THEN Append(applied[r], m) ELSE applied[a]
        BY <2>3, <3>1, HandlerApplyEffect DEF threads
      <3>3. m # Confirmation => ToSet(Append(applied[r], m)) = ToSet(applied[r]) \cup {m}
        BY <1>1, <3>2, AppendItems
      <3>4. \A a \in RM : ToSet(applied[a]) \subseteq ToSet(applied'[a])
        BY <3>2, <3>3
      <3> QED
        BY <1>2, <3>2, <3>4
    <2> QED
      BY <1>6, <2>1, <2>2, <2>3 DEF HandlerStep
  <1>7. ASSUME NEW r \in RM, Crash(r) PROVE AnsweredSurvives'
    <2>1. alive' = alive \ {r} /\ UNCHANGED <<applied, answered>>
      BY <1>7, CrashEffect
    <2>2. r # leader => UNCHANGED <<leader, packet>>
      BY <1>7, CrashEffect DEF threads
    <2> QED
      BY <1>1, <2>1, <2>2 DEF AnsweredSurvives, Has
  <1>8. ASSUME NEW r \in RM, Promote(r) PROVE AnsweredSurvives'
    <2>1. leader = NoRM /\ UNCHANGED <<alive, applied, answered>>
      BY <1>8 DEF Promote
    <2> QED
      BY <1>1, <2>1, ConstantsAssumption DEF AnsweredSurvives, Has
  <1>9. CASE UNCHANGED vars
    BY <1>2, <1>9 DEF vars
  <1>10. ASSUME NEW f \in FE, \/ Lock(f) \/ SendToRm(f) \/ ReadConfirmation(f)
                              \/ ReadConfirmationFails(f) \/ Unlock(f)
         PROVE  AnsweredSurvives'
    BY <1>2, <1>10 DEF Lock, SendToRm, ReadConfirmation, ReadConfirmationFails, Unlock
  <1> QED
    BY <1>3, <1>4, <1>5, <1>6, <1>7, <1>8, <1>9, <1>10 DEF Next, ListenerStep

(* The inductive invariant.                                                  *)
LEMMA SInvariance == Spec => []SInv
  <1>1. SInv /\ [Next]_vars => SInv'
    BY TypesStep, ConnectedStep, ListenersStep, HandlersStep, LinksStep, ReplicatedStep,
       AnsweredStep DEF SInv
  <1> QED
    BY Started, <1>1, PTL DEF Spec

(* The variables keep their types, a loop over the sockets always finds its  *)
(* next one, and the wires carry packets and confirmations only.             *)
THEOREM TypeCorrect == Spec => []TypeOK
  <1>1. SInv => TypeOK
    BY DEF SInv
  <1> QED
    BY <1>1, SInvariance, PTL

(* What a front end has been answered is in every server that is alive, or   *)
(* in the hands of the primary, however many servers crash and are promoted. *)
THEOREM AnsweredPacketsSurvive == Spec => []AnsweredSurvives
  <1>1. SInv => AnsweredSurvives
    BY DEF SInv
  <1> QED
    BY <1>1, SInvariance, PTL

-----------------------------------------------------------------------------
(* The packets of a front end stay in order.                                *)

(* The packets of f that r has applied are older than the one in hand.       *)
Older(r, f) ==
    \A i \in 1 .. Len(applied[r]) : applied[r][i].fe = f => applied[r][i].n < packet[f].n

(* r has still to apply the packet in hand.                                  *)
NotApplied(r, f) ==
    \/ r = leader \/ pc[f] = "lock" \/ r \in todo[f]
    \/ /\ Awaits(f, r)
       /\ wire[leader][r] = <<packet[f]>> \/ hand[r][leader] = packet[f]

Ordered(r) ==
    \A i, j \in 1 .. Len(applied[r]) :
        i < j /\ applied[r][i].fe = applied[r][j].fe => applied[r][i].n < applied[r][j].n

NoneNewer(r) == \A i \in 1 .. Len(applied[r]) : applied[r][i].n <= sent[applied[r][i].fe]

Current(f) == pc[f] # "reading" =>
    packet[f].n = sent[f] /\ \A r \in RM : NotApplied(r, f) => Older(r, f)

FInv == alive = RM => (\A r \in RM : Ordered(r) /\ NoneNewer(r)) /\ (\A f \in FE : Current(f))

(* Applying a packet that is newer than its predecessors.                    *)
LEMMA AppliedInOrder ==
    ASSUME NEW r \in RM, NEW m \in Packet, applied[r] \in Seq(Packet), sent \in [FE -> Nat],
           applied'[r] = Append(applied[r], m), UNCHANGED sent,
           Ordered(r), NoneNewer(r), m.n = sent[m.fe],
           \A i \in 1 .. Len(applied[r]) : applied[r][i].fe = m.fe => applied[r][i].n < m.n
    PROVE  /\ Ordered(r)' /\ NoneNewer(r)'
           /\ \A f \in FE : f # m.fe /\ packet'[f] = packet[f] /\ Older(r, f) => Older(r, f)'
  <1> DEFINE s == applied[r]
  <1>1. /\ Len(s) \in Nat /\ Len(applied'[r]) = Len(s) + 1 /\ applied'[r][Len(s) + 1] = m
        /\ \A i \in 1 .. Len(s) : applied'[r][i] = s[i] /\ s[i] \in Packet
    OBVIOUS
  <1>2. \A x \in Packet : x.n \in Nat /\ x.fe \in FE
    BY DEF Packet
  <1>3. \A i \in 1 .. Len(s) + 1 : i \in 1 .. Len(s) \/ i = Len(s) + 1
    BY <1>1
  <1>4. Ordered(r)'
    <2> SUFFICES ASSUME NEW i \in 1 .. Len(s) + 1, NEW j \in 1 .. Len(s) + 1, i < j,
                        applied'[r][i].fe = applied'[r][j].fe
                 PROVE  applied'[r][i].n < applied'[r][j].n
      BY <1>1 DEF Ordered
    <2>1. i \in 1 .. Len(s)
      BY <1>1
    <2>2. CASE j \in 1 .. Len(s)
      BY <1>1, <2>1, <2>2 DEF Ordered
    <2>3. CASE j = Len(s) + 1
      BY <1>1, <2>1, <2>3
    <2> QED
      BY <1>3, <2>2, <2>3
  <1>5. NoneNewer(r)'
    <2> SUFFICES ASSUME NEW i \in 1 .. Len(s) + 1
                 PROVE  applied'[r][i].n <= sent[applied'[r][i].fe]
      BY <1>1 DEF NoneNewer
    <2>1. CASE i \in 1 .. Len(s)
      BY <1>1, <2>1 DEF NoneNewer
    <2>2. CASE i = Len(s) + 1
      BY <1>1, <1>2, <2>2
    <2> QED
      BY <1>3, <2>1, <2>2
  <1>6. ASSUME NEW f \in FE, f # m.fe, packet'[f] = packet[f], Older(r, f)
        PROVE  Older(r, f)'
    <2> SUFFICES ASSUME NEW i \in 1 .. Len(s) + 1, applied'[r][i].fe = f
                 PROVE  applied'[r][i].n < packet[f].n
      BY <1>1, <1>6 DEF Older
    <2>1. i \in 1 .. Len(s)
      BY <1>1, <1>3, <1>6
    <2> QED
      BY <1>1, <1>6, <2>1 DEF Older
  <1> QED
    BY <1>4, <1>5, <1>6

(* Steps that apply nothing, after which no more of the RMs have still to    *)
(* apply what is in hand.                                                    *)
LEMMA OrderKept ==
    ASSUME SInv, FInv, alive' = RM => alive = RM, UNCHANGED applied,
           \A f \in FE : sent'[f] \in Nat /\ sent[f] <= sent'[f],
           alive = RM =>
              \A f \in FE : pc'[f] # "reading" =>
                  \/ Current(f)'
                  \/ /\ pc[f] # "reading" /\ packet'[f] = packet[f] /\ sent'[f] = sent[f]
                     /\ \A r \in RM : NotApplied(r, f)' => NotApplied(r, f)
    PROVE  alive' = RM => FInv'
  <1> SUFFICES ASSUME alive' = RM PROVE FInv'
    OBVIOUS
  <1>1. /\ alive = RM /\ \A r \in RM : Ordered(r) /\ NoneNewer(r)
        /\ \A f \in FE : Current(f)
    BY DEF FInv
  <1>2. ASSUME NEW r \in RM PROVE Ordered(r)' /\ NoneNewer(r)'
    <2>1. applied[r] \in Seq(Packet) /\ sent \in [FE -> Nat]
      BY DEF SInv, TypeOK
    <2>2. \A i \in 1 .. Len(applied[r]) : applied[r][i] \in Packet
      BY <2>1
    <2>3. \A i \in 1 .. Len(applied[r]) : applied[r][i].n \in Nat /\ applied[r][i].fe \in FE
      BY <2>2 DEF Packet
    <2>4. \A f \in FE : sent[f] \in Nat /\ sent'[f] \in Nat /\ sent[f] <= sent'[f]
      BY <2>1
    <2>5. NoneNewer(r)'
      BY <1>1, <2>3, <2>4 DEF NoneNewer
    <2>6. Ordered(r)'
      BY <1>1 DEF Ordered
    <2> QED
      BY <2>5, <2>6
  <1>3. ASSUME NEW f \in FE PROVE Current(f)'
    BY <1>1 DEF Current, Older
  <1> QED
    BY <1>2, <1>3 DEF FInv

(* The order of each front end's packets is inductive with SInv.             *)
LEMMA FifoStep == SInv /\ FInv /\ [Next]_vars => FInv'
  <1> SUFFICES ASSUME SInv, FInv, [Next]_vars PROVE FInv'
    OBVIOUS
  <1>1. /\ alive \subseteq RM /\ applied \in [RM -> Seq(Packet)] /\ sent \in [FE -> Nat]
        /\ (leader \in alive => leader \in RM) /\ Listeners
    BY DEF SInv, TypeOK
  <1>2. alive' # RM => FInv'
    BY DEF FInv
  <1>3. CASE UNCHANGED <<alive, leader, applied, sent, wire, hand, threads>>
    <2>1. \A f \in FE : pc'[f] # "reading" =>
              /\ pc[f] # "reading" /\ packet'[f] = packet[f]
              /\ \A r \in RM : NotApplied(r, f)' => NotApplied(r, f)
      BY <1>3 DEF NotApplied, Awaits, threads
    <2> QED
      BY <1>1, <1>2, <1>3, <2>1, OrderKept
  <1>4. ASSUME NEW f \in FE, ReadPacket(f) PROVE FInv'
    <2>1. /\ pc[f] = "reading"
          /\ \A g \in FE : pc'[g] = IF g = f THEN "lock" ELSE pc[g]
          /\ \A g \in FE : g # f => packet'[g] = packet[g]
          /\ packet'[f] \in Packet /\ packet'[f].fe = f /\ packet'[f].n = sent[f] + 1
          /\ \A g \in FE : sent'[g] = IF g = f THEN sent[f] + 1 ELSE sent[g]
          /\ UNCHANGED <<alive, leader, wire, hand, applied, current, todo>>
      BY <1>4, ReadPacketEffect
    <2>2. alive = RM => Current(f)'
      <3>1. ASSUME alive = RM, NEW r \in RM PROVE Older(r, f)'
        <4>1. \A i \in 1 .. Len(applied[r]) : applied[r][i] \in Packet
          BY <1>1
        <4>2. \A i \in 1 .. Len(applied[r]) : applied[r][i].n \in Nat
          BY <4>1 DEF Packet
        <4>3. NoneNewer(r)
          BY <3>1 DEF FInv
        <4> QED
          BY <1>1, <2>1, <4>2, <4>3 DEF NoneNewer, Older
      <3> QED
        BY <2>1, <3>1 DEF Current
    <2>3. \A g \in FE : g # f =>
              /\ packet'[g] = packet[g] /\ sent'[g] = sent[g] /\ pc'[g] = pc[g]
              /\ \A r \in RM : NotApplied(r, g)' => NotApplied(r, g)
      BY <2>1 DEF NotApplied, Awaits
    <2>4. \A g \in FE : sent'[g] \in Nat /\ sent[g] <= sent'[g]
      BY <1>1, <2>1
    <2> QED
      BY <1>2, <2>1, <2>2, <2>3, <2>4, OrderKept
  <1>5. ASSUME NEW f \in FE, Lock(f) PROVE FInv'
    <2>1. /\ pc[f] = "lock"
          /\ \A g \in FE : pc'[g] = IF g = f THEN "replicate" ELSE pc[g]
          /\ \A g \in FE : todo'[g] = IF g = f THEN socks[leader] ELSE todo[g]
          /\ UNCHANGED <<alive, leader, wire, hand, applied, sent, packet, current>>
      BY <1>5, LockEffect
    <2>2. \A g \in FE, r \in RM : NotApplied(r, g)' => NotApplied(r, g)
      BY <2>1 DEF NotApplied, Awaits
    <2>3. \A g \in FE : pc'[g] # "reading" => pc[g] # "reading"
      BY <2>1
    <2> QED
      BY <1>1, <1>2, <2>1, <2>2, <2>3, OrderKept
  <1>6. ASSUME NEW f \in FE, SendToRm(f) PROVE FInv'
    <2>1. PICK p \in RM \ {leader} : WritesTo(f, p)
      BY <1>6, SendToRmEffect
    <2>2. /\ pc[f] = "replicate" /\ sem = f /\ leader \in RM
          /\ \A g \in FE : pc'[g] = IF g = f THEN "confirm" ELSE pc[g]
          /\ UNCHANGED <<alive, leader, hand, applied, sent, packet>>
      BY <1>6, SendToRmEffect
    <2>3. \A g \in FE : g # f => pc[g] # "confirm"
      BY <1>1, <2>2 DEF Listeners
    <2>4. ASSUME NEW g \in FE, NEW r \in RM, NotApplied(r, g)' PROVE NotApplied(r, g)
      BY <2>1, <2>2, <2>3, <2>4 DEF NotApplied, Awaits, WritesTo, Remaining
    <2>5. \A g \in FE : pc'[g] # "reading" => pc[g] # "reading"
      BY <2>2
    <2> QED
      BY <1>1, <1>2, <2>2, <2>4, <2>5, OrderKept
  <1>7. ASSUME NEW f \in FE, ReadConfirmation(f) PROVE FInv'
    <2>1. /\ \A g \in FE : pc'[g] = IF g = f THEN "replicate" ELSE pc[g]
          /\ pc[f] = "confirm"
          /\ UNCHANGED <<alive, leader, hand, applied, sent, packet, current, todo>>
      BY <1>7, ReadConfirmationEffect
    <2>2. \A g \in FE : pc'[g] # "confirm"
      BY <1>1, <2>1 DEF Listeners
    <2>3. ASSUME NEW g \in FE, NEW r \in RM, NotApplied(r, g)' PROVE NotApplied(r, g)
      BY <2>1, <2>2, <2>3 DEF NotApplied, Awaits
    <2>4. \A g \in FE : pc'[g] # "reading" => pc[g] # "reading"
      BY <2>1
    <2> QED
      BY <1>1, <1>2, <2>1, <2>3, <2>4, OrderKept
  <1>8. ASSUME NEW f \in FE, ReadConfirmationFails(f) PROVE FInv'
    BY <1>2, <1>8, ReadConfirmationFailsEffect
  <1>9. ASSUME NEW f \in FE, Unlock(f) PROVE FInv'
    <2>1. /\ pc[f] = "replicate"
          /\ \A g \in FE : g # f => /\ pc'[g] = pc[g] /\ todo'[g] = todo[g]
                                    /\ current'[g] = current[g]
          /\ pc'[f] \in {"ack", "process"}
          /\ UNCHANGED <<alive, leader, wire, hand, applied, sent, packet>>
      BY <1>9, UnlockEffect
    <2>2. todo'[f] = {}
      BY <1>9 DEF Unlock, SInv, TypeOK
    <2>3. \A g \in FE, r \in RM : NotApplied(r, g)' => NotApplied(r, g)
      BY <2>1, <2>2 DEF NotApplied, Awaits
    <2>4. \A g \in FE : pc'[g] # "reading" => pc[g] # "reading"
      BY <2>1
    <2> QED
      BY <1>1, <1>2, <2>1, <2>3, <2>4, OrderKept
  <1>10. ASSUME NEW f \in FE, SendAck(f) PROVE FInv'
    <2>1. /\ pc[f] = "ack" /\ \A g \in FE : pc'[g] = IF g = f THEN "process" ELSE pc[g]
          /\ UNCHANGED <<alive, leader, wire, hand, applied, sent, packet, current, todo>>
      BY <1>10, SendAckEffect
    <2>2. \A g \in FE, r \in RM : NotApplied(r, g)' => NotApplied(r, g)
      BY <2>1 DEF NotApplied, Awaits
    <2>3. \A g \in FE : pc'[g] # "reading" => pc[g] # "reading"
      BY <2>1
    <2> QED
      BY <1>1, <1>2, <2>1, <2>2, <2>3, OrderKept
  <1>11. ASSUME NEW f \in FE, ProcessPacket(f) PROVE FInv'
    <2> SUFFICES ASSUME alive' = RM PROVE FInv'
      BY <1>2
    <2>1. /\ leader \in RM /\ pc[f] = "process" /\ packet[f] \in Packet
          /\ \A r \in RM : applied'[r] =
                 IF r = leader THEN Append(applied[r], packet[f]) ELSE applied[r]
          /\ \A g \in FE : packet'[g] = IF g = f THEN NoPacket ELSE packet[g]
          /\ \A g \in FE : pc'[g] = IF g = f THEN "reading" ELSE pc[g]
          /\ UNCHANGED <<alive, leader, wire, hand, sent, current, todo>>
      BY <1>11, ProcessPacketEffect
    <2>2. /\ alive = RM /\ \A r \in RM : Ordered(r) /\ NoneNewer(r)
          /\ \A g \in FE : Current(g)
      BY <2>1 DEF FInv
    <2>3. packet[f].fe = f /\ packet[f].n = sent[f] /\ Older(leader, f)
      BY <1>1, <2>1, <2>2 DEF Listeners, Current, NotApplied
    <2>4. /\ Ordered(leader)' /\ NoneNewer(leader)'
          /\ \A g \in FE : g # f /\ Older(leader, g) => Older(leader, g)'
      <3>1. \A i \in 1 .. Len(applied[leader]) :
                applied[leader][i].fe = packet[f].fe => applied[leader][i].n < packet[f].n
        BY <2>3 DEF Older
      <3> HIDE DEF FInv
      <3>2. applied[leader] \in Seq(Packet) /\ applied'[leader] = Append(applied[leader], packet[f])
        BY <1>1, <2>1
      <3>3. PICK r \in RM, m \in Packet : r = leader /\ m = packet[f]
        BY <2>1
      <3>4. UNCHANGED sent /\ Ordered(r) /\ NoneNewer(r) /\ m.n = sent[m.fe]
        BY <2>1, <2>2, <2>3, <3>3
      <3>5. /\ Ordered(r)' /\ NoneNewer(r)'
            /\ \A g \in FE : g # m.fe /\ packet'[g] = packet[g] /\ Older(r, g) => Older(r, g)'
        BY <1>1, <3>1, <3>2, <3>3, <3>4, AppliedInOrder
      <3> QED
        BY <2>1, <2>3, <3>3, <3>5
    <2>5. \A r \in RM : r # leader =>
              /\ Ordered(r)' /\ NoneNewer(r)'
              /\ \A g \in FE : g # f /\ Older(r, g) => Older(r, g)'
      BY <2>1, <2>2 DEF Ordered, NoneNewer, Older
    <2>6. \A g \in FE, r \in RM : g # f /\ NotApplied(r, g)' => NotApplied(r, g)
      BY <2>1 DEF NotApplied, Awaits
    <2>7. ASSUME NEW g \in FE PROVE Current(g)'
      BY <2>1, <2>2, <2>4, <2>5, <2>6 DEF Current
    <2> QED
      BY <2>1, <2>4, <2>5, <2>7 DEF FInv
  <1>12. ASSUME NEW r \in RM, NEW p \in RM, HandlerTop(r, p) \/ HandlerEof(r, p) PROVE FInv'
    BY <1>3, <1>12, HandlerIdleEffect
  <1>13. ASSUME NEW r \in RM, NEW p \in RM, HandlerRead(r, p) PROVE FInv'
    <2>0. PICK m : m = Head(wire[p][r])
      OBVIOUS
    <2>1. /\ r \in alive /\ r # p /\ hand[r][p] = NoPacket /\ wire[p][r] # <<>>
          /\ \A a, b \in RM :
                /\ wire'[a][b] = IF a = p /\ b = r THEN Tail(wire[p][r]) ELSE wire[a][b]
                /\ hand'[a][b] = IF a = r /\ b = p THEN m ELSE hand[a][b]
          /\ UNCHANGED <<alive, leader, applied, sent, pc, current, packet, todo>>
      BY <1>13, <2>0, HandlerReadEffect DEF threads
    <2>2. ASSUME alive = RM
          PROVE  \E x : wire[p][r] = <<x>> /\ m = x /\ Tail(wire[p][r]) = <<>>
      <3>1. ~Nothing(p, r)
        BY <2>1 DEF Nothing
      <3>2. \E x : Only(x, p, r)
        BY <2>1, <2>2, <3>1, WhatIsRead
      <3>3. PICK x : wire[p][r] = <<x>>
        BY <2>1, <3>2 DEF Only
      <3> QED
        BY <2>0, <3>3, OneItem
    <2>3. ASSUME alive = RM, NEW g \in FE, NEW a \in RM, NotApplied(a, g)' PROVE NotApplied(a, g)
      <3>1. PICK x : wire[p][r] = <<x>> /\ m = x /\ Tail(wire[p][r]) = <<>>
        BY <2>2, <2>3
      <3>2. CASE Awaits(g, a) /\ ~(a = leader \/ pc[g] = "lock" \/ a \in todo[g])
        <4>1. leader \in RM /\ current[g] = a /\ pc[g] = "confirm"
          BY <1>1, <3>2, <2>3 DEF SInv, TypeOK, Listeners, Awaits
        <4>2. wire'[leader][a] = <<packet[g]>> \/ hand'[a][leader] = packet[g]
          BY <2>1, <2>3, <3>2 DEF NotApplied, Awaits
        <4>3. CASE p = leader /\ r = a
          <5>1. wire'[leader][a] = <<>> /\ hand'[a][leader] = x
            BY <2>1, <3>1, <4>1, <4>3
          <5>2. x = packet[g]
            BY <4>2, <5>1, OneItem
          <5> QED
            BY <3>1, <3>2, <4>3, <5>2 DEF NotApplied
        <4>4. CASE ~(p = leader /\ r = a)
          BY <2>1, <3>2, <4>1, <4>2, <4>4 DEF NotApplied
        <4> QED
          BY <4>3, <4>4
      <3> QED
        BY <2>1, <2>3, <3>2 DEF NotApplied, Awaits
    <2> QED
      BY <1>1, <1>2, <2>1, <2>3, OrderKept
  <1>14. ASSUME NEW r \in RM, NEW p \in RM, HandlerApply(r, p) PROVE FInv'
    <2> SUFFICES ASSUME alive' = RM PROVE FInv'
      BY <1>2
    <2>0. PICK m : m = hand[r][p]
      OBVIOUS
    <2>1. /\ r \in alive /\ r # p /\ m \in Packet \cup {Confirmation} /\ m # NoPacket
          /\ \A a, b \in RM :
                 /\ wire'[a][b] = IF a = r /\ b = p /\ p \in alive
                                  THEN Append(wire[r][p], Confirmation) ELSE wire[a][b]
                 /\ hand'[a][b] = IF a = r /\ b = p THEN NoPacket ELSE hand[a][b]
          /\ \A a \in RM : applied'[a] =
                 IF a = r /\ m # Confirmation THEN Append(applied[r], m) ELSE applied[a]
          /\ applied' \in [RM -> Seq(Packet)]
          /\ UNCHANGED <<alive, leader, pc, current, packet, todo, sent>>
      BY <1>14, <2>0, HandlerApplyEffect, NotPackets DEF threads
    <2>2. /\ alive = RM /\ \A a \in RM : Ordered(a) /\ NoneNewer(a)
          /\ \A g \in FE : Current(g)
      BY <2>1 DEF FInv
    <2>3. ~Nothing(p, r)
      BY <2>0, <2>1 DEF Nothing
    <2>4. PICK f \in FE :
              /\ pc[f] = "confirm" /\ {p, r} = {leader, current[f]} /\ Nothing(r, p)
              /\ \/ /\ p = leader /\ r = current[f] /\ Only(packet[f], p, r)
                 \/ Only(Confirmation, p, r) /\ Has(current[f], packet[f])
      BY <2>1, <2>2, <2>3, WhatIsRead
    <2>5. wire[p][r] = <<>> /\ wire[r][p] = <<>> /\ hand[p][r] = NoPacket
      BY <2>0, <2>1, <2>4 DEF Only, Nothing
    <2>6. leader \in RM /\ current[f] \in RM \ {leader} /\ packet[f] \in Packet /\ packet[f].fe = f
      BY <1>1, <2>2, <2>4 DEF SInv, TypeOK, Listeners
    <2>7. wire'[r][p] = <<Confirmation>>
      BY <2>1, <2>2, <2>5, AppendOne
    <2>8. \A g \in FE : pc[g] = "confirm" => g = f
      BY <1>1, <2>4 DEF Listeners
    <2>9. <<Confirmation>> # <<packet[f]>>
      BY <2>6, NotPackets, OneItem
    <2>10. ASSUME NEW g \in FE, NEW a \in RM, NotApplied(a, g)' PROVE NotApplied(a, g)
      <3>1. CASE Awaits(g, a)
        <4>1. g = f /\ a = current[f]
          BY <2>8, <3>1 DEF Awaits
        <4>2. ASSUME wire'[leader][a] = <<packet[f]>> PROVE wire[leader][a] = <<packet[f]>>
          BY <2>1, <2>2, <2>6, <2>7, <2>9, <4>1, <4>2
        <4>3. ASSUME hand'[a][leader] = packet[f] PROVE hand[a][leader] = packet[f]
          BY <2>1, <2>6, <4>1, <4>3, NotPackets
        <4> QED
          BY <2>1, <2>10, <3>1, <4>1, <4>2, <4>3 DEF NotApplied, Awaits
      <3>2. CASE ~Awaits(g, a)
        BY <2>1, <2>10, <3>2 DEF NotApplied, Awaits
      <3> QED
        BY <3>1, <3>2
    <2>11. CASE m = Confirmation
      <3>1. \A a \in RM : applied'[a] = applied[a]
        BY <2>1, <2>11
      <3>2. \A a \in RM : Ordered(a)' /\ NoneNewer(a)' /\ \A g \in FE : Older(a, g)' <=> Older(a, g)
        BY <2>1, <2>2, <3>1 DEF Ordered, NoneNewer, Older
      <3>3. \A g \in FE : Current(g)'
        BY <2>1, <2>2, <2>10, <3>2 DEF Current
      <3> QED
        BY <3>2, <3>3 DEF FInv
    <2>12. CASE m # Confirmation
      <3>1. p = leader /\ r = current[f] /\ m = packet[f]
        BY <2>0, <2>1, <2>4, <2>12 DEF Only
      <3>2. m \in Packet /\ m.fe = f /\ m.n = sent[f] /\ Older(r, f)
        <4>1. NotApplied(r, f)
          BY <2>0, <2>4, <3>1 DEF NotApplied, Awaits
        <4> QED
          BY <2>2, <2>4, <2>6, <3>1, <4>1 DEF Current
      <3>3. /\ Ordered(r)' /\ NoneNewer(r)'
            /\ \A g \in FE : g # f /\ Older(r, g) => Older(r, g)'
        <4>1. \A i \in 1 .. Len(applied[r]) : applied[r][i].fe = m.fe => applied[r][i].n < m.n
          BY <3>1, <3>2 DEF Older
        <4>2. applied[r] \in Seq(Packet) /\ applied'[r] = Append(applied[r], m)
          BY <1>1, <2>1, <2>12
        <4>3. /\ Ordered(r)' /\ NoneNewer(r)'
              /\ \A g \in FE : g # m.fe /\ packet'[g] = packet[g] /\ Older(r, g) => Older(r, g)'
          BY <1>1, <2>1, <2>2, <3>2, <4>1, <4>2, AppliedInOrder
        <4> QED
          BY <2>1, <3>2, <4>3
      <3>4. \A a \in RM : a # r =>
              Ordered(a)' /\ NoneNewer(a)' /\ \A g \in FE : Older(a, g) => Older(a, g)'
        BY <2>1, <2>2 DEF Ordered, NoneNewer, Older
      <3>5. ~NotApplied(r, f)'
        <4>1. hand'[r][leader] = NoPacket /\ wire'[leader][r] = <<>>
          BY <2>1, <2>5, <2>6, <3>1
        <4>2. r \notin todo[f] /\ r # leader
          BY <1>1, <2>4, <3>1 DEF Listeners
        <4> QED
          BY <2>1, <2>4, <3>1, <3>2, <4>1, <4>2, NotPackets, OneItem DEF NotApplied
      <3>6. ASSUME NEW g \in FE PROVE Current(g)'
        BY <2>1, <2>2, <2>10, <3>3, <3>4, <3>5 DEF Current
      <3> QED
        BY <3>3, <3>4, <3>6 DEF FInv
    <2> QED
      BY <2>11, <2>12
  <1>15. ASSUME NEW r \in RM, Crash(r) PROVE FInv'
    BY <1>2, <1>15, CrashEffect
  <1>16. ASSUME NEW r \in RM, Promote(r) PROVE FInv'
    <2>1. UNCHANGED <<alive, applied, sent, pc>> /\ \A f \in FE : pc[f] = "reading"
      BY <1>1, <1>16 DEF Promote, Listeners, threads
    <2> QED
      BY <1>1, <1>2, <2>1, OrderKept
  <1>17. CASE UNCHANGED vars
    BY <1>3, <1>17 DEF vars, threads
  <1> QED
    BY <1>4, <1>5, <1>6, <1>7, <1>8, <1>9, <1>10, <1>11, <1>12, <1>13, <1>14, <1>15, <1>16, <1>17
    DEF Next, ListenerStep, HandlerStep

(* Every server applies the packets of a front end in the order it sent      *)
(* them, each once, although a thread answers and applies a packet only      *)
(* after it has released the semaphore (listenFrontEndCommunication,         *)
(* handleRMCommunication).                                                   *)
THEOREM PacketsInOrder == Spec => []FifoPerFrontEnd
  <1>1. Init => FInv
    BY DEF Init, IdleThreads, FInv, Ordered, NoneNewer, Current
  <1>2. SInv /\ FInv => FifoPerFrontEnd
    <2> SUFFICES ASSUME SInv, FInv, alive = RM, NEW r \in RM,
                        NEW i \in DOMAIN applied[r], NEW j \in DOMAIN applied[r],
                        i < j, applied[r][i].fe = applied[r][j].fe
                 PROVE  applied[r][i].n < applied[r][j].n
      BY DEF FifoPerFrontEnd
    <2>1. applied[r] \in Seq(Packet)
      BY DEF SInv, TypeOK
    <2>2. DOMAIN applied[r] = 1 .. Len(applied[r])
      BY <2>1
    <2> QED
      BY <2>2 DEF FInv, Ordered
  <1> QED
    BY <1>1, <1>2, FifoStep, SInvariance, PTL DEF Spec

-----------------------------------------------------------------------------
(* The backups apply the packets in one order.                              *)

Backup == RM \ {FirstPrimary}

(* How far the packet m, to be applied after those in base, has come.        *)
Unreached(r, base)   == applied[r] = base /\ Nothing(FirstPrimary, r)
Underway(r, base, m) == m \in Packet /\ applied[r] = base /\ Only(m, FirstPrimary, r)
Done(r, base, m) == m \in Packet /\ applied[r] = Append(base, m) /\ Nothing(FirstPrimary, r)

(* The loop of the thread that holds the semaphore goes from peer to peer.   *)
Stepping(f, base) ==
    \A r \in Backup :
        /\ r \in todo[f] => Unreached(r, base)
        /\ Awaits(f, r) => Underway(r, base, packet[f]) \/ Done(r, base, packet[f])
        /\ r \in todo[f] \/ Awaits(f, r) \/ Done(r, base, packet[f])

(* A crash of the primary leaves its last packet somewhere on its way.       *)
Left(base) ==
    \E m : \A r \in Backup : Unreached(r, base) \/ Underway(r, base, m) \/ Done(r, base, m)

Progress(base) ==
    /\ leader = FirstPrimary /\ sem = NoFE => \A r \in Backup : Unreached(r, base)
    /\ leader = FirstPrimary /\ sem # NoFE => Stepping(sem, base)
    /\ leader = NoRM => Left(base)

BInv == /\ \A p \in RM : handler[FirstPrimary][p] = "none"
        /\ FirstPrimary \in alive => leader = FirstPrimary
        /\ FirstTerm => \E base \in Seq(Packet) : Progress(base)

(* Steps of a listener that does not replicate.                              *)
LEMMA OtherListener ==
    ASSUME SInv, NEW f \in FE, sem # f, leader = FirstPrimary,
           UNCHANGED <<leader, wire, hand, sem, todo, current>>,
           \A g \in FE : g # f => packet'[g] = packet[g] /\ pc'[g] = pc[g],
           \A r \in Backup : applied'[r] = applied[r],
           NEW base, Progress(base)
    PROVE  Progress(base)'
  <1>1. /\ \A r \in Backup : Unreached(r, base)' <=> Unreached(r, base)
        /\ \A r \in Backup : \A m :
              /\ Underway(r, base, m)' <=> Underway(r, base, m)
              /\ Done(r, base, m)' <=> Done(r, base, m)
    BY DEF Unreached, Underway, Done, Nothing, Only, Packet
  <1>2. CASE sem = NoFE
    BY <1>1, <1>2, ConstantsAssumption DEF Progress
  <1>3. CASE sem # NoFE
    <2>1. PICK g \in FE : g = sem
      BY <1>3 DEF SInv, TypeOK
    <2>2. /\ g # f /\ packet'[g] = packet[g] /\ \A r : Awaits(g, r)' <=> Awaits(g, r)
          /\ todo'[g] = todo[g]
      BY <2>1 DEF Awaits
    <2>3. Stepping(g, base)
      BY <1>3, <2>1 DEF Progress
    <2>4. Stepping(g, base)'
      BY <1>1, <2>2, <2>3 DEF Stepping
    <2>5. leader' = FirstPrimary /\ leader' # NoRM /\ sem' = g
      BY <2>1, ConstantsAssumption
    <2> QED
      BY <1>3, <2>1, <2>4, <2>5 DEF Progress
  <1> QED
    BY <1>2, <1>3

(* A listener's step in the first term.                                      *)
LEMMA ProgressListener ==
    ASSUME SInv, NEW f \in FE, ReadPacket(f) \/ ListenerStep(f), Backup \subseteq alive,
           leader = FirstPrimary, NEW base \in Seq(Packet), Progress(base)
    PROVE  \E b \in Seq(Packet) : Progress(b)'
  <1> USE ConstantsAssumption
  <1>1. /\ alive \subseteq RM /\ \A r \in Backup : r \in RM /\ r # FirstPrimary
        /\ Backup \subseteq socks[leader]
        /\ \A g \in FE : pc[g] \in {"replicate", "confirm"} <=> sem = g
        /\ FirstPrimary # NoRM
    BY DEF SInv, TypeOK, Connected, Listeners, Backup
  <1>2. CASE ReadPacket(f)
    <2>1. /\ sem # f /\ UNCHANGED <<leader, wire, hand, applied, sem, todo, current>>
          /\ \A g \in FE : g # f => packet'[g] = packet[g] /\ pc'[g] = pc[g]
      BY <1>1, <1>2, ReadPacketEffect
    <2>2. Progress(base)'
      BY <2>1, OtherListener
    <2> QED
      BY <2>2
  <1>3. CASE Lock(f)
    <2>1. /\ sem = NoFE /\ sem' = f /\ todo'[f] = socks[leader]
          /\ pc'[f] = "replicate"
          /\ UNCHANGED <<leader, wire, hand, applied, packet>>
      BY <1>3, LockEffect
    <2>2. \A r \in Backup : Unreached(r, base)
      BY <2>1 DEF Progress
    <2>3. \A r \in Backup : Unreached(r, base)'
      BY <2>1, <2>2 DEF Unreached, Nothing
    <2>4. Stepping(f, base)'
      BY <1>1, <2>1, <2>3 DEF Stepping, Awaits
    <2>5. Progress(base)'
      BY <1>1, <2>1, <2>4 DEF Progress
    <2> QED
      BY <2>5
  <1>4. CASE SendToRm(f)
    <2>1. PICK p \in RM \ {leader} : WritesTo(f, p)
      BY <1>4, SendToRmEffect
    <2>2. /\ pc[f] = "replicate" /\ sem = f /\ pc'[f] = "confirm" /\ packet[f] \in Packet
          /\ UNCHANGED <<alive, leader, hand, applied, packet, sem>>
      BY <1>4, SendToRmEffect
    <2>3. Stepping(f, base) /\ \A r : ~Awaits(f, r)
      BY <2>2 DEF Progress, Awaits
    <2>4. \A r : Awaits(f, r)' <=> r = p
      BY <2>1, <2>2 DEF Awaits, WritesTo
    <2>5. \A r \in Backup : r # p => /\ Unreached(r, base)' <=> Unreached(r, base)
                                     /\ Done(r, base, packet[f])' <=> Done(r, base, packet[f])
      BY <1>1, <2>1, <2>2 DEF Unreached, Done, Nothing, WritesTo, Packet
    <2>6. \A r \in Backup : r # p => (r \in todo'[f] <=> r \in todo[f])
      BY <1>1, <2>1 DEF WritesTo, Remaining
    <2>7. Underway(p, base, packet[f])' /\ p \notin todo'[f] /\ p \in Backup
      <3>1. p \in todo[f] /\ p \notin todo'[f] /\ p \in Backup /\ p \in alive
        BY <1>1, <2>1 DEF WritesTo, Remaining, Backup
      <3>2. applied[p] = base /\ wire[leader][p] = <<>> /\ hand[p][leader] = NoPacket
        BY <2>3, <3>1 DEF Stepping, Unreached, Nothing
      <3>3. wire'[leader][p] = Append(wire[leader][p], packet[f])
        BY <1>1, <2>1, <3>1 DEF WritesTo
      <3>4. wire'[leader][p] = <<packet[f]>>
        BY <3>2, <3>3, AppendOne
      <3> QED
        BY <2>2, <3>1, <3>2, <3>4 DEF Underway, Only, Packet
    <2>8. Stepping(f, base)'
      BY <2>2, <2>3, <2>4, <2>5, <2>6, <2>7 DEF Stepping
    <2>9. Progress(base)'
      BY <1>1, <2>2, <2>8 DEF Progress
    <2> QED
      BY <2>9
  <1>5. CASE ReadConfirmation(f)
    <2>0. PICK p \in RM \ {leader} : p = current[f]
      BY <1>5, ReadConfirmationEffect
    <2>1. /\ pc[f] = "confirm" /\ sem = f /\ wire[p][leader] # <<>>
          /\ \A a, b \in RM : wire'[a][b] =
                IF a = p /\ b = leader THEN Tail(wire[p][leader]) ELSE wire[a][b]
          /\ pc'[f] = "replicate"
          /\ UNCHANGED <<alive, leader, hand, packet, applied, current, todo, sem>>
      <3>1. /\ pc[f] = "confirm" /\ sem = f /\ wire[current[f]][leader] # <<>>
            /\ \A a, b \in RM : wire'[a][b] =
                  IF a = current[f] /\ b = leader THEN Tail(wire[current[f]][leader])
                                                 ELSE wire[a][b]
            /\ \A g \in FE : pc'[g] = IF g = f THEN "replicate" ELSE pc[g]
            /\ UNCHANGED <<alive, leader, hand, packet, applied, current, todo, sem>>
        BY <1>5, ReadConfirmationEffect
      <3> QED
        BY <2>0, <3>1
    <2>2. Stepping(f, base) /\ p \in Backup /\ p \in alive /\ p \notin todo[f]
      BY <2>0, <2>1 DEF Progress, SInv, Listeners, Backup
    <2>3. Awaits(f, p) /\ \A r : Awaits(f, r) => r = p
      BY <2>0, <2>1 DEF Awaits
    <2>4. Nothing(leader, p)
      BY <2>1, <2>2, <2>3 DEF SInv, Deliveries, Delivery, Nothing
    <2>5. Done(p, base, packet[f])
      <3>1. Underway(p, base, packet[f]) \/ Done(p, base, packet[f])
        BY <2>2, <2>3 DEF Stepping
      <3>2. ~Underway(p, base, packet[f])
        BY <2>4, NotPackets, OneItem DEF Underway, Only, Nothing
      <3> QED
        BY <3>1, <3>2
    <2>6. \A r \in Backup : /\ Unreached(r, base)' <=> Unreached(r, base)
                            /\ Done(r, base, packet[f])' <=> Done(r, base, packet[f])
      BY <1>1, <2>0, <2>1 DEF Unreached, Done, Nothing, Packet
    <2>7. Stepping(f, base)'
      BY <2>1, <2>2, <2>3, <2>5, <2>6 DEF Stepping, Awaits
    <2>8. Progress(base)'
      BY <1>1, <2>1, <2>7 DEF Progress
    <2> QED
      BY <2>8
  <1>6. ~ReadConfirmationFails(f)
    BY <1>1, ReadConfirmationFailsEffect DEF Backup
  <1>7. CASE Unlock(f)
    <2>1. /\ pc[f] = "replicate" /\ sem = f /\ sem' = NoFE /\ Remaining(f) = {}
          /\ UNCHANGED <<leader, wire, hand, packet, applied>>
      BY <1>7, UnlockEffect
    <2>2. packet[f] \in Packet
      BY <2>1 DEF SInv, Listeners
    <2>3. \A r \in Backup : Done(r, base, packet[f])
      <3>1. Stepping(f, base) /\ \A r : ~Awaits(f, r)
        BY <2>1 DEF Progress, Awaits
      <3>2. \A r \in Backup : r \notin todo[f]
        BY <1>1, <2>1 DEF Remaining
      <3> QED
        BY <3>1, <3>2 DEF Stepping
    <2>4. PICK b \in Seq(Packet) : b = Append(base, packet[f])
      BY <2>2, AppendItems
    <2>5. \A r \in Backup : Unreached(r, b)'
      BY <2>1, <2>3, <2>4 DEF Done, Unreached, Nothing
    <2>6. Progress(b)'
      BY <1>1, <2>1, <2>5 DEF Progress
    <2> QED
      BY <2>6
  <1>8. CASE SendAck(f)
    BY <1>1, <1>8, SendAckEffect, OtherListener
  <1>9. CASE ProcessPacket(f)
    <2>1. /\ \A r \in Backup : applied'[r] = applied[r]
          /\ sem # f
          /\ UNCHANGED <<leader, wire, hand, sem, todo, current>>
          /\ \A g \in FE : g # f => packet'[g] = packet[g] /\ pc'[g] = pc[g]
      BY <1>1, <1>9, ProcessPacketEffect
    <2> QED
      BY <2>1, OtherListener
  <1> QED
    BY <1>2, <1>3, <1>4, <1>5, <1>6, <1>7, <1>8, <1>9 DEF ListenerStep

(* An RM's step in the first term: a packet under way is applied.            *)
LEMMA ProgressHandler ==
    ASSUME SInv, BInv, NEW r \in RM, NEW p \in RM, HandlerStep(r, p), FirstTerm,
           NEW base, Progress(base)
    PROVE  Progress(base)'
  <1> USE ConstantsAssumption
  <1>1. /\ \A a \in Backup : a \in RM /\ a # FirstPrimary /\ a \in alive
        /\ FirstPrimary # NoRM
    BY DEF FirstTerm, Backup
  <1>2. r # FirstPrimary /\ r \in alive
    BY DEF BInv, HandlerStep, HandlerTop, HandlerRead, HandlerApply, HandlerEof
  <1>3. UNCHANGED <<leader, sem, todo, pc, packet, current>>
    BY DEF HandlerStep, HandlerTop, HandlerRead, HandlerApply, HandlerEof, threads
  <1>4. \A a \in Backup :
           /\ Unreached(a, base) => Unreached(a, base)'
           /\ \A m : Underway(a, base, m) => Underway(a, base, m)' \/ Done(a, base, m)'
           /\ \A m : Done(a, base, m) => Done(a, base, m)'
    <2> SUFFICES ASSUME NEW a \in Backup, NEW m
                 PROVE  /\ Unreached(a, base) => Unreached(a, base)'
                        /\ Underway(a, base, m) => Underway(a, base, m)' \/ Done(a, base, m)'
                        /\ Done(a, base, m) => Done(a, base, m)'
      OBVIOUS
    <2> USE DEF Unreached, Underway, Done
    <2>1. ASSUME applied'[a] = applied[a], wire'[FirstPrimary][a] = wire[FirstPrimary][a],
                 hand'[a][FirstPrimary] = hand[a][FirstPrimary]
          PROVE  /\ Unreached(a, base) => Unreached(a, base)'
                 /\ Underway(a, base, m) => Underway(a, base, m)'
                 /\ Done(a, base, m) => Done(a, base, m)'
      BY <2>1 DEF Nothing, Only, Packet
    <2>2. CASE HandlerTop(r, p) \/ HandlerEof(r, p)
      BY <2>1, <2>2, HandlerIdleEffect
    <2>3. CASE HandlerRead(r, p)
      <3>1. /\ hand[r][p] = NoPacket /\ wire[p][r] # <<>> /\ UNCHANGED applied
            /\ \A b, c \in RM :
                  /\ wire'[b][c] = IF b = p /\ c = r THEN Tail(wire[p][r]) ELSE wire[b][c]
                  /\ hand'[b][c] = IF b = r /\ c = p THEN Head(wire[p][r]) ELSE hand[b][c]
        BY <2>3, HandlerReadEffect
      <3>2. CASE r = a /\ p = FirstPrimary
        <4>1. ~Nothing(FirstPrimary, a)
          BY <3>1, <3>2 DEF Nothing
        <4>2. ASSUME Only(m, FirstPrimary, a), m \in Packet PROVE Only(m, FirstPrimary, a)'
          <5>1. wire[p][r] = <<m>>
            BY <3>1, <3>2, <4>2, NotPackets DEF Only
          <5>2. Head(wire[p][r]) = m /\ Tail(wire[p][r]) = <<>>
            BY <5>1, OneItem
          <5> QED
            BY <1>1, <3>1, <3>2, <5>2 DEF Only
        <4> QED
          BY <3>1, <4>1, <4>2 DEF Packet
      <3>3. CASE ~(r = a /\ p = FirstPrimary)
        BY <1>1, <2>1, <3>1, <3>3
      <3> QED
        BY <3>2, <3>3
    <2>4. CASE HandlerApply(r, p)
      <3>0. PICK x : x = hand[r][p]
        OBVIOUS
      <3>1. /\ x # NoPacket /\ r # p
            /\ \A b, c \in RM :
                  /\ b # r => wire'[b][c] = wire[b][c]
                  /\ hand'[b][c] = IF b = r /\ c = p THEN NoPacket ELSE hand[b][c]
            /\ \A b \in RM : applied'[b] =
                  IF b = r /\ x # Confirmation THEN Append(applied[r], x) ELSE applied[b]
        BY <2>4, <3>0, HandlerApplyEffect, NotPackets
      <3>2. ~Nothing(p, r)
        BY <3>0, <3>1 DEF Nothing
      <3>3. CASE r = a /\ p = FirstPrimary
        <4>1. ASSUME Underway(a, base, m) PROVE Done(a, base, m)'
          <5>1. m \in Packet /\ applied[a] = base /\ wire[FirstPrimary][a] = <<>> /\ x = m
            BY <3>0, <3>1, <3>3, <4>1 DEF Only
          <5>2. wire'[FirstPrimary][a] = <<>> /\ hand'[a][FirstPrimary] = NoPacket
            BY <1>1, <3>1, <3>3, <5>1
          <5>3. applied'[a] = Append(base, m)
            BY <3>1, <3>3, <5>1, NotPackets
          <5> QED
            BY <5>1, <5>2, <5>3 DEF Nothing, Packet
        <4> QED
          BY <3>2, <3>3, <4>1
      <3>4. CASE r = a /\ p # FirstPrimary
        <4>1. p \in alive
          BY <3>4 DEF FirstTerm
        <4>2. PICK f \in FE :
                 /\ pc[f] = "confirm" /\ {p, r} = {leader, current[f]} /\ Nothing(r, p)
                 /\ \/ /\ p = leader /\ r = current[f] /\ Only(packet[f], p, r)
                    \/ Only(Confirmation, p, r) /\ Has(current[f], packet[f])
          BY <1>2, <3>1, <3>2, <4>1, WhatIsRead
        <4>3. leader # NoRM /\ leader # FirstPrimary
          BY <1>1, <1>2, <3>4, <4>2
        <4> QED
          BY <4>3 DEF FirstTerm
      <3>5. CASE r # a
        BY <1>1, <1>2, <2>1, <3>1, <3>5
      <3> QED
        BY <3>3, <3>4, <3>5
    <2> QED
      BY <2>1, <2>2, <2>3, <2>4 DEF HandlerStep
  <1>5. \A f, a : Awaits(f, a)' <=> Awaits(f, a)
    BY <1>3 DEF Awaits
  <1>6. Left(base) => Left(base)'
    BY <1>4 DEF Left
  <1>7. \A f : Stepping(f, base) => Stepping(f, base)'
    <2> SUFFICES ASSUME NEW f, Stepping(f, base) PROVE Stepping(f, base)'
      OBVIOUS
    <2>1. packet'[f] = packet[f] /\ todo'[f] = todo[f]
      BY <1>3
    <2> QED
      BY <1>4, <1>5, <2>1 DEF Stepping
  <1> QED
    BY <1>3, <1>4, <1>6, <1>7 DEF Progress

(* The crash of the first primary leaves its packet on its way.              *)
LEMMA ProgressCrash ==
    ASSUME SInv, Crash(FirstPrimary), leader = FirstPrimary, Backup \subseteq alive,
           NEW base, Progress(base)
    PROVE  Progress(base)'
  <1> USE ConstantsAssumption
  <1>1. /\ leader' = NoRM /\ UNCHANGED applied
        /\ \A a, b \in RM :
                 /\ wire'[a][b] = IF b = FirstPrimary THEN <<>> ELSE wire[a][b]
                 /\ hand'[a][b] = IF a = FirstPrimary THEN NoPacket ELSE hand[a][b]
    BY CrashEffect
  <1>2. \A r \in Backup : \A m :
           /\ Unreached(r, base) => Unreached(r, base)'
           /\ Underway(r, base, m) => Underway(r, base, m)'
           /\ Done(r, base, m) => Done(r, base, m)'
    BY <1>1 DEF Backup, Unreached, Underway, Done, Nothing, Only, Packet
  <1>3. Left(base)
    <2>1. CASE sem = NoFE
      BY <2>1 DEF Progress, Left
    <2>2. CASE sem # NoFE
      BY <2>2 DEF Progress, Stepping, Left
    <2> QED
      BY <2>1, <2>2
  <1>4. Left(base)'
    BY <1>2, <1>3 DEF Left
  <1> QED
    BY <1>1, <1>4 DEF Progress

(* So is the order of the backups, in the first primary's term.              *)
LEMMA BackupsStep == SInv /\ BInv /\ [Next]_vars => BInv'
  <1> SUFFICES ASSUME SInv, BInv, [Next]_vars PROVE BInv'
    OBVIOUS
  <1> USE ConstantsAssumption
  <1> DEFINE Idle == \A p \in RM : handler[FirstPrimary][p] = "none"
             Leads == FirstPrimary \in alive => leader = FirstPrimary
  <1>1. Idle /\ Leads /\ alive \subseteq RM /\ (leader \in alive \/ leader = NoRM)
    BY DEF BInv, SInv, TypeOK
  <1>2. ASSUME NEW f \in FE, ReadPacket(f) \/ ListenerStep(f) PROVE BInv'
    <2>1. UNCHANGED <<alive, leader, handler>> /\ leader # NoRM
      BY <1>2 DEF ReadPacket, ListenerStep, Lock, SendToRm, ReadConfirmation, Serving,
                  ReadConfirmationFails, Unlock, SendAck, ProcessPacket
    <2>2. ASSUME FirstTerm' PROVE \E b \in Seq(Packet) : Progress(b)'
      <3>1. FirstTerm /\ leader = FirstPrimary /\ Backup \subseteq alive
        BY <2>1, <2>2 DEF FirstTerm, Backup
      <3>2. PICK base \in Seq(Packet) : Progress(base)
        BY <3>1 DEF BInv
      <3> QED
        BY <1>2, <3>1, <3>2, ProgressListener
    <2>3. (\E b \in Seq(Packet) : Progress(b)') <=> (\E b \in Seq(Packet) : Progress(b))'
      BY DEF Packet
    <2> QED
      BY <1>1, <2>1, <2>2, <2>3 DEF BInv
  <1>3. ASSUME NEW r \in RM, NEW p \in RM, HandlerStep(r, p) PROVE BInv'
    <2>1. /\ UNCHANGED <<alive, leader>> /\ r # FirstPrimary
          /\ \E l : handler' = [handler EXCEPT ![r][p] = l]
      BY <1>1, <1>3 DEF HandlerStep, HandlerTop, HandlerRead, HandlerApply, HandlerEof
    <2>2. \A q \in RM : handler'[FirstPrimary][q] = handler[FirstPrimary][q]
      <3>1. handler \in [RM -> [RM -> {"none", "top", "reading", "apply", "closed"}]]
        BY DEF SInv, TypeOK
      <3> QED
        BY <2>1, <3>1
    <2>3. ASSUME FirstTerm' PROVE (\E b \in Seq(Packet) : Progress(b))'
      <3>1. FirstTerm
        BY <2>1, <2>3 DEF FirstTerm
      <3>2. PICK base \in Seq(Packet) : Progress(base)
        BY <3>1 DEF BInv
      <3>3. Progress(base)'
        BY <1>3, <3>1, <3>2, ProgressHandler
      <3> QED
        BY <3>3 DEF Packet
    <2> QED
      BY <1>1, <2>1, <2>2, <2>3 DEF BInv
  <1>4. ASSUME NEW r \in RM, Crash(r) PROVE BInv'
    <2>1. /\ r \in alive /\ alive' = alive \ {r}
          /\ \A q \in RM : handler'[FirstPrimary][q] =
                IF r = FirstPrimary THEN "none" ELSE handler[FirstPrimary][q]
          /\ IF r = leader THEN leader' = NoRM ELSE leader' = leader
      BY <1>4, CrashEffect
    <2>2. ASSUME FirstTerm' PROVE (\E b \in Seq(Packet) : Progress(b))'
      <3>1. r = FirstPrimary /\ leader = FirstPrimary /\ FirstTerm /\ Backup \subseteq alive
        BY <1>1, <2>1, <2>2 DEF FirstTerm, Backup
      <3>2. PICK base \in Seq(Packet) : Progress(base)
        BY <3>1 DEF BInv
      <3>3. Progress(base)'
        BY <1>4, <3>1, <3>2, ProgressCrash
      <3> QED
        BY <3>3 DEF Packet
    <2> QED
      BY <1>1, <2>1, <2>2 DEF BInv
  <1>5. ASSUME NEW r \in RM, Promote(r) PROVE BInv'
    <2>1. leader = NoRM /\ r \in alive /\ leader' = r /\ UNCHANGED <<alive, handler>>
      BY <1>5 DEF Promote
    <2>2. FirstPrimary \notin alive /\ ~FirstTerm'
      BY <1>1, <2>1 DEF FirstTerm
    <2> QED
      BY <1>1, <2>1, <2>2 DEF BInv
  <1>6. CASE UNCHANGED vars
    <2>1. FirstTerm' <=> FirstTerm
      BY <1>6 DEF vars, FirstTerm
    <2>2. \A b : Progress(b)' <=> Progress(b)
      BY <1>6 DEF vars, Progress, Stepping, Left, Unreached, Underway, Done, Awaits,
                     Nothing, Only, Packet
    <2>3. (\E b \in Seq(Packet) : Progress(b)) => (\E b \in Seq(Packet) : Progress(b))'
      BY <2>2 DEF Packet
    <2> QED
      BY <1>1, <1>6, <2>1, <2>3 DEF BInv, vars
  <1> QED
    BY <1>2, <1>3, <1>4, <1>5, <1>6 DEF Next

(* A sequence is a prefix of itself and of what it grows into.               *)
LEMMA PrefixOfAppend ==
    ASSUME NEW S, NEW s \in Seq(S), NEW e \in S
    PROVE  IsPrefix(s, s) /\ IsPrefix(s, Append(s, e))
  <1> DEFINE t == Append(s, e)
  <1>1. /\ Len(s) \in Nat /\ t \in Seq(S) /\ Len(t) = Len(s) + 1
        /\ \A i \in 1 .. Len(s) : t[i] = s[i] /\ s[i] \in S
    BY AppendProperties
  <1> HIDE DEF t
  <1>2. SubSeq(s, 1, Len(s)) = s
    BY SubSeqFull
  <1>3. SubSeq(t, 1, Len(s)) = s
    <2>1. /\ SubSeq(t, 1, Len(s)) \in Seq(S)
          /\ Len(SubSeq(t, 1, Len(s))) = Len(s)
          /\ \A i \in 1 .. Len(s) : SubSeq(t, 1, Len(s))[i] = s[i]
      <3>1. \A i \in 1 .. Len(s) : t[i] \in S
        BY <1>1
      <3>2. /\ SubSeq(t, 1, Len(s)) \in Seq(S)
            /\ Len(SubSeq(t, 1, Len(s))) = IF 1 <= Len(s) THEN Len(s) - 1 + 1 ELSE 0
            /\ \A i \in 1 .. Len(s) - 1 + 1 : SubSeq(t, 1, Len(s))[i] = t[1 + i - 1]
        BY <1>1, <3>1, SubSeqProperties
      <3> QED
        BY <1>1, <3>2
    <2> QED
      BY <1>1, <2>1, SeqEqual
  <1> QED
    BY <1>1, <1>2, <1>3 DEF IsPrefix, t

(* The servers that only replicate apply all packets in one order, also when *)
(* the primary crashes between two writes of its replication loop            *)
(* (listenFrontEndCommunication, handleRMCommunication).                     *)
THEOREM BackupsInOneOrder == Spec => []BackupsAgree
  <1> USE ConstantsAssumption
  <1>1. Init => BInv
    <2> SUFFICES ASSUME Init PROVE BInv
      OBVIOUS
    <2>1. \A r \in Backup : Unreached(r, <<>>)
      BY DEF Init, Backup, Unreached, Nothing
    <2>2. Progress(<<>>)
      BY <2>1 DEF Init, IdleThreads, Progress
    <2>3. <<>> \in Seq(Packet)
      OBVIOUS
    <2> QED
      BY <2>2, <2>3 DEF Init, BInv
  <1>2. SInv /\ BInv => BackupsAgree
    <2> SUFFICES ASSUME SInv, BInv, FirstTerm, NEW r \in Backup, NEW s \in Backup
                 PROVE  IsPrefix(applied[r], applied[s]) \/ IsPrefix(applied[s], applied[r])
      BY DEF BackupsAgree, Backup
    <2>1. PICK base \in Seq(Packet) : Progress(base)
      BY DEF BInv
    <2>2. \E m : \A a \in Backup :
             applied[a] = base \/ (m \in Packet /\ applied[a] = Append(base, m))
      <3>1. CASE leader = NoRM
        BY <2>1, <3>1 DEF Progress, Left, Unreached, Underway, Done
      <3>2. CASE leader = FirstPrimary
        BY <2>1, <3>2 DEF Progress, Stepping, Unreached, Underway, Done
      <3> QED
        BY <3>1, <3>2 DEF FirstTerm
    <2>3. PICK m : \A a \in Backup :
             applied[a] = base \/ (m \in Packet /\ applied[a] = Append(base, m))
      BY <2>2
    <2>4. IsPrefix(base, base)
      <3>1. CASE base = <<>>
        BY <3>1 DEF IsPrefix
      <3>2. Len(base) \in Nat
        BY <2>1
      <3> QED
        BY <3>2 DEF IsPrefix
    <2>5. CASE m \in Packet
      <3>1. /\ IsPrefix(base, Append(base, m))
            /\ IsPrefix(Append(base, m), Append(base, m))
        BY <2>5, AppendItems, PrefixOfAppend
      <3> QED
        BY <2>3, <2>4, <3>1
    <2>6. CASE m \notin Packet
      BY <2>3, <2>4, <2>6
    <2> QED
      BY <2>5, <2>6
  <1> QED
    BY <1>1, <1>2, BackupsStep, SInvariance, PTL DEF Spec

-----------------------------------------------------------------------------
(* The servers keep the promise of Replicas.                                *)

(* What a packet is called that the front end of its name has sent.          *)
Genuine(m, s) == m \in Packet => m.n \in 1 .. s[m.fe]

(* No packet comes from nowhere, whoever has crashed.                        *)
NoneForged ==
    /\ \A f \in FE : Genuine(packet[f], sent)
    /\ \A a, b \in RM : /\ Genuine(hand[a][b], sent)
                        /\ \A m \in ToSet(wire[a][b]) : Genuine(m, sent)

(* Until the first crash every server has applied all but the packets that   *)
(* the primary's threads have in hand.                                       *)
NoneMissing ==
    alive = RM => \A r \in RM, f \in FE : \A k \in 1 .. sent[f] :
        \/ k = sent[f] /\ pc[f] # "reading"
        \/ \E m \in ToSet(applied[r]) : Name(m) = <<f, k>>

VInv == NoneForged /\ NoneMissing

(* What is taken from a queue was in it, and what is left too.               *)
LEMMA QueueItems ==
    ASSUME NEW S, NEW s \in Seq(S), s # <<>>
    PROVE  Head(s) \in ToSet(s) /\ ToSet(Tail(s)) \subseteq ToSet(s)
  <1>1. /\ Len(s) \in Nat /\ Len(s) # 0 /\ DOMAIN s = 1 .. Len(s) /\ Head(s) = s[1]
        /\ DOMAIN Tail(s) = 1 .. Len(s) - 1
        /\ \A i \in 1 .. Len(s) - 1 : Tail(s)[i] = s[i + 1]
    OBVIOUS
  <1>2. Head(s) \in ToSet(s)
    BY <1>1 DEF ToSet
  <1>3. ASSUME NEW i \in 1 .. Len(s) - 1 PROVE Tail(s)[i] \in ToSet(s)
    <2>1. i + 1 \in DOMAIN s
      BY <1>1
    <2> QED
      BY <1>1, <2>1 DEF ToSet
  <1> QED
    BY <1>1, <1>2, <1>3 DEF ToSet

(* A packet of a front end stays one when more are sent.                     *)
LEMMA GenuineKept ==
    ASSUME NoneForged, sent \in [FE -> Nat],
           \A f \in FE : sent'[f] \in Nat /\ sent[f] <= sent'[f],
           \A f \in FE : packet'[f] = packet[f] \/ Genuine(packet'[f], sent'),
           \A a, b \in RM : hand'[a][b] = hand[a][b] \/ Genuine(hand'[a][b], sent'),
           \A a, b \in RM : \A m \in ToSet(wire'[a][b]) :
               m \in ToSet(wire[a][b]) \/ Genuine(m, sent')
    PROVE  NoneForged'
  <1>1. ASSUME NEW m, Genuine(m, sent) PROVE Genuine(m, sent')
    <2> SUFFICES ASSUME m \in Packet PROVE m.n \in 1 .. sent'[m.fe]
      BY DEF Genuine
    <2>1. m.fe \in FE /\ m.n \in Nat /\ m.n \in 1 .. sent[m.fe]
      BY <1>1 DEF Genuine, Packet
    <2> QED
      BY <2>1
  <1> QED
    BY <1>1 DEF NoneForged

(* No step lets a packet appear that its front end has not sent.             *)
LEMMA NoneForgedStep == SInv /\ NoneForged /\ [Next]_vars => NoneForged'
  <1> SUFFICES ASSUME SInv, NoneForged, [Next]_vars PROVE NoneForged'
    OBVIOUS
  <1>1. /\ sent \in [FE -> Nat] /\ wire \in [RM -> [RM -> Seq(Packet \cup {Confirmation})]]
        /\ alive \subseteq RM /\ applied \in [RM -> Seq(Packet)]
    BY DEF SInv, TypeOK
  <1>2. \A s : Genuine(NoPacket, s) /\ Genuine(Confirmation, s)
    BY NotPackets DEF Genuine
  <1>3. CASE UNCHANGED <<sent, packet, hand, wire>>
    BY <1>3 DEF NoneForged
  <1>4. ASSUME NEW f \in FE, ReadPacket(f) PROVE NoneForged'
    <2>1. /\ \A g \in FE : g # f => packet'[g] = packet[g]
          /\ packet'[f].fe = f /\ packet'[f].n = sent[f] + 1
          /\ \A g \in FE : sent'[g] = IF g = f THEN sent[f] + 1 ELSE sent[g]
          /\ UNCHANGED <<wire, hand>>
      BY <1>4, ReadPacketEffect
    <2>2. Genuine(packet'[f], sent')
      BY <1>1, <2>1 DEF Genuine
    <2>3. \A g \in FE : sent'[g] \in Nat /\ sent[g] <= sent'[g]
      BY <1>1, <2>1
    <2> QED
      BY <1>1, <2>1, <2>2, <2>3, GenuineKept
  <1>5. UNCHANGED sent => \A g \in FE : sent'[g] \in Nat /\ sent[g] <= sent'[g]
    BY <1>1
  <1>6. ASSUME NEW f \in FE, SendToRm(f) PROVE NoneForged'
    <2>1. PICK p \in RM \ {leader} : WritesTo(f, p)
      BY <1>6, SendToRmEffect
    <2>2. packet[f] \in Packet /\ leader \in RM /\ UNCHANGED <<sent, hand, packet>>
      BY <1>6, SendToRmEffect
    <2>3. Genuine(packet[f], sent')
      BY <2>2 DEF NoneForged
    <2>4. ToSet(Append(wire[leader][p], packet[f])) = ToSet(wire[leader][p]) \cup {packet[f]}
      <3>1. wire[leader][p] \in Seq(Packet \cup {Confirmation})
        BY <1>1, <2>2
      <3> QED
        BY <2>2, <3>1, AppendItems
    <2>5. ASSUME NEW a \in RM, NEW b \in RM, NEW m \in ToSet(wire'[a][b])
          PROVE  m \in ToSet(wire[a][b]) \/ Genuine(m, sent')
      BY <2>1, <2>3, <2>4 DEF WritesTo
    <2> QED
      BY <1>1, <1>5, <2>2, <2>5, GenuineKept
  <1>7. ASSUME NEW f \in FE, ReadConfirmation(f) PROVE NoneForged'
    <2> DEFINE p == current[f]
    <2>2. /\ p \in RM /\ leader \in RM /\ wire[p][leader] # <<>>
          /\ wire[p][leader] \in Seq(Packet \cup {Confirmation})
          /\ \A a, b \in RM : wire'[a][b] =
                 IF a = p /\ b = leader THEN Tail(wire[p][leader]) ELSE wire[a][b]
          /\ UNCHANGED <<sent, hand, packet>>
      BY <1>7, ReadConfirmationEffect
    <2>3. ToSet(Tail(wire[p][leader])) \subseteq ToSet(wire[p][leader])
      BY <2>2, QueueItems
    <2>4. ASSUME NEW a \in RM, NEW b \in RM, NEW m \in ToSet(wire'[a][b])
          PROVE  m \in ToSet(wire[a][b])
      BY <2>2, <2>3
    <2> QED
      BY <1>1, <1>5, <2>2, <2>4, GenuineKept
  <1>8. ASSUME NEW f \in FE, ProcessPacket(f) PROVE NoneForged'
    <2>1. /\ \A g \in FE : packet'[g] = IF g = f THEN NoPacket ELSE packet[g]
          /\ UNCHANGED <<sent, wire, hand>>
      BY <1>8, ProcessPacketEffect
    <2> QED
      BY <1>1, <1>2, <1>5, <2>1, GenuineKept
  <1>9. ASSUME NEW r \in RM, NEW p \in RM, HandlerRead(r, p) PROVE NoneForged'
    <2>1. /\ wire[p][r] # <<>>
          /\ \A a, b \in RM :
                /\ wire'[a][b] = IF a = p /\ b = r THEN Tail(wire[p][r]) ELSE wire[a][b]
                /\ hand'[a][b] = IF a = r /\ b = p THEN Head(wire[p][r]) ELSE hand[a][b]
          /\ UNCHANGED <<sent, packet>>
      BY <1>9, HandlerReadEffect DEF threads
    <2>2. /\ Head(wire[p][r]) \in ToSet(wire[p][r])
          /\ ToSet(Tail(wire[p][r])) \subseteq ToSet(wire[p][r])
      <3>1. wire[p][r] \in Seq(Packet \cup {Confirmation})
        BY <1>1
      <3> QED
        BY <2>1, <3>1, QueueItems
    <2>3. Genuine(Head(wire[p][r]), sent')
      BY <2>1, <2>2 DEF NoneForged
    <2>4. ASSUME NEW a \in RM, NEW b \in RM, NEW m \in ToSet(wire'[a][b])
          PROVE  m \in ToSet(wire[a][b])
      BY <2>1, <2>2
    <2> QED
      BY <1>1, <1>5, <2>1, <2>3, <2>4, GenuineKept
  <1>10. ASSUME NEW r \in RM, NEW p \in RM, HandlerApply(r, p) PROVE NoneForged'
    <2>1. /\ \A a, b \in RM :
                /\ wire'[a][b] = IF a = r /\ b = p /\ p \in alive
                                 THEN Append(wire[r][p], Confirmation) ELSE wire[a][b]
                /\ hand'[a][b] = IF a = r /\ b = p THEN NoPacket ELSE hand[a][b]
          /\ UNCHANGED <<sent, packet>>
      BY <1>10, HandlerApplyEffect DEF threads
    <2>2. ToSet(Append(wire[r][p], Confirmation)) = ToSet(wire[r][p]) \cup {Confirmation}
      <3>1. wire[r][p] \in Seq(Packet \cup {Confirmation})
        BY <1>1
      <3> QED
        BY <3>1, AppendItems
    <2>3. ASSUME NEW a \in RM, NEW b \in RM, NEW m \in ToSet(wire'[a][b])
          PROVE  m \in ToSet(wire[a][b]) \/ Genuine(m, sent')
      BY <1>2, <2>1, <2>2
    <2> QED
      BY <1>1, <1>2, <1>5, <2>1, <2>3, GenuineKept
  <1>11. ASSUME NEW r \in RM, Crash(r) PROVE NoneForged'
    <2>1. /\ \A a, b \in RM : /\ wire'[a][b] = IF b = r THEN <<>> ELSE wire[a][b]
                              /\ hand'[a][b] = IF a = r THEN NoPacket ELSE hand[a][b]
          /\ IF r = leader THEN IdleThreads' ELSE UNCHANGED packet
          /\ UNCHANGED sent
      BY <1>11, CrashEffect DEF threads
    <2>2. ToSet(<<>>) = {}
      BY DEF ToSet
    <2>3. ASSUME NEW a \in RM, NEW b \in RM, NEW m \in ToSet(wire'[a][b])
          PROVE  m \in ToSet(wire[a][b])
      BY <2>1, <2>2, <2>3
    <2>4. \A f \in FE : packet'[f] = packet[f] \/ packet'[f] = NoPacket
      BY <2>1 DEF IdleThreads
    <2> QED
      BY <1>1, <1>2, <1>5, <2>1, <2>3, <2>4, GenuineKept
  <1>12. ASSUME NEW f \in FE, Lock(f) \/ ReadConfirmationFails(f) \/ Unlock(f) \/ SendAck(f)
         PROVE  NoneForged'
    BY <1>3, <1>12 DEF Lock, ReadConfirmationFails, Unlock, SendAck
  <1>13. ASSUME NEW r \in RM, NEW p \in RM, HandlerTop(r, p) \/ HandlerEof(r, p)
         PROVE  NoneForged'
    BY <1>3, <1>13 DEF HandlerTop, HandlerEof, threads
  <1>14. ASSUME NEW r \in RM, Promote(r) PROVE NoneForged'
    BY <1>3, <1>14 DEF Promote, threads
  <1>15. CASE UNCHANGED vars
    BY <1>3, <1>15 DEF vars
  <1> QED
    BY <1>4, <1>6, <1>7, <1>8, <1>9, <1>10, <1>11, <1>12, <1>13, <1>14, <1>15
    DEF Next, ListenerStep, HandlerStep

(* Packets that are applied, and the queues that stay as they were.          *)
LEMMA NoneMissingKept ==
    ASSUME NoneMissing, alive' = alive, UNCHANGED sent,
           alive = RM => \A f \in FE : pc'[f] = "reading" => \/ pc[f] = "reading"
                                         \/ \A r \in RM : \E m \in ToSet(applied'[r]) :
                                                Name(m) = <<f, sent[f]>>,
           \A r \in RM : ToSet(applied[r]) \subseteq ToSet(applied'[r])
    PROVE  NoneMissing'
  <1> SUFFICES ASSUME alive = RM, NEW r \in RM, NEW f \in FE, NEW k \in 1 .. sent[f],
                      ~(k = sent[f] /\ pc'[f] # "reading")
               PROVE  \E m \in ToSet(applied'[r]) : Name(m) = <<f, k>>
    BY DEF NoneMissing, Name
  <1>1. CASE k = sent[f] /\ pc[f] # "reading"
    BY <1>1
  <1>2. CASE ~(k = sent[f] /\ pc[f] # "reading")
    BY <1>2 DEF NoneMissing
  <1> QED
    BY <1>1, <1>2

(* The primary is done with a packet when every server has applied it.       *)
LEMMA NoneMissingStep == SInv /\ FInv /\ NoneMissing /\ [Next]_vars => NoneMissing'
  <1> SUFFICES ASSUME SInv, FInv, NoneMissing, [Next]_vars PROVE NoneMissing'
    OBVIOUS
  <1>1. /\ sent \in [FE -> Nat] /\ alive \subseteq RM /\ applied \in [RM -> Seq(Packet)]
        /\ Listeners
    BY DEF SInv, TypeOK
  <1>2. alive' # RM => NoneMissing'
    BY DEF NoneMissing
  <1>3. ASSUME UNCHANGED <<alive, sent, applied>>,
               \A f \in FE : pc'[f] = "reading" => pc[f] = "reading"
        PROVE  NoneMissing'
    BY <1>3, NoneMissingKept
  <1>4. ASSUME NEW f \in FE, ReadPacket(f) PROVE NoneMissing'
    <2>1. /\ pc[f] = "reading"
          /\ \A g \in FE : pc'[g] = IF g = f THEN "lock" ELSE pc[g]
          /\ \A g \in FE : sent'[g] = IF g = f THEN sent[f] + 1 ELSE sent[g]
          /\ UNCHANGED <<alive, applied>>
      BY <1>4, ReadPacketEffect
    <2> SUFFICES ASSUME alive = RM, NEW r \in RM, NEW g \in FE, NEW k \in 1 .. sent'[g],
                        ~(k = sent'[g] /\ pc'[g] # "reading")
                 PROVE  \E m \in ToSet(applied[r]) : Name(m) = <<g, k>>
      BY <2>1 DEF NoneMissing, Name
    <2>2. k \in 1 .. sent[g] /\ ~(k = sent[g] /\ pc[g] # "reading")
      BY <1>1, <2>1
    <2> QED
      BY <2>2 DEF NoneMissing
  <1>5. ASSUME NEW f \in FE, Lock(f) PROVE NoneMissing'
    BY <1>3, <1>5, LockEffect
  <1>6. ASSUME NEW f \in FE, SendToRm(f) PROVE NoneMissing'
    BY <1>3, <1>6, SendToRmEffect
  <1>7. ASSUME NEW f \in FE, ReadConfirmation(f) PROVE NoneMissing'
    <2>1. /\ \A g \in FE : pc'[g] = IF g = f THEN "replicate" ELSE pc[g]
          /\ UNCHANGED <<alive, sent, applied>>
      BY <1>7, ReadConfirmationEffect
    <2> QED
      BY <1>3, <2>1
  <1>8. ASSUME NEW f \in FE, ReadConfirmationFails(f) PROVE NoneMissing'
    <2>1. /\ \A g \in FE : pc'[g] = IF g = f THEN "replicate" ELSE pc[g]
          /\ UNCHANGED <<alive, sent, applied>>
      BY <1>8, ReadConfirmationFailsEffect
    <2> QED
      BY <1>3, <2>1
  <1>9. ASSUME NEW f \in FE, Unlock(f) PROVE NoneMissing'
    <2>1. /\ \A g \in FE : pc'[g] = pc[g] \/ pc'[g] \in {"ack", "process"}
          /\ UNCHANGED <<alive, sent, applied>>
      BY <1>9, UnlockEffect
    <2> QED
      BY <1>3, <2>1
  <1>10. ASSUME NEW f \in FE, SendAck(f) PROVE NoneMissing'
    BY <1>3, <1>10, SendAckEffect
  <1>11. ASSUME NEW f \in FE, ProcessPacket(f) PROVE NoneMissing'
    <2>1. /\ leader \in RM /\ pc[f] = "process" /\ packet[f] \in Packet
          /\ \A r \in RM : applied'[r] =
                 IF r = leader THEN Append(applied[r], packet[f]) ELSE applied[r]
          /\ \A g \in FE : pc'[g] = IF g = f THEN "reading" ELSE pc[g]
          /\ UNCHANGED <<alive, sent>>
      BY <1>11, ProcessPacketEffect
    <2>2. \A r \in RM : ToSet(applied'[r]) =
              IF r = leader THEN ToSet(applied[r]) \cup {packet[f]} ELSE ToSet(applied[r])
      <3>1. ToSet(Append(applied[leader], packet[f])) = ToSet(applied[leader]) \cup {packet[f]}
        <4>1. applied[leader] \in Seq(Packet)
          BY <1>1, <2>1
        <4> QED
          BY <2>1, <4>1, AppendItems
      <3> QED
        BY <2>1, <3>1
    <2>3. ASSUME alive = RM, NEW r \in RM
          PROVE  packet[f] \in ToSet(applied'[r]) /\ Name(packet[f]) = <<f, sent[f]>>
      <3>1. r # leader => Has(r, packet[f])
        BY <2>1, <2>3 DEF SInv, Replicated
      <3>2. packet[f].fe = f /\ packet[f].n = sent[f]
        BY <1>1, <2>1, <2>3 DEF FInv, Current, Listeners
      <3> QED
        BY <2>2, <3>1, <3>2 DEF Has, Name
    <2>4. \A g \in FE : pc'[g] = "reading" =>
              \/ pc[g] = "reading"
              \/ alive = RM => \A r \in RM : \E m \in ToSet(applied'[r]) : Name(m) = <<g, sent[g]>>
      BY <2>1, <2>3
    <2>5. \A r \in RM : ToSet(applied[r]) \subseteq ToSet(applied'[r])
      BY <2>2
    <2> QED
      BY <2>1, <2>4, <2>5, NoneMissingKept
  <1>12. ASSUME NEW r \in RM, NEW p \in RM, HandlerTop(r, p) \/ HandlerEof(r, p)
         PROVE  NoneMissing'
    BY <1>3, <1>12, HandlerIdleEffect DEF threads
  <1>13. ASSUME NEW r \in RM, NEW p \in RM, HandlerRead(r, p) PROVE NoneMissing'
    BY <1>3, <1>13, HandlerReadEffect DEF threads
  <1>14. ASSUME NEW r \in RM, NEW p \in RM, HandlerApply(r, p) PROVE NoneMissing'
    <2>0. PICK m : m = hand[r][p]
      OBVIOUS
    <2>1. /\ m \in Packet \cup {Confirmation}
          /\ \A a \in RM : applied'[a] =
                IF a = r /\ m # Confirmation THEN Append(applied[r], m) ELSE applied[a]
          /\ UNCHANGED <<alive, sent, pc>>
      BY <1>14, <2>0, HandlerApplyEffect DEF threads
    <2>2. m # Confirmation => ToSet(Append(applied[r], m)) = ToSet(applied[r]) \cup {m}
      <3>1. applied[r] \in Seq(Packet)
        BY <1>1
      <3> QED
        BY <2>1, <3>1, AppendItems
    <2>3. \A a \in RM : ToSet(applied[a]) \subseteq ToSet(applied'[a])
      BY <2>1, <2>2
    <2> QED
      BY <2>1, <2>3, NoneMissingKept
  <1>15. ASSUME NEW r \in RM, Crash(r) PROVE NoneMissing'
    BY <1>1, <1>2, <1>15, CrashEffect
  <1>16. ASSUME NEW r \in RM, Promote(r) PROVE NoneMissing'
    BY <1>3, <1>16 DEF Promote, threads
  <1>17. CASE UNCHANGED vars
    BY <1>3, <1>17 DEF vars
  <1> QED
    BY <1>4, <1>5, <1>6, <1>7, <1>8, <1>9, <1>10, <1>11, <1>12, <1>13, <1>14, <1>15, <1>16,
       <1>17 DEF Next, ListenerStep, HandlerStep

(* What the threads of r hold for it, when it is the primary.                *)
Held(r) == {Name(packet[f]) : f \in {g \in FE : r = leader /\ pc[g] \in {"ack", "process"}}}

Names(r) == {Name(m) : m \in ToSet(applied[r])}

(* A live server has what it has applied and what it holds.                  *)
LEMMA StoredIs ==
    ASSUME NEW r
    PROVE  Stored(r) = IF r \in alive THEN Names(r) \cup Held(r) ELSE {}
  BY DEF Stored, Names, Held

Stores == [r \in RM |-> Stored(r)]

(* The ids of what has been answered.                                        *)
Answers == {Name(m) : m \in answered}

(* A step that stores and answers nothing.                                   *)
LEMMA NothingStored ==
    ASSUME UNCHANGED <<alive, answered>>,
           \A r \in RM : ToSet(applied'[r]) = ToSet(applied[r]) /\ Held(r)' = Held(r)
    PROVE  Stores' = Stores /\ Answers' = Answers
  <1>1. ASSUME NEW r \in RM PROVE Stored(r)' = Stored(r)
    <2>1. Names(r)' = Names(r)
      BY DEF Names, Name
    <2>2. /\ Stored(r) = IF r \in alive THEN Names(r) \cup Held(r) ELSE {}
          /\ Stored(r)' = IF r \in alive' THEN Names(r)' \cup Held(r)' ELSE {}
      BY StoredIs DEF Stored, Names, Held, Name
    <2> QED
      BY <2>1, <2>2
  <1> QED
    BY <1>1 DEF Stores, Answers, Name

(* A server that stores a packet.                                            *)
LEMMA OneStored ==
    ASSUME NEW s \in alive, NEW f \in FE, NEW n \in 1 .. sent[f], alive \subseteq RM,
           UNCHANGED <<alive, sent, answered>>,
           alive = RM => \A k \in 1 .. n - 1 : <<f, k>> \in Stored(s),
           \A r \in RM : Names(r)' \cup Held(r)' =
               IF r = s THEN Names(r) \cup Held(r) \cup {<<f, n>>} ELSE Names(r) \cup Held(r)
    PROVE  Service!Next
  <1>1. ASSUME NEW r \in RM
        PROVE  Stored(r)' = IF r = s THEN Stored(r) \cup {<<f, n>>} ELSE Stored(r)
    <2>1. /\ Stored(r) = IF r \in alive THEN Names(r) \cup Held(r) ELSE {}
          /\ Stored(r)' = IF r \in alive' THEN Names(r)' \cup Held(r)' ELSE {}
      BY StoredIs DEF Stored, Names, Held, Name
    <2> QED
      BY <2>1
  <1>2. Stores' = [Stores EXCEPT ![s] = @ \cup {<<f, n>>}]
    BY <1>1 DEF Stores
  <1>3. Answers' = Answers
    BY DEF Answers, Name
  <1>4. alive = RM => \A k \in 1 .. n - 1 : <<f, k>> \in Stores[s]
    BY DEF Stores
  <1>5. s \in RM
    OBVIOUS
  <1>6. Service!Store(s, f, n)
    BY <1>2, <1>3, <1>4 DEF Service!Store, Stores, Answers
  <1> QED
    BY <1>5, <1>6 DEF Service!Next

(* A front end is answered what every live server has.                       *)
LEMMA OneAnswered ==
    ASSUME NEW f \in FE, NEW m \in Packet, Name(m) = <<f, m.n>>, m.n \in 1 .. sent[f],
           alive \subseteq RM, \A r \in alive : <<f, m.n>> \in Stored(r),
           Stores' = Stores, UNCHANGED <<alive, sent>>, answered' = answered \cup {m}
    PROVE  Service!Next
  <1>1. Answers' = Answers \cup {<<f, m.n>>}
    BY DEF Answers, Name
  <1>2. \A r \in alive : <<f, m.n>> \in Stores[r]
    BY DEF Stores
  <1>3. Service!Answer(f, m.n)
    BY <1>1, <1>2 DEF Service!Answer, Stores, Answers
  <1> QED
    BY <1>3 DEF Service!Next

(* The packet in a thread's hand is the last of its front end, and before    *)
(* the first crash the primary has all the earlier ones.                     *)
LEMMA InHand ==
    ASSUME SInv, FInv, VInv, NEW f \in FE, packet[f] \in Packet, pc[f] # "reading"
    PROVE  /\ Name(packet[f]) = <<f, packet[f].n>> /\ packet[f].n \in 1 .. sent[f]
           /\ alive = RM => \A r \in RM, k \in 1 .. packet[f].n - 1 : <<f, k>> \in Stored(r)
  <1>1. packet[f].fe = f
    BY DEF SInv, Listeners
  <1>2. packet[f].n \in 1 .. sent[f] /\ sent[f] \in Nat
    BY <1>1 DEF VInv, NoneForged, Genuine, SInv, TypeOK
  <1>3. ASSUME alive = RM, NEW r \in RM, NEW k \in 1 .. packet[f].n - 1
        PROVE  <<f, k>> \in Stored(r)
    <2>1. k \in 1 .. sent[f] /\ k # sent[f]
      BY <1>2
    <2>2. <<f, k>> \in Names(r)
      BY <1>3, <2>1 DEF VInv, NoneMissing, Names
    <2> QED
      BY <1>3, <2>2, StoredIs
  <1> QED
    BY <1>1, <1>2, <1>3 DEF Name

(* Each step is one of Replicas, or leaves it alone.                         *)
LEMMA ServiceStep == SInv /\ FInv /\ VInv /\ [Next]_vars => [Service!Next]_(Service!vars)
  <1> SUFFICES ASSUME SInv, FInv, VInv, [Next]_vars PROVE [Service!Next]_(Service!vars)
    OBVIOUS
  <1>1. /\ sent \in [FE -> Nat] /\ alive \subseteq RM /\ applied \in [RM -> Seq(Packet)]
        /\ (leader \in alive => leader \in RM)
        /\ Listeners
    BY DEF SInv, TypeOK
  <1>2. ASSUME UNCHANGED <<alive, sent>>, Stores' = Stores, Answers' = Answers
        PROVE  UNCHANGED Service!vars
    BY <1>2 DEF Service!vars, Stores, Answers
  <1>3. ASSUME UNCHANGED <<alive, sent, answered>>,
               \A r \in RM : ToSet(applied'[r]) = ToSet(applied[r]) /\ Held(r)' = Held(r)
        PROVE  UNCHANGED Service!vars
    BY <1>2, <1>3, NothingStored
  <1>4. ASSUME UNCHANGED <<alive, sent, answered, applied, packet, leader>>,
               \A g \in FE : pc'[g] = pc[g] \/ {pc[g], pc'[g]} \cap {"ack", "process"} = {}
        PROVE  UNCHANGED Service!vars
    <2>1. ASSUME NEW r \in RM PROVE Held(r)' = Held(r)
      BY <1>4 DEF Held, Name
    <2> QED
      BY <1>3, <1>4, <2>1
  <1>5. ASSUME NEW f \in FE, ReadPacket(f) PROVE Service!Next
    <2>1. /\ pc[f] = "reading"
          /\ \A g \in FE : pc'[g] = IF g = f THEN "lock" ELSE pc[g]
          /\ \A g \in FE : g # f => packet'[g] = packet[g]
          /\ UNCHANGED <<alive, leader, applied, answered>>
      BY <1>5, ReadPacketEffect
    <2>2. ASSUME NEW r \in RM PROVE Held(r)' = Held(r)
      BY <2>1 DEF Held, Name
    <2>3. Stores' = Stores /\ Answers' = Answers
      BY <2>1, <2>2, NothingStored
    <2>4. sent' = [sent EXCEPT ![f] = @ + 1]
      BY <1>5 DEF ReadPacket
    <2>5. Service!Send(f)
      BY <2>1, <2>3, <2>4 DEF Service!Send, Stores, Answers
    <2> QED
      BY <2>5 DEF Service!Next
  <1>6. ASSUME NEW f \in FE, Lock(f) PROVE UNCHANGED Service!vars
    BY <1>4, <1>6, LockEffect
  <1>7. ASSUME NEW f \in FE, SendToRm(f) PROVE UNCHANGED Service!vars
    BY <1>4, <1>7, SendToRmEffect
  <1>8. ASSUME NEW f \in FE, ReadConfirmation(f) PROVE UNCHANGED Service!vars
    <2>1. /\ pc[f] = "confirm" /\ \A g \in FE : pc'[g] = IF g = f THEN "replicate" ELSE pc[g]
          /\ UNCHANGED <<alive, sent, answered, applied, packet, leader>>
      BY <1>8, ReadConfirmationEffect
    <2> QED
      BY <1>4, <2>1
  <1>9. ASSUME NEW f \in FE, ReadConfirmationFails(f) PROVE UNCHANGED Service!vars
    <2>1. /\ pc[f] = "confirm" /\ \A g \in FE : pc'[g] = IF g = f THEN "replicate" ELSE pc[g]
          /\ UNCHANGED <<alive, sent, answered, applied, packet, leader>>
      BY <1>9, ReadConfirmationFailsEffect
    <2> QED
      BY <1>4, <2>1
  <1>10. ASSUME NEW f \in FE, Unlock(f) PROVE Service!Next
    <2>1. /\ leader \in alive /\ leader \in RM /\ pc[f] = "replicate"
          /\ pc'[f] \in {"ack", "process"}
          /\ \A g \in FE : g # f => pc'[g] = pc[g]
          /\ UNCHANGED <<alive, leader, applied, answered, sent, packet>>
      BY <1>10, UnlockEffect
    <2>2. packet[f] \in Packet
      BY <1>1, <2>1 DEF Listeners
    <2>3. /\ Name(packet[f]) = <<f, packet[f].n>> /\ packet[f].n \in 1 .. sent[f]
          /\ alive = RM => \A k \in 1 .. packet[f].n - 1 : <<f, k>> \in Stored(leader)
      BY <2>1, <2>2, InHand
    <2>4. ASSUME NEW r \in RM
          PROVE  Held(r)' = IF r = leader THEN Held(r) \cup {Name(packet[f])} ELSE Held(r)
      BY <2>1 DEF Held, Name
    <2>5. ASSUME NEW r \in RM PROVE Names(r)' = Names(r)
      BY <2>1 DEF Names, Name
    <2>6. ASSUME NEW r \in RM
          PROVE  Names(r)' \cup Held(r)' =
                     IF r = leader THEN Names(r) \cup Held(r) \cup {<<f, packet[f].n>>}
                     ELSE Names(r) \cup Held(r)
      BY <2>3, <2>4, <2>5
    <2> QED
      BY <1>1, <2>1, <2>3, <2>6, OneStored
  <1>11. ASSUME NEW f \in FE, SendAck(f) PROVE Service!Next
    <2>1. /\ leader \in alive /\ leader \in RM /\ pc[f] = "ack" /\ packet[f] \in Packet
          /\ answered' = answered \cup {packet[f]}
          /\ \A g \in FE : pc'[g] = IF g = f THEN "process" ELSE pc[g]
          /\ UNCHANGED <<alive, leader, applied, sent, packet>>
      BY <1>11, SendAckEffect
    <2>2. Name(packet[f]) = <<f, packet[f].n>> /\ packet[f].n \in 1 .. sent[f]
      BY <2>1, InHand
    <2>3. ASSUME NEW r \in alive PROVE Name(packet[f]) \in Stored(r)
      <3>1. CASE r = leader
        BY <2>1, <3>1, StoredIs DEF Held
      <3>2. CASE r # leader
        <4>1. Has(r, packet[f])
          BY <2>1, <3>2 DEF SInv, Replicated
        <4> QED
          BY <4>1, StoredIs DEF Names, Has
      <3> QED
        BY <3>1, <3>2
    <2>4. ASSUME NEW r \in RM PROVE Stored(r)' = Stored(r)
      BY <2>1 DEF Stored, Name
    <2>5. Stores' = Stores
      BY <2>4 DEF Stores
    <2> QED
      BY <1>1, <2>1, <2>2, <2>3, <2>5, OneAnswered
  <1>12. ASSUME NEW f \in FE, ProcessPacket(f) PROVE [Service!Next]_(Service!vars)
    <2>1. /\ leader \in alive /\ leader \in RM /\ pc[f] = "process" /\ packet[f] \in Packet
          /\ \A r \in RM : applied'[r] =
                 IF r = leader THEN Append(applied[r], packet[f]) ELSE applied[r]
          /\ \A g \in FE : packet'[g] = IF g = f THEN NoPacket ELSE packet[g]
          /\ \A g \in FE : pc'[g] = IF g = f THEN "reading" ELSE pc[g]
          /\ UNCHANGED <<alive, leader, sent>>
      BY <1>12, ProcessPacketEffect
    <2>2. answered' = answered \/ answered' = answered \cup {packet[f]}
      BY <1>12 DEF ProcessPacket
    <2>3. ASSUME NEW r \in RM
          PROVE  Names(r)' = IF r = leader THEN Names(r) \cup {Name(packet[f])} ELSE Names(r)
      <3>1. applied[r] \in Seq(Packet)
        BY <1>1
      <3>2. ToSet(Append(applied[r], packet[f])) = ToSet(applied[r]) \cup {packet[f]}
        BY <2>1, <3>1, AppendItems
      <3>3. ToSet(applied'[r]) =
                IF r = leader THEN ToSet(applied[r]) \cup {packet[f]} ELSE ToSet(applied[r])
        BY <2>1, <3>2
      <3> QED
        BY <3>3 DEF Names, Name
    <2>4. ASSUME NEW r \in RM
          PROVE  /\ Held(r)' \subseteq Held(r)
                 /\ Held(r) \subseteq Held(r)' \cup {Name(packet[f])}
                 /\ r = leader => Name(packet[f]) \in Held(r)
                 /\ r # leader => Held(r)' = Held(r)
      BY <2>1 DEF Held, Name
    <2>5. ASSUME NEW r \in RM PROVE Stored(r)' = Stored(r)
      <3>1. /\ Stored(r) = IF r \in alive THEN Names(r) \cup Held(r) ELSE {}
            /\ Stored(r)' = IF r \in alive' THEN Names(r)' \cup Held(r)' ELSE {}
        BY StoredIs DEF Stored, Names, Held, Name
      <3>2. Names(r)' \cup Held(r)' = Names(r) \cup Held(r)
        BY <2>3, <2>4
      <3> QED
        BY <2>1, <3>1, <3>2
    <2>6. Stores' = Stores
      BY <2>5 DEF Stores
    <2>7. CASE answered' = answered
      <3>1. Answers' = Answers
        BY <2>7 DEF Answers, Name
      <3> QED
        BY <1>2, <2>1, <2>6, <3>1
    <2>8. CASE answered' = answered \cup {packet[f]}
      <3>1. Name(packet[f]) = <<f, packet[f].n>> /\ packet[f].n \in 1 .. sent[f]
        BY <2>1, InHand
      <3>2. ASSUME NEW r \in alive PROVE Name(packet[f]) \in Stored(r)
        <4>1. CASE r = leader
          BY <2>1, <2>4, <4>1, StoredIs
        <4>2. CASE r # leader
          <5>1. Has(r, packet[f])
            BY <2>1, <4>2 DEF SInv, Replicated
          <5> QED
            BY <5>1, StoredIs DEF Names, Has
        <4> QED
          BY <4>1, <4>2
      <3> QED
        BY <1>1, <2>1, <2>6, <2>8, <3>1, <3>2, OneAnswered
    <2> QED
      BY <2>2, <2>7, <2>8
  <1>13. ASSUME NEW r \in RM, NEW p \in RM, HandlerTop(r, p) \/ HandlerEof(r, p)
         PROVE  UNCHANGED Service!vars
    BY <1>4, <1>13, HandlerIdleEffect DEF threads
  <1>14. ASSUME NEW r \in RM, NEW p \in RM, HandlerRead(r, p) PROVE UNCHANGED Service!vars
    BY <1>4, <1>14, HandlerReadEffect DEF threads
  <1>15. ASSUME NEW r \in RM, NEW p \in RM, HandlerApply(r, p)
         PROVE  [Service!Next]_(Service!vars)
    <2>0. PICK m : m = hand[r][p]
      OBVIOUS
    <2>1. /\ r \in alive /\ r # p /\ m \in Packet \cup {Confirmation} /\ m # NoPacket
          /\ \A a \in RM : applied'[a] =
                IF a = r /\ m # Confirmation THEN Append(applied[r], m) ELSE applied[a]
          /\ UNCHANGED <<alive, leader, answered, sent, threads>>
      BY <1>15, <2>0, HandlerApplyEffect, NotPackets
    <2>2. ASSUME NEW a \in RM PROVE Held(a)' = Held(a)
      BY <2>1 DEF Held, Name, threads
    <2>3. CASE m = Confirmation
      BY <1>3, <2>1, <2>2, <2>3
    <2>4. CASE m # Confirmation
      <3>1. /\ m \in Packet /\ m.fe \in FE /\ Name(m) = <<m.fe, m.n>> /\ m.n \in 1 .. sent[m.fe]
        BY <2>0, <2>1, <2>4 DEF VInv, NoneForged, Genuine, Name, Packet
      <3>2. ASSUME alive = RM PROVE \A k \in 1 .. m.n - 1 : <<m.fe, k>> \in Stored(r)
        <4>1. ~Nothing(p, r)
          BY <2>0, <2>1 DEF Nothing
        <4>2. PICK f \in FE :
                  /\ pc[f] = "confirm" /\ {p, r} = {leader, current[f]} /\ Nothing(r, p)
                  /\ \/ /\ p = leader /\ r = current[f] /\ Only(packet[f], p, r)
                     \/ Only(Confirmation, p, r) /\ Has(current[f], packet[f])
          BY <2>1, <3>2, <4>1, WhatIsRead
        <4>3. m = packet[f]
          BY <2>0, <2>1, <2>4, <4>2 DEF Only
        <4>4. m.fe = f
          BY <1>1, <4>2, <4>3 DEF Listeners
        <4> QED
          BY <3>1, <3>2, <4>2, <4>3, <4>4, InHand
      <3>3. ASSUME NEW a \in RM
            PROVE  Names(a)' = IF a = r THEN Names(a) \cup {Name(m)} ELSE Names(a)
        <4>1. applied[a] \in Seq(Packet)
          BY <1>1
        <4>2. ToSet(Append(applied[a], m)) = ToSet(applied[a]) \cup {m}
          BY <3>1, <4>1, AppendItems
        <4>3. ToSet(applied'[a]) = IF a = r THEN ToSet(applied[a]) \cup {m} ELSE ToSet(applied[a])
          BY <2>1, <2>4, <4>2
        <4> QED
          BY <4>3 DEF Names, Name
      <3>4. ASSUME NEW a \in RM
            PROVE  Names(a)' \cup Held(a)' =
                       IF a = r THEN Names(a) \cup Held(a) \cup {<<m.fe, m.n>>}
                       ELSE Names(a) \cup Held(a)
        BY <2>2, <3>1, <3>3
      <3>5. Service!Next
        BY <1>1, <2>1, <3>1, <3>2, <3>4, OneStored
      <3> QED
        BY <3>5
    <2> QED
      BY <2>3, <2>4
  <1>16. ASSUME NEW r \in RM, Crash(r) PROVE Service!Next
    <2>1. /\ r \in alive /\ alive' = alive \ {r}
          /\ IF r = leader THEN leader' = NoRM /\ IdleThreads' ELSE UNCHANGED <<leader, threads>>
          /\ UNCHANGED <<applied, answered, sent>>
      BY <1>16, CrashEffect
    <2>2. ASSUME NEW a \in RM, a # r PROVE Held(a)' = Held(a)
      <3>1. CASE r = leader
        BY <2>1, <2>2, <3>1, ConstantsAssumption DEF Held, ConstantsAssumption
      <3>2. CASE r # leader
        BY <2>1, <3>2 DEF Held, Name, threads
      <3> QED
        BY <3>1, <3>2
    <2>3. ASSUME NEW a \in RM PROVE Stored(a)' = IF a = r THEN {} ELSE Stored(a)
      <3>1. /\ Stored(a) = IF a \in alive THEN Names(a) \cup Held(a) ELSE {}
            /\ Stored(a)' = IF a \in alive' THEN Names(a)' \cup Held(a)' ELSE {}
        BY StoredIs DEF Stored, Names, Held, Name
      <3>2. Names(a)' = Names(a)
        BY <2>1 DEF Names, Name
      <3> QED
        BY <2>1, <2>2, <3>1, <3>2
    <2>4. Stores' = [Stores EXCEPT ![r] = {}]
      BY <2>3 DEF Stores
    <2>5. Answers' = Answers
      BY <2>1 DEF Answers, Name
    <2>6. Service!Crash(r)
      BY <2>1, <2>4, <2>5 DEF Service!Crash, Stores, Answers
    <2> QED
      BY <2>6 DEF Service!Next
  <1>17. ASSUME NEW r \in RM, Promote(r) PROVE UNCHANGED Service!vars
    <2>1. /\ leader = NoRM /\ UNCHANGED <<alive, applied, answered, sent, threads>>
          /\ \A f \in FE : pc[f] = "reading"
      BY <1>1, <1>17 DEF Promote, Listeners
    <2>2. ASSUME NEW a \in RM PROVE Held(a)' = Held(a)
      BY <2>1 DEF Held, threads
    <2> QED
      BY <1>3, <2>1, <2>2
  <1>18. CASE UNCHANGED vars
    BY <1>4, <1>18 DEF vars
  <1> QED
    BY <1>5, <1>6, <1>7, <1>8, <1>9, <1>10, <1>11, <1>12, <1>13, <1>14, <1>15, <1>16, <1>17,
       <1>18 DEF Next, ListenerStep, HandlerStep

(* The servers keep the promise of Replicas, through any number of crashes   *)
(* and promotions: a packet is answered when every live server has it, and   *)
(* until the first crash no server leaves one out (replicate, confirm,       *)
(* acknowledge and apply of listenFrontEndCommunication, and                 *)
(* handleRMCommunication).                                                   *)
THEOREM ImplementsReplicas == Spec => ServiceSpec
  <1>1. Init => VInv /\ FInv
    <2> SUFFICES ASSUME Init PROVE VInv /\ FInv
      OBVIOUS
    <2>1. FInv
      BY DEF Init, IdleThreads, FInv, Ordered, NoneNewer, Current
    <2>2. ToSet(<<>>) = {}
      BY DEF ToSet
    <2>3. NoneForged
      BY <2>2, NotPackets DEF Init, IdleThreads, NoneForged, Genuine
    <2>4. NoneMissing
      BY DEF Init, NoneMissing
    <2> QED
      BY <2>1, <2>3, <2>4 DEF VInv
  <1>2. Init => Service!Init
    <2> SUFFICES ASSUME Init PROVE Service!Init
      OBVIOUS
    <2>1. ToSet(<<>>) = {}
      BY DEF ToSet
    <2>2. ASSUME NEW r \in RM PROVE Stored(r) = {}
      BY <2>1 DEF Init, IdleThreads, Stored
    <2>3. Stores = [r \in RM |-> {}] /\ Answers = {}
      BY <2>2 DEF Stores, Answers, Init
    <2> QED
      BY <2>3 DEF Init, Service!Init, Stores, Answers
  <1>3. SInv /\ FInv /\ VInv /\ [Next]_vars => FInv' /\ VInv'
    BY FifoStep, NoneForgedStep, NoneMissingStep DEF VInv
  <1>4. Spec => [](SInv /\ FInv /\ VInv)
    BY <1>1, <1>3, SInvariance, PTL DEF Spec
  <1>5. Spec => [][Service!Next]_(Service!vars)
    BY <1>4, ServiceStep, PTL DEF Spec
  <1>6. Spec => Service!Init
    BY <1>2 DEF Spec
  <1> QED
    BY <1>5, <1>6 DEF ServiceSpec, Service!Spec
=============================================================================
