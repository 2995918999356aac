--------------------------- MODULE FrontEndProofs ---------------------------
(***************************************************************************)
(* Proofs about the front end (module FrontEnd), for any number of clients *)
(* and servers and any bound on the messages of a client: the types, no    *)
(* message overwritten in processing_message, usersMap and the descriptors *)
(* agree, no packet handled twice, and only what a primary has handled is  *)
(* acknowledged.                                                           *)
(*                                                                         *)
(* The inductive invariant comes in layers.  BInv is about the threads and *)
(* the two semaphores of the front end, PInv follows a packet on its way   *)
(* to the primary, and AInv the acknowledgement on its way back.           *)
(***************************************************************************)
EXTENDS FrontEnd, SequenceTheorems, FiniteSetTheorems, WellFoundedInduction, TLAPS

(* An item of a sequence, and an item that is there at most once.           *)
In(x, s) == \E i \in 1 .. Len(s) : s[i] = x
Once(x, s) == \A i, j \in 1 .. Len(s) : s[i] = x /\ s[j] = x => i = j

(* Sequences: what Append and Tail do to the items of a queue.              *)
LEMMA AppendItems ==
    ASSUME NEW S, NEW s \in Seq(S), NEW e \in S
    PROVE  /\ Append(s, e) \in Seq(S)
           /\ \A x : In(x, Append(s, e)) <=> In(x, s) \/ x = e
           /\ \A x : Once(x, s) /\ (x = e => ~In(x, s)) => Once(x, Append(s, e))
<1> DEFINE t == Append(s, e)
           n == Len(s)
<1>1. /\ t \in Seq(S) /\ n \in Nat /\ Len(t) = n + 1 /\ t[n + 1] = e
      /\ \A i \in 1 .. n : t[i] = s[i]
  BY AppendProperties, LenProperties
<1> HIDE DEF t
<1>2. \A x : In(x, t) <=> In(x, s) \/ x = e
  BY <1>1 DEF In
<1>3. ASSUME NEW x, Once(x, s), x = e => ~In(x, s) PROVE Once(x, t)
  BY <1>1, <1>3 DEF Once, In
<1>4. QED
  BY <1>1, <1>2, <1>3 DEF t

(* ... and what taking the head does to them.                               *)
LEMMA TailItems ==
    ASSUME NEW S, NEW s \in Seq(S), s # <<>>
    PROVE  /\ Head(s) \in S /\ Tail(s) \in Seq(S) /\ In(Head(s), s)
           /\ \A x : In(x, s) <=> x = Head(s) \/ In(x, Tail(s))
           /\ \A x : Once(x, s) => Once(x, Tail(s))
           /\ Once(Head(s), s) => ~In(Head(s), Tail(s))
<1> DEFINE t == Tail(s)
           h == Head(s)
           n == Len(s)
<1>1. /\ h \in S /\ t \in Seq(S) /\ n \in Nat \ {0} /\ Len(t) = n - 1 /\ h = s[1]
      /\ \A i \in 1 .. n - 1 : t[i] = s[i + 1]
  BY HeadTailProperties, EmptySeq, LenProperties
<1> HIDE DEF t, h
<1>2. \A i \in 2 .. n : s[i] = t[i - 1] /\ i - 1 \in 1 .. Len(t)
  BY <1>1
<1>3. In(h, s)
  BY <1>1 DEF In
<1>4. ASSUME NEW x PROVE In(x, s) <=> x = h \/ In(x, t)
  <2>1. ASSUME In(x, s) PROVE x = h \/ In(x, t)
    <3>1. PICK i \in 1 .. n : s[i] = x
      BY <2>1 DEF In
    <3>2. CASE i = 1
      BY <3>1, <3>2, <1>1
    <3>3. CASE i # 1
      BY <3>1, <3>3, <1>1, <1>2 DEF In
    <3>4. QED
      BY <3>2, <3>3
  <2>2. ASSUME In(x, t) PROVE In(x, s)
    BY <2>2, <1>1 DEF In
  <2>3. QED
    BY <1>3, <2>1, <2>2
<1>5. ASSUME NEW x, Once(x, s) PROVE Once(x, t)
  BY <1>1, <1>5 DEF Once
<1>6. Once(h, s) => ~In(h, t)
  BY <1>1 DEF Once, In
<1>7. QED
  BY <1>1, <1>3, <1>4, <1>5, <1>6 DEF t, h

-----------------------------------------------------------------------------
(* The inductive invariant, in layers.                                      *)

(* The router reads serverRM_socket.                                        *)
Connected == router \in {"read", "route", "shut", "close"}

(* Every open descriptor has one owner who knows it.                        *)
Descriptors ==
    /\ \A c \in Client : /\ sockOf[c] # 0 => fds[sockOf[c]] = c
                         /\ users[c] # 0 => users[c] = sockOf[c]
                         /\ listener[c] = "off" <=> sockOf[c] = 0
                         /\ listener[c] \in {"off", "close"} => users[c] = 0
                         /\ phase[c] = "off" => listener[c] = "off"
    /\ \A d \in Fd : /\ fds[d] \in Client => sockOf[fds[d]] = d
                     /\ fds[d] \in Server => d = serverRM /\ Connected

(* The threads of the server's connection take turns.                       *)
Turns ==
    /\ Connected => fds[serverRM] \in Server
    /\ down \/ reconnect = "accept" => router = "off"
    /\ reconnect = "accept" => ~down
    /\ ~primaryUp => primary < MaxServers

(* A client sends nothing before the server has accepted it.                *)
SentLater == \A c \in Client : phase[c] \in {"off", "joining"} => sent[c] = 0

(* What a client's thread holds, by where it is.                            *)
Hands ==
    \A c \in Client :
        /\ listener[c] \in {"wait", "put"} => hand[c].kind = "MESSAGE"
        /\ listener[c] \in {"send", "shut"} => hand[c].kind \in {"JOIN", "DISCONNECT"}
        /\ listener[c] \notin {"wait", "put", "send", "shut"} => hand[c] = NoPacket
        /\ hand[c] # NoPacket => hand[c].user = c
        /\ \A i \in 1 .. Len(inbound[c]) :
               inbound[c][i].user = c /\ inbound[c][i].kind \in {"JOIN", "MESSAGE"}

(* processing_message is in use.                                            *)
Pending == posted \/ consumer \in {"send", "shut"}

(* One thread at a time uses processing_message, ...                        *)
OneProducer ==
    /\ \A c \in Client : listener[c] = "put" =>
           /\ ~free /\ ~posted /\ consumer = "asleep"
           /\ \A d \in Client : listener[d] = "put" => d = c
    /\ posted => ~free /\ consumer = "asleep"
    /\ consumer # "asleep" => ~free
    (* ... and until it is put there, the message before has been written.   *)
    /\ IF Pending THEN slot # NoPacket ELSE slot = NoPacket \/ slot \in forwarded

BInv == TypeOK /\ Descriptors /\ Turns /\ SentLater /\ Hands /\ OneProducer

(* Every nonempty set of naturals has a least element.                      *)
LEMMA LeastNumber ==
    ASSUME NEW T, T \subseteq Nat, T # {}
    PROVE  \E x \in T : \A y \in T : x <= y
<1>1. OpToRel(<, Nat) = {ss \in Nat \X Nat : ss[1] < ss[2]}
  BY Zenon DEF OpToRel
<1>2. \E x \in T : \A y \in T : <<y, x>> \notin OpToRel(<, Nat)
  BY NatLessThanWellFounded, WFMin
<1>3. \E x \in T : \A y \in T : <<y, x>> \notin {ss \in Nat \X Nat : ss[1] < ss[2]}
  BY <1>1, <1>2, Zenon
<1>4. PICK x \in T : \A y \in T : <<y, x>> \notin {ss \in Nat \X Nat : ss[1] < ss[2]}
  BY <1>3
<1>5. ASSUME NEW y \in T PROVE x <= y
  <2>1. x \in Nat /\ y \in Nat
    BY <1>4
  <2>2. SUFFICES ASSUME y < x PROVE FALSE
    BY <2>1
  <2>3. <<y, x>> \in Nat \X Nat /\ <<y, x>>[1] = y /\ <<y, x>>[2] = x
    BY <2>1
  <2>4. <<y, x>> \in {ss \in Nat \X Nat : ss[1] < ss[2]}
    BY <2>2, <2>3
  <2>5. QED
    BY <1>4, <2>4
<1>6. QED
  BY <1>4, <1>5

(* A descriptor is free whenever a connection is accepted: the open ones    *)
(* have different owners, and a client or the server is without one.        *)
LEMMA FreeDescriptor ==
    ASSUME TypeOK, Descriptors, (\E c \in Client : sockOf[c] = 0) \/ ~Connected
    PROVE  LowestFree \in Fd /\ fds[LowestFree] = Nothing
<1> USE ConstantsAssumption
<1> DEFINE Free == {d \in Fd : fds[d] = Nothing}
           N == Cardinality(Client)
<1>1. N \in Nat /\ IsFiniteSet(Fd) /\ Cardinality(Fd) = N + 1 /\ Fd \subseteq Nat
  <2>1. N \in Nat
    BY FS_CardinalityType
  <2>2. IsFiniteSet(1 .. N + 1) /\ Cardinality(1 .. N + 1) = N + 1
    <3>1. 1 \in Int /\ N + 1 \in Int /\ ~(1 > N + 1) /\ (N + 1) - 1 + 1 = N + 1
      BY <2>1
    <3>2. Cardinality(1 .. N + 1) = IF 1 > N + 1 THEN 0 ELSE (N + 1) - 1 + 1
      BY <3>1, FS_Interval
    <3>3. IsFiniteSet(1 .. N + 1)
      BY <3>1, FS_Interval
    <3>4. QED
      BY <3>1, <3>2, <3>3
  <2>3. QED
    BY <2>1, <2>2 DEF Fd
<1>2. Free # {}
  <2>1. SUFFICES ASSUME Free = {} PROVE FALSE
    OBVIOUS
  <2>2. \A d, e \in Fd : fds[d] = fds[e] => d = e
    BY <2>1 DEF TypeOK, SocketTypes, ReaderTypes, Descriptors
  <2>3. \E T : IsFiniteSet(T) /\ Cardinality(T) <= N /\ fds \in [Fd -> T]
    <3>1. CASE ~Connected
      BY <1>1, <2>1, <3>1 DEF TypeOK, SocketTypes, ReaderTypes, Descriptors
    <3>2. ASSUME NEW c \in Client, sockOf[c] = 0
          PROVE  \E T : IsFiniteSet(T) /\ Cardinality(T) <= N /\ fds \in [Fd -> T]
      <4> DEFINE T == (Client \ {c}) \cup {fds[serverRM]}
      <4>1. \A d \in Fd : fds[d] \in T
        <5>1. SUFFICES ASSUME NEW d \in Fd PROVE fds[d] \in T
          OBVIOUS
        <5>2. 0 \notin Fd
          BY <1>1 DEF Fd
        <5>3. CASE fds[d] \in Client
          BY <3>2, <5>2, <5>3 DEF Descriptors
        <5>4. CASE fds[d] \in Server
          BY <5>4 DEF Descriptors
        <5>5. QED
          BY <2>1, <5>3, <5>4 DEF TypeOK, SocketTypes, ReaderTypes
      <4>2. IsFiniteSet(Client \ {c}) /\ Cardinality(Client \ {c}) = N - 1
        BY <3>2, FS_RemoveElement
      <4>3. IsFiniteSet(T) /\ Cardinality(T) <= N
        <5> DEFINE C == Client \ {c}
        <5>1. /\ IsFiniteSet(C \cup {fds[serverRM]})
              /\ Cardinality(C \cup {fds[serverRM]}) =
                   IF fds[serverRM] \in C THEN Cardinality(C) ELSE Cardinality(C) + 1
          BY <4>2, FS_AddElement
        <5>2. QED
          BY <1>1, <4>2, <5>1
      <4>4. fds \in [Fd -> T]
        BY <4>1 DEF TypeOK, SocketTypes, ReaderTypes
      <4>5. QED
        BY <4>3, <4>4
    <3>3. QED
      BY <3>1, <3>2
  <2>4. PICK T : IsFiniteSet(T) /\ Cardinality(T) <= N /\ fds \in [Fd -> T]
    BY <2>3
  <2>5. Cardinality(T) < Cardinality(Fd)
    BY <1>1, <2>4, FS_CardinalityType
  <2>6. \E d, e \in Fd : d # e /\ fds[d] = fds[e]
    <3>1. IsFiniteSet(Fd) /\ IsFiniteSet(T) /\ fds \in [Fd -> T]
      BY <1>1, <2>4
    <3>2. QED
      BY ONLY <2>5, <3>1, FS_PigeonHole
  <2>7. QED
    BY <2>2, <2>6
<1>3. \E d \in Free : \A e \in Free : d <= e
  BY <1>1, <1>2, LeastNumber
<1>4. QED
  BY <1>3 DEF LowestFree

(* What a successful write does to the primary's queue.                     *)
LEMMA WriteEffect ==
    ASSUME ServerTypes, NEW p \in Packet, WriteOk(p)
    PROVE  /\ toServer' \in Seq(Packet)
           /\ \/ toServer' = toServer
              \/ /\ \A x : In(x, toServer') <=> In(x, toServer) \/ x = p
                 /\ \A x : Once(x, toServer) /\ (x = p => ~In(x, toServer)) => Once(x, toServer')
<1>1. toServer \in Seq(Packet) /\ (toServer' = toServer \/ toServer' = Append(toServer, p))
  BY DEF ServerTypes, WriteOk
<1>2. CASE toServer' = toServer
  BY <1>1, <1>2
<1>3. CASE toServer' = Append(toServer, p)
  BY <1>1, <1>3, AppendItems
<1>4. QED
  BY <1>1, <1>2, <1>3

(* What a client may put on its connection.                                 *)
LEMMA NewPackets ==
    ASSUME ClientTypes, NEW c \in Client
    PROVE  /\ sent[c] \in Nat /\ inbound[c] \in Seq(Packet)
           /\ Join(c) \in Packet /\ Text(c, sent[c] + 1) \in Packet /\ Disconnect(c) \in Packet
<1>1. sent[c] \in Nat /\ sent[c] + 1 \in Nat /\ inbound[c] \in Seq(Packet)
  BY DEF ClientTypes
<1>2. QED
  BY <1>1 DEF Text, Join, Disconnect, Packet

(* No descriptor is 0, which stands for none.                               *)
LEMMA NotADescriptor == 0 \notin Fd
  BY ConstantsAssumption, FS_CardinalityType DEF Fd

(* Every step keeps BInv: one step of the proof for each action.             *)
LEMMA BInvStep == BInv /\ [Next]_vars => BInv'
<1> SUFFICES ASSUME BInv, [Next]_vars PROVE BInv'
  OBVIOUS
<1> USE ConstantsAssumption DEF BInv, clients, servers, sockets, readers, forward, routing, TypeOK
<1>1. ASSUME NEW c \in Client, ClientConnect(c)
      PROVE  BInv'
  <2>1. LowestFree \in Fd /\ fds[LowestFree] = Nothing
    BY <1>1, FreeDescriptor DEF ClientConnect, Descriptors
  <2>2. ClientTypes'
    BY <1>1, <2>1 DEF ClientConnect, ClientTypes, Join, Packet
  <2>3. SocketTypes'
    BY <1>1, <2>1 DEF ClientConnect, SocketTypes
  <2>4. ReaderTypes'
    BY <1>1, <2>1 DEF ClientConnect, ReaderTypes
  <2>5. ServerTypes' /\ ForwardTypes' /\ RoutingTypes'
    BY <1>1 DEF ClientConnect, ServerTypes, ForwardTypes, RoutingTypes
  <2>6. Descriptors'
    <3> DEFINE d == LowestFree
    <3>1. /\ phase[c] = "off" /\ listener[c] = "off" /\ sockOf[c] = 0 /\ users[c] = 0
          /\ d \in Fd /\ fds[d] = Nothing /\ d # 0
      BY <1>1, <2>1, NotADescriptor DEF ClientConnect, Descriptors
    <3>2. /\ phase' = [phase EXCEPT ![c] = "joining"]
          /\ fds' = [fds EXCEPT ![d] = c]
          /\ sockOf' = [sockOf EXCEPT ![c] = d]
          /\ listener' = [listener EXCEPT ![c] = "read"]
          /\ UNCHANGED <<users, serverRM, router>>
      BY <1>1 DEF ClientConnect
    <3> HIDE DEF d
    <3>3. \A e \in Client : sockOf[e] # d
      BY <3>1 DEF Descriptors
    <3>4. \A e \in Fd : fds'[e] = IF e = d THEN c ELSE fds[e]
      BY <3>1, <3>2 DEF SocketTypes
    <3>5. \A e \in Client :
             /\ sockOf'[e] = (IF e = c THEN d ELSE sockOf[e]) /\ users'[e] = users[e]
             /\ listener'[e] = (IF e = c THEN "read" ELSE listener[e])
             /\ phase'[e] = (IF e = c THEN "joining" ELSE phase[e])
      BY <3>2 DEF ClientTypes, ReaderTypes
    <3>6. \A e \in Client : sockOf[e] # 0 => sockOf[e] \in Fd
      BY DEF ReaderTypes
    <3>7. \A e \in Fd : fds[e] \in Client => fds[e] # c
      BY <3>1, NotADescriptor DEF Descriptors
    <3>8. QED
      BY <3>1, <3>2, <3>3, <3>4, <3>5, <3>6, <3>7 DEF Descriptors, Connected
  <2>7. Turns'
    BY <1>1, <2>1 DEF ClientConnect, Turns, Connected, SocketTypes
  <2>8. SentLater'
    BY <1>1, <2>1 DEF ClientConnect, SentLater, ClientTypes
  <2>9. Hands'
    BY <1>1 DEF ClientConnect, Descriptors, Hands, ClientTypes, ReaderTypes, Join
  <2>10. OneProducer'
    BY <1>1, <2>1 DEF ClientConnect, OneProducer, Pending, ReaderTypes, ForwardTypes, NoPacket
  <2>11. QED
    BY <2>2, <2>3, <2>4, <2>5, <2>6, <2>7, <2>8, <2>9, <2>10
<1>2. ASSUME NEW c \in Client, ClientSend(c)
      PROVE  BInv'
  <2>1. ClientTypes'
    BY <1>2 DEF ClientSend, ClientTypes, Text, Packet
  <2>2. ServerTypes' /\ SocketTypes' /\ ReaderTypes' /\ ForwardTypes' /\ RoutingTypes'
    BY <1>2 DEF ClientSend, ServerTypes, SocketTypes, ReaderTypes, ForwardTypes, RoutingTypes
  <2>3. SentLater'
    BY <1>2 DEF ClientSend, SentLater, ClientTypes
  <2>4. Hands'
    <3>1. Text(c, sent[c] + 1) \in Packet /\ inbound[c] \in Seq(Packet)
      BY NewPackets
    <3>2. /\ Len(inbound'[c]) = Len(inbound[c]) + 1 /\ Len(inbound[c]) \in Nat
          /\ inbound'[c][Len(inbound[c]) + 1] = Text(c, sent[c] + 1)
          /\ \A i \in 1 .. Len(inbound[c]) : inbound'[c][i] = inbound[c][i]
      BY <1>2, <3>1, AppendProperties, LenProperties DEF ClientSend, ClientTypes
    <3>3. \A e \in Client : e # c => inbound'[e] = inbound[e]
      BY <1>2 DEF ClientSend, ClientTypes
    <3>4. UNCHANGED <<listener, hand>>
      BY <1>2 DEF ClientSend
    <3>5. \A i \in 1 .. Len(inbound'[c]) :
             inbound'[c][i].user = c /\ inbound'[c][i].kind \in {"JOIN", "MESSAGE"}
      <4>1. SUFFICES ASSUME NEW i \in 1 .. Len(inbound'[c])
                     PROVE  inbound'[c][i].user = c /\ inbound'[c][i].kind \in {"JOIN", "MESSAGE"}
        OBVIOUS
      <4>2. CASE i = Len(inbound[c]) + 1
        BY <3>2, <4>2 DEF Text
      <4>3. CASE i \in 1 .. Len(inbound[c])
        BY <3>2, <4>3 DEF Hands
      <4>4. QED
        BY <3>2, <4>2, <4>3
    <3>6. QED
      BY <3>3, <3>4, <3>5 DEF Hands
  <2>5. Descriptors' /\ Turns' /\ OneProducer'
    BY <1>2 DEF ClientSend, Descriptors, Connected, Turns, Connected, OneProducer, Pending
  <2>6. QED
    BY <2>1, <2>2, <2>3, <2>4, <2>5
<1>3. ASSUME NEW c \in Client, ClientProceed(c)
      PROVE  BInv'
  <2>1. ClientTypes'
    BY <1>3 DEF ClientProceed, ClientTypes
  <2>2. ServerTypes' /\ SocketTypes' /\ ReaderTypes' /\ ForwardTypes' /\ RoutingTypes'
    BY <1>3 DEF ClientProceed, ServerTypes, SocketTypes, ReaderTypes, ForwardTypes, RoutingTypes
  <2>3. SentLater'
    BY <1>3 DEF ClientProceed, SentLater, ClientTypes
  <2>4. Descriptors' /\ Turns' /\ Hands' /\ OneProducer'
    BY <1>3 DEF ClientProceed, Descriptors, Connected, Turns, Connected, Hands, OneProducer, Pending
  <2>5. QED
    BY <2>1, <2>2, <2>3, <2>4
<1>4. ASSUME NEW c \in Client, ClientLeaves(c) \/ ClientLosesFE(c)
      PROVE  BInv'
  <2>1. ClientTypes'
    BY <1>4 DEF ClientLeaves, ClientLosesFE, ClientTypes
  <2>2. ServerTypes' /\ SocketTypes' /\ ReaderTypes' /\ ForwardTypes' /\ RoutingTypes'
    BY <1>4
    DEF ClientLeaves, ClientLosesFE, ServerTypes, SocketTypes, ReaderTypes, ForwardTypes, RoutingTypes
  <2>3. SentLater'
    BY <1>4 DEF ClientLeaves, ClientLosesFE, SentLater, ClientTypes
  <2>4. Descriptors'
    BY <1>4 DEF ClientLeaves, ClientLosesFE, Descriptors, Connected, ClientTypes
  <2>5. Turns' /\ Hands' /\ OneProducer'
    BY <1>4 DEF ClientLeaves, ClientLosesFE, Turns, Connected, Hands, OneProducer, Pending
  <2>6. QED
    BY <2>1, <2>2, <2>3, <2>4, <2>5
<1>5. CASE ServerDies \/ ServerLosesFE
  <2>1. ServerTypes'
    BY <1>5, EmptySeq DEF ServerDies, ServerLosesFE, ServerTypes
  <2>2. ClientTypes' /\ SocketTypes' /\ ReaderTypes' /\ ForwardTypes' /\ RoutingTypes'
    BY <1>5 DEF ServerDies, ServerLosesFE, ClientTypes, SocketTypes, ReaderTypes, ForwardTypes, RoutingTypes
  <2>3. Descriptors' /\ Turns' /\ SentLater' /\ Hands' /\ OneProducer'
    BY <1>5
    DEF ServerDies, ServerLosesFE, Descriptors, Connected, Turns, SentLater, Hands,
        OneProducer, Pending
  <2>4. QED
    BY <2>1, <2>2, <2>3
<1>6. CASE NewPrimary
  <2>1. ServerTypes'
    BY <1>6 DEF NewPrimary, ServerTypes, Turns, Server
  <2>2. SocketTypes'
    BY <1>6 DEF NewPrimary, SocketTypes, ServerTypes, Server
  <2>3. ClientTypes' /\ ReaderTypes' /\ ForwardTypes' /\ RoutingTypes'
    BY <1>6 DEF NewPrimary, ClientTypes, ReaderTypes, ForwardTypes, RoutingTypes
  <2>4. Descriptors' /\ Turns' /\ SentLater' /\ Hands' /\ OneProducer'
    BY <1>6
    DEF NewPrimary, Descriptors, Connected, Turns, Connected, SentLater, Hands, OneProducer,
        Pending
  <2>5. QED
    BY <2>1, <2>2, <2>3, <2>4
<1>7. CASE ServerHandles
  <2>1. Head(toServer) \in Packet /\ Tail(toServer) \in Seq(Packet)
    BY <1>7, HeadTailProperties DEF ServerHandles, ServerTypes
  <2>2. ServerTypes'
    <3>1. primary' \in Server /\ primaryUp' \in BOOLEAN /\ toServer' \in Seq(Packet) /\ handled' \subseteq Packet
      BY <1>7, <2>1 DEF ServerHandles, ServerTypes
    <3>2. \A a \in Answers(Head(toServer)) : a \in Reply
      BY <2>1 DEF Answers, Packet, Reply
    <3>3. fromServer' \in Seq(Reply)
      <4>1. \/ fromServer' = fromServer
            \/ \E a \in Answers(Head(toServer)) : fromServer' = Append(fromServer, a)
        BY <1>7 DEF ServerHandles, Answer
      <4>2. fromServer \in Seq(Reply)
        BY DEF ServerTypes
      <4>3. QED
        BY <3>2, <4>1, <4>2, AppendProperties
    <3>4. QED
      BY <3>1, <3>3 DEF ServerTypes
  <2>3. ClientTypes' /\ SocketTypes' /\ ReaderTypes' /\ ForwardTypes' /\ RoutingTypes'
    BY <1>7 DEF ServerHandles, ClientTypes, SocketTypes, ReaderTypes, ForwardTypes, RoutingTypes
  <2>4. UNCHANGED <<clients, primary, primaryUp, sockets, readers, forward, routing>>
    BY <1>7 DEF ServerHandles
  <2>5. Descriptors' /\ Turns' /\ SentLater'
    BY <2>4 DEF Descriptors, Connected, Turns, SentLater
  <2>6. Hands' /\ OneProducer'
    BY <2>4 DEF Hands, OneProducer, Pending
  <2>7. QED
    BY <2>2, <2>3, <2>5, <2>6
<1>8. ASSUME NEW c \in Client, ReadClient(c)
      PROVE  BInv'
  <2>1. /\ Head(inbound[c]) \in Packet /\ Tail(inbound[c]) \in Seq(Packet)
        /\ Head(inbound[c]) = inbound[c][1] /\ Len(inbound[c]) \in Nat \ {0}
        /\ Len(Tail(inbound[c])) = Len(inbound[c]) - 1
        /\ \A i \in 1 .. Len(Tail(inbound[c])) : Tail(inbound[c])[i] = inbound[c][i + 1]
    BY <1>8, HeadTailProperties, EmptySeq DEF ReadClient, ClientTypes
  <2>2. ClientTypes'
    BY <1>8, <2>1 DEF ReadClient, RegisterUserSocket, ClientTypes
  <2>3. ReaderTypes'
    <3>1. /\ \E l \in {"send", "wait"} : listener' = [listener EXCEPT ![c] = l]
          /\ hand' = [hand EXCEPT ![c] = Head(inbound[c])]
          /\ users' \in {users, [users EXCEPT ![c] = sockOf[c]]}
          /\ UNCHANGED <<sockOf, target>>
      BY <1>8 DEF ReadClient, RegisterUserSocket
    <3>2. /\ listener' \in [Client -> {"off", "read", "send", "shut", "wait", "put", "unmap", "close"}]
          /\ hand' \in [Client -> Packet \cup {NoPacket}]
      BY <2>1, <3>1 DEF ReaderTypes
    <3>3. users' \in [Client -> Fd \cup {0}]
      BY <3>1 DEF ReaderTypes
    <3>4. QED
      BY <3>1, <3>2, <3>3 DEF ReaderTypes
  <2>4. ServerTypes' /\ SocketTypes' /\ ForwardTypes' /\ RoutingTypes'
    BY <1>8 DEF ReadClient, RegisterUserSocket, ServerTypes, SocketTypes, ForwardTypes, RoutingTypes
  <2>5. Descriptors'
    BY <1>8, <2>1
    DEF ReadClient, RegisterUserSocket, Descriptors, Connected, ClientTypes, SocketTypes,
        ReaderTypes
  <2>6. Hands'
    <3>1. /\ hand' = [hand EXCEPT ![c] = inbound[c][1]]
          /\ inbound' = [inbound EXCEPT ![c] = Tail(inbound[c])]
          /\ listener' \in {[listener EXCEPT ![c] = "send"], [listener EXCEPT ![c] = "wait"]}
          /\ listener'[c] = "send" => inbound[c][1].kind = "JOIN"
          /\ listener'[c] = "wait" => inbound[c][1].kind = "MESSAGE"
      <4>1. Head(inbound[c]) = inbound[c][1]
        BY <2>1
      <4>2. QED
        BY <1>8, <4>1 DEF ReadClient, ReaderTypes
    <3>2. inbound[c][1].user = c
      <4>1. 1 \in 1 .. Len(inbound[c])
        BY <2>1
      <4>2. \A i \in 1 .. Len(inbound[c]) : inbound[c][i].user = c
        BY DEF Hands
      <4>3. QED
        BY <4>1, <4>2
    <3>3. \A i \in 1 .. Len(inbound'[c]) : i + 1 \in 1 .. Len(inbound[c]) /\ inbound'[c][i] = inbound[c][i + 1]
      BY <2>1, <3>1 DEF ClientTypes
    <3>4. \A i \in 1 .. Len(inbound'[c]) : inbound'[c][i].user = c /\ inbound'[c][i].kind \in {"JOIN", "MESSAGE"}
      <4>1. \A i \in 1 .. Len(inbound[c]) : inbound[c][i].user = c /\ inbound[c][i].kind \in {"JOIN", "MESSAGE"}
        BY DEF Hands
      <4>2. QED
        BY <3>3, <4>1
    <3>5. QED
      BY <3>1, <3>2, <3>4 DEF Hands, ClientTypes, ReaderTypes
  <2>7. OneProducer'
    BY <1>8, <2>1
    DEF ReadClient, RegisterUserSocket, OneProducer, Pending, ReaderTypes, ForwardTypes,
        NoPacket
  <2>8. Turns' /\ SentLater'
    BY <1>8 DEF ReadClient, RegisterUserSocket, Turns, Connected, SentLater
  <2>9. QED
    BY <2>2, <2>3, <2>4, <2>5, <2>6, <2>7, <2>8
<1>9. ASSUME NEW c \in Client, ClientEof(c)
      PROVE  BInv'
  <2>1. ReaderTypes'
    BY <1>9 DEF ClientEof, ReaderTypes, Disconnect, Packet
  <2>2. ClientTypes' /\ ServerTypes' /\ SocketTypes' /\ ForwardTypes' /\ RoutingTypes'
    BY <1>9 DEF ClientEof, ClientTypes, ServerTypes, SocketTypes, ForwardTypes, RoutingTypes
  <2>3. Descriptors'
    BY <1>9 DEF ClientEof, Descriptors, Connected, ClientTypes, SocketTypes, ReaderTypes
  <2>4. Hands'
    BY <1>9 DEF ClientEof, Hands, ClientTypes, ReaderTypes, Disconnect
  <2>5. OneProducer'
    BY <1>9 DEF ClientEof, OneProducer, Pending, ReaderTypes, ForwardTypes, NoPacket
  <2>6. Turns' /\ SentLater'
    BY <1>9 DEF ClientEof, Turns, Connected, SentLater
  <2>7. QED
    BY <2>1, <2>2, <2>3, <2>4, <2>5, <2>6
<1>10. ASSUME NEW c \in Client, SendDirect(c)
      PROVE  BInv'
  <2>1. ServerTypes'
    <3>1. hand[c] \in Packet
      BY <1>10 DEF SendDirect, Hands, ReaderTypes, NoPacket
    <3>2. toServer' \in Seq(Packet)
      BY <1>10, <3>1, WriteEffect DEF SendDirect, WriteFails, ServerTypes
    <3>3. QED
      BY <1>10, <3>2 DEF SendDirect, ServerTypes
  <2>2. SocketTypes'
    BY <1>10 DEF SendDirect, WriteOk, WriteFails, SocketTypes
  <2>3. ReaderTypes'
    <3>1. /\ UNCHANGED <<sockOf, users>>
          /\ \E l \in {"read", "unmap", "shut"} : listener' = [listener EXCEPT ![c] = l]
          /\ \/ hand' = [hand EXCEPT ![c] = NoPacket] /\ target' = target
             \/ hand' = hand /\ target' = [target EXCEPT ![c] = serverRM]
      BY <1>10 DEF SendDirect
    <3>2. QED
      BY <3>1 DEF ReaderTypes, SocketTypes
  <2>4. ClientTypes' /\ ForwardTypes' /\ RoutingTypes'
    BY <1>10 DEF SendDirect, WriteOk, WriteFails, ClientTypes, ForwardTypes, RoutingTypes
  <2>5. Descriptors'
    BY <1>10
    DEF SendDirect, WriteOk, WriteFails, Descriptors, Connected, ClientTypes, SocketTypes,
        ReaderTypes
  <2>6. Hands'
    <3>1. /\ listener[c] = "send" /\ inbound' = inbound
          /\ \/ /\ hand' = [hand EXCEPT ![c] = NoPacket]
                /\ listener' = [listener EXCEPT ![c] = IF hand[c].kind = "JOIN" THEN "read" ELSE "unmap"]
             \/ hand' = hand /\ listener' = [listener EXCEPT ![c] = "shut"]
      BY <1>10 DEF SendDirect
    <3>2. QED
      BY <3>1 DEF Hands, ReaderTypes, NoPacket
  <2>7. OneProducer'
    BY <1>10
    DEF SendDirect, WriteOk, WriteFails, OneProducer, Pending, ReaderTypes, ForwardTypes,
        NoPacket
  <2>8. Turns' /\ SentLater'
    BY <1>10 DEF SendDirect, WriteOk, WriteFails, Turns, Connected, SentLater
  <2>9. QED
    BY <2>1, <2>2, <2>3, <2>4, <2>5, <2>6, <2>7, <2>8
<1>11. ASSUME NEW c \in Client, WaitSlot(c)
      PROVE  BInv'
  <2>1. ReaderTypes'
    BY <1>11 DEF WaitSlot, ReaderTypes
  <2>2. ForwardTypes'
    BY <1>11 DEF WaitSlot, ForwardTypes
  <2>3. ClientTypes' /\ ServerTypes' /\ SocketTypes' /\ RoutingTypes'
    BY <1>11 DEF WaitSlot, ClientTypes, ServerTypes, SocketTypes, RoutingTypes
  <2>4. Descriptors'
    BY <1>11 DEF WaitSlot, Descriptors, Connected, ClientTypes, SocketTypes, ReaderTypes
  <2>5. Hands'
    BY <1>11 DEF WaitSlot, Hands, ClientTypes, ReaderTypes, Packet, NoPacket
  <2>6. OneProducer'
    BY <1>11 DEF WaitSlot, OneProducer, Pending, ReaderTypes, ForwardTypes, NoPacket
  <2>7. Turns' /\ SentLater'
    BY <1>11 DEF WaitSlot, Turns, Connected, SentLater
  <2>8. QED
    BY <2>1, <2>2, <2>3, <2>4, <2>5, <2>6, <2>7
<1>12. ASSUME NEW c \in Client, PutMessage(c)
      PROVE  BInv'
  <2>1. ReaderTypes'
    BY <1>12 DEF PutMessage, ReaderTypes
  <2>2. ForwardTypes'
    BY <1>12 DEF PutMessage, ForwardTypes, ReaderTypes, Hands, NoPacket
  <2>3. ClientTypes' /\ ServerTypes' /\ SocketTypes' /\ RoutingTypes'
    BY <1>12 DEF PutMessage, ClientTypes, ServerTypes, SocketTypes, RoutingTypes
  <2>4. Descriptors'
    BY <1>12 DEF PutMessage, Descriptors, Connected, ClientTypes, SocketTypes, ReaderTypes
  <2>5. Hands'
    BY <1>12 DEF PutMessage, Hands, ClientTypes, ReaderTypes, Packet, NoPacket
  <2>6. OneProducer'
    <3>1. /\ listener[c] = "put" /\ ~free /\ consumer = "asleep" /\ slot' = hand[c] /\ posted'
          /\ listener' = [listener EXCEPT ![c] = "read"]
          /\ UNCHANGED <<free, consumer, forwarded>>
      BY <1>12 DEF PutMessage, OneProducer
    <3>2. hand[c] # NoPacket
      BY <3>1 DEF Hands, NoPacket
    <3>3. \A d \in Client : listener'[d] # "put"
      BY <3>1 DEF OneProducer, ReaderTypes
    <3>4. QED
      BY <3>1, <3>2, <3>3 DEF OneProducer, Pending
  <2>7. Turns' /\ SentLater'
    BY <1>12 DEF PutMessage, Turns, Connected, SentLater
  <2>8. QED
    BY <2>1, <2>2, <2>3, <2>4, <2>5, <2>6, <2>7
<1>13. ASSUME NEW c \in Client, Unmap(c)
      PROVE  BInv'
  <2>1. ReaderTypes'
    BY <1>13 DEF Unmap, ReaderTypes
  <2>2. ClientTypes' /\ ServerTypes' /\ SocketTypes' /\ ForwardTypes' /\ RoutingTypes'
    BY <1>13 DEF Unmap, ClientTypes, ServerTypes, SocketTypes, ForwardTypes, RoutingTypes
  <2>3. Descriptors'
    BY <1>13 DEF Unmap, Descriptors, Connected, ClientTypes, SocketTypes, ReaderTypes
  <2>4. Hands'
    BY <1>13 DEF Unmap, Hands, ClientTypes, ReaderTypes, Packet, NoPacket
  <2>5. OneProducer'
    BY <1>13 DEF Unmap, OneProducer, Pending, ReaderTypes, ForwardTypes, NoPacket
  <2>6. Turns' /\ SentLater'
    BY <1>13 DEF Unmap, Turns, Connected, SentLater
  <2>7. QED
    BY <2>1, <2>2, <2>3, <2>4, <2>5, <2>6
<1>14. ASSUME NEW c \in Client, CloseClient(c)
      PROVE  BInv'
  <2>1. SocketTypes'
    BY <1>14 DEF CloseClient, Close, SocketTypes
  <2>2. ReaderTypes'
    BY <1>14 DEF CloseClient, Close, ReaderTypes
  <2>3. ClientTypes' /\ ServerTypes' /\ ForwardTypes' /\ RoutingTypes'
    BY <1>14 DEF CloseClient, Close, ClientTypes, ServerTypes, ForwardTypes, RoutingTypes
  <2>4. Descriptors'
    BY <1>14 DEF CloseClient, Close, Descriptors, Connected, ClientTypes, SocketTypes, ReaderTypes
  <2>5. Turns'
    <3>1. sockOf[c] # 0 /\ fds[sockOf[c]] = c /\ sockOf[c] \in Fd
      BY <1>14 DEF CloseClient, Descriptors, ReaderTypes
    <3>2. fds' = [fds EXCEPT ![sockOf[c]] = Nothing]
      BY <1>14 DEF CloseClient, Close
    <3>3. Connected => sockOf[c] # serverRM
      BY <3>1 DEF Turns
    <3>4. UNCHANGED <<serverRM, router, down, reconnect, primary, primaryUp>>
      BY <1>14 DEF CloseClient
    <3>5. QED
      BY <3>1, <3>2, <3>3, <3>4 DEF Turns, Connected, SocketTypes
  <2>6. Hands'
    BY <1>14 DEF CloseClient, Close, Hands, ClientTypes, ReaderTypes, Packet, NoPacket
  <2>7. OneProducer'
    BY <1>14 DEF CloseClient, Close, OneProducer, Pending, ReaderTypes, ForwardTypes, NoPacket
  <2>8. SentLater'
    BY <1>14 DEF CloseClient, Close, SentLater
  <2>9. QED
    BY <2>1, <2>2, <2>3, <2>4, <2>5, <2>6, <2>7, <2>8
<1>15. CASE ConsumerWakes
  <2>1. ForwardTypes'
    BY <1>15 DEF ConsumerWakes, ForwardTypes
  <2>2. ClientTypes' /\ ServerTypes' /\ SocketTypes' /\ ReaderTypes' /\ RoutingTypes'
    BY <1>15 DEF ConsumerWakes, ClientTypes, ServerTypes, SocketTypes, ReaderTypes, RoutingTypes
  <2>3. OneProducer'
    BY <1>15 DEF ConsumerWakes, OneProducer, Pending, ReaderTypes, ForwardTypes, NoPacket
  <2>4. Descriptors' /\ Turns' /\ SentLater' /\ Hands'
    BY <1>15 DEF ConsumerWakes, Descriptors, Connected, Turns, Connected, SentLater, Hands
  <2>5. QED
    BY <2>1, <2>2, <2>3, <2>4
<1>16. CASE SendSlot
  <2>1. ServerTypes'
    <3>1. slot \in Packet
      BY <1>16 DEF SendSlot, OneProducer, Pending, ForwardTypes
    <3>2. toServer' \in Seq(Packet)
      BY <1>16, <3>1, WriteEffect DEF SendSlot, WriteFails, ServerTypes
    <3>3. QED
      BY <1>16, <3>2 DEF SendSlot, ServerTypes
  <2>2. SocketTypes'
    BY <1>16 DEF SendSlot, WriteOk, WriteFails, SocketTypes
  <2>3. ForwardTypes'
    BY <1>16 DEF SendSlot, WriteOk, WriteFails, ForwardTypes, SocketTypes, OneProducer, Pending
  <2>4. ClientTypes' /\ ReaderTypes' /\ RoutingTypes'
    BY <1>16 DEF SendSlot, WriteOk, WriteFails, ClientTypes, ReaderTypes, RoutingTypes
  <2>5. OneProducer'
    BY <1>16
    DEF SendSlot, WriteOk, WriteFails, OneProducer, Pending, ReaderTypes, ForwardTypes, NoPacket
  <2>6. Descriptors' /\ Turns' /\ SentLater' /\ Hands'
    BY <1>16
    DEF SendSlot, WriteOk, WriteFails, Descriptors, Connected, Turns, Connected, SentLater,
        Hands
  <2>7. QED
    BY <2>1, <2>2, <2>3, <2>4, <2>5, <2>6
<1>17. CASE ReleaseSlot
  <2>1. ForwardTypes'
    BY <1>17 DEF ReleaseSlot, ForwardTypes
  <2>2. ClientTypes' /\ ServerTypes' /\ SocketTypes' /\ ReaderTypes' /\ RoutingTypes'
    BY <1>17 DEF ReleaseSlot, ClientTypes, ServerTypes, SocketTypes, ReaderTypes, RoutingTypes
  <2>3. OneProducer'
    BY <1>17 DEF ReleaseSlot, OneProducer, Pending, ReaderTypes, ForwardTypes, NoPacket
  <2>4. Descriptors' /\ Turns' /\ SentLater' /\ Hands'
    BY <1>17 DEF ReleaseSlot, Descriptors, Connected, Turns, Connected, SentLater, Hands
  <2>5. QED
    BY <2>1, <2>2, <2>3, <2>4
<1>18. CASE ReadServer
  <2>1. Head(fromServer) \in Reply /\ Tail(fromServer) \in Seq(Reply)
    BY <1>18, HeadTailProperties DEF ReadServer, ServerTypes
  <2>2. ServerTypes'
    BY <1>18, <2>1 DEF ReadServer, ServerTypes
  <2>3. RoutingTypes'
    BY <1>18, <2>1 DEF ReadServer, RoutingTypes, ServerTypes, ReaderTypes, Reply
  <2>4. ClientTypes' /\ SocketTypes' /\ ReaderTypes' /\ ForwardTypes'
    BY <1>18 DEF ReadServer, ClientTypes, SocketTypes, ReaderTypes, ForwardTypes
  <2>5. Descriptors'
    BY <1>18, <2>1 DEF ReadServer, Descriptors, Connected, ClientTypes, SocketTypes, ReaderTypes
  <2>6. Turns'
    BY <1>18, <2>1 DEF ReadServer, Turns, Connected, SocketTypes, ServerTypes
  <2>7. SentLater' /\ Hands' /\ OneProducer'
    BY <1>18 DEF ReadServer, SentLater, Hands, OneProducer, Pending
  <2>8. QED
    BY <2>2, <2>3, <2>4, <2>5, <2>6, <2>7
<1>19. CASE RouteReply
  <2>1. ClientTypes'
    BY <1>19 DEF RouteReply, ClientReceives, ClientTypes
  <2>2. SocketTypes'
    BY <1>19 DEF RouteReply, ClientReceives, SocketTypes
  <2>3. RoutingTypes'
    BY <1>19 DEF RouteReply, ClientReceives, RoutingTypes, NoReply
  <2>4. ServerTypes' /\ ReaderTypes' /\ ForwardTypes'
    BY <1>19 DEF RouteReply, ClientReceives, ServerTypes, ReaderTypes, ForwardTypes
  <2>5. Descriptors'
    BY <1>19
    DEF RouteReply, ClientReceives, Descriptors, Connected, ClientTypes, SocketTypes,
        ReaderTypes
  <2>6. Turns'
    BY <1>19 DEF RouteReply, ClientReceives, Turns, Connected, SocketTypes, ServerTypes
  <2>7. SentLater'
    BY <1>19 DEF RouteReply, ClientReceives, SentLater, ClientTypes
  <2>8. Hands' /\ OneProducer'
    BY <1>19 DEF RouteReply, ClientReceives, Hands, OneProducer, Pending
  <2>9. QED
    BY <2>1, <2>2, <2>3, <2>4, <2>5, <2>6, <2>7, <2>8
<1>20. CASE ServerEof
  <2>1. RoutingTypes'
    BY <1>20 DEF ServerEof, RoutingTypes
  <2>2. ClientTypes' /\ ServerTypes' /\ SocketTypes' /\ ReaderTypes' /\ ForwardTypes'
    BY <1>20 DEF ServerEof, ClientTypes, ServerTypes, SocketTypes, ReaderTypes, ForwardTypes
  <2>3. Descriptors'
    BY <1>20 DEF ServerEof, Descriptors, Connected, ClientTypes, SocketTypes, ReaderTypes
  <2>4. Turns'
    BY <1>20 DEF ServerEof, Turns, Connected, SocketTypes, ServerTypes
  <2>5. SentLater' /\ Hands' /\ OneProducer'
    BY <1>20 DEF ServerEof, SentLater, Hands, OneProducer, Pending
  <2>6. QED
    BY <2>1, <2>2, <2>3, <2>4, <2>5
<1>21. CASE CloseServer
  <2>1. ServerTypes'
    BY <1>21, EmptySeq DEF CloseServer, ServerTypes
  <2>2. SocketTypes'
    BY <1>21 DEF CloseServer, Close, SocketTypes
  <2>3. RoutingTypes'
    BY <1>21 DEF CloseServer, Close, RoutingTypes
  <2>4. ClientTypes' /\ ReaderTypes' /\ ForwardTypes'
    BY <1>21 DEF CloseServer, Close, ClientTypes, ReaderTypes, ForwardTypes
  <2>5. Descriptors'
    <3>1. /\ fds' = [fds EXCEPT ![serverRM] = Nothing]
          /\ router' = "signal"
          /\ UNCHANGED <<serverRM, sockOf, users, listener, phase>>
      BY <1>21 DEF CloseServer, Close
    <3>2. fds[serverRM] \in Server
      BY <1>21 DEF CloseServer, Turns, Connected
    <3>3. \A d \in Fd : fds'[d] = IF d = serverRM THEN Nothing ELSE fds[d]
      BY <3>1 DEF SocketTypes
    <3>4. \A e \in Client : sockOf[e] # 0 => sockOf[e] \in Fd /\ sockOf[e] # serverRM
      BY <3>2 DEF Descriptors, ReaderTypes
    <3>5. QED
      BY <3>1, <3>3, <3>4 DEF Descriptors, Connected
  <2>6. Turns'
    BY <1>21 DEF CloseServer, Close, Turns, Connected, SocketTypes, ServerTypes
  <2>7. SentLater' /\ Hands' /\ OneProducer'
    BY <1>21 DEF CloseServer, Close, SentLater, Hands, OneProducer, Pending
  <2>8. QED
    BY <2>1, <2>2, <2>3, <2>4, <2>5, <2>6, <2>7
<1>22. CASE SignalReconnect
  <2>1. RoutingTypes'
    BY <1>22 DEF SignalReconnect, RoutingTypes
  <2>2. ClientTypes' /\ ServerTypes' /\ SocketTypes' /\ ReaderTypes' /\ ForwardTypes'
    BY <1>22 DEF SignalReconnect, ClientTypes, ServerTypes, SocketTypes, ReaderTypes, ForwardTypes
  <2>3. Descriptors'
    BY <1>22 DEF SignalReconnect, Descriptors, Connected, ClientTypes, SocketTypes, ReaderTypes
  <2>4. Turns'
    BY <1>22 DEF SignalReconnect, Turns, Connected, SocketTypes, ServerTypes
  <2>5. SentLater' /\ Hands' /\ OneProducer'
    BY <1>22 DEF SignalReconnect, SentLater, Hands, OneProducer, Pending
  <2>6. QED
    BY <2>1, <2>2, <2>3, <2>4, <2>5
<1>23. CASE ReconnectWakes
  <2>1. RoutingTypes'
    BY <1>23 DEF ReconnectWakes, RoutingTypes
  <2>2. ClientTypes' /\ ServerTypes' /\ SocketTypes' /\ ReaderTypes' /\ ForwardTypes'
    BY <1>23 DEF ReconnectWakes, ClientTypes, ServerTypes, SocketTypes, ReaderTypes, ForwardTypes
  <2>3. Turns'
    BY <1>23 DEF ReconnectWakes, Turns, Connected, SocketTypes, ServerTypes
  <2>4. Descriptors' /\ SentLater' /\ Hands' /\ OneProducer'
    BY <1>23 DEF ReconnectWakes, Descriptors, Connected, SentLater, Hands, OneProducer, Pending
  <2>5. QED
    BY <2>1, <2>2, <2>3, <2>4
<1>24. CASE HandleServerConnection
  <2>1. LowestFree \in Fd /\ fds[LowestFree] = Nothing
    BY <1>24, FreeDescriptor DEF HandleServerConnection, Turns, Connected
  <2>2. SocketTypes'
    BY <1>24, <2>1 DEF HandleServerConnection, SocketTypes, ServerTypes, Server
  <2>3. RoutingTypes'
    BY <1>24, <2>1 DEF HandleServerConnection, RoutingTypes
  <2>4. ClientTypes' /\ ServerTypes' /\ ReaderTypes' /\ ForwardTypes'
    BY <1>24 DEF HandleServerConnection, ClientTypes, ServerTypes, ReaderTypes, ForwardTypes
  <2>5. Descriptors'
    <3> DEFINE d == LowestFree
    <3>1. /\ fds' = [fds EXCEPT ![d] = accepted + 1] /\ serverRM' = d /\ router' = "read"
          /\ UNCHANGED <<sockOf, users, listener, phase>>
      BY <1>24 DEF HandleServerConnection
    <3>2. router = "off" /\ d \in Fd /\ fds[d] = Nothing /\ accepted + 1 \in Server
      BY <1>24, <2>1 DEF HandleServerConnection, Turns, SocketTypes, ServerTypes, Server
    <3> HIDE DEF d
    <3>3. \A e \in Fd : fds'[e] = IF e = d THEN accepted + 1 ELSE fds[e]
      BY <3>1 DEF SocketTypes
    <3>4. \A e \in Client : sockOf[e] # 0 => sockOf[e] \in Fd /\ sockOf[e] # d
      BY <3>2 DEF Descriptors, ReaderTypes
    <3>5. QED
      BY <3>1, <3>2, <3>3, <3>4 DEF Descriptors, Connected
  <2>6. Turns'
    <3>1. accepted + 1 \in Server
      BY <1>24 DEF HandleServerConnection, SocketTypes, ServerTypes, Server
    <3>2. fds'[serverRM'] = accepted + 1
      BY <1>24, <2>1 DEF HandleServerConnection, SocketTypes
    <3>3. QED
      BY <1>24, <3>1, <3>2 DEF HandleServerConnection, Turns, Connected
  <2>7. SentLater' /\ Hands' /\ OneProducer'
    BY <1>24 DEF HandleServerConnection, SentLater, Hands, OneProducer, Pending
  <2>8. QED
    BY <2>2, <2>3, <2>4, <2>5, <2>6, <2>7
<1>25. ASSUME NEW c \in Client, ShutDirect(c)
       PROVE  BInv'
  <2>1. SocketTypes'
    BY <1>25 DEF ShutDirect, Shutdown, SocketTypes
  <2>2. ReaderTypes'
    BY <1>25 DEF ShutDirect, ReaderTypes
  <2>3. ClientTypes' /\ ServerTypes' /\ ForwardTypes' /\ RoutingTypes'
    BY <1>25 DEF ShutDirect, ClientTypes, ServerTypes, ForwardTypes, RoutingTypes
  <2>4. Descriptors'
    BY <1>25 DEF ShutDirect, Descriptors, Connected, ReaderTypes
  <2>5. Hands' /\ OneProducer'
    BY <1>25 DEF ShutDirect, Hands, OneProducer, Pending, ReaderTypes
  <2>6. Turns' /\ SentLater'
    BY <1>25 DEF ShutDirect, Turns, Connected, SentLater
  <2>7. QED
    BY <2>1, <2>2, <2>3, <2>4, <2>5, <2>6
<1>26. CASE ShutSlot
  <2>1. SocketTypes'
    BY <1>26 DEF ShutSlot, Shutdown, SocketTypes
  <2>2. ForwardTypes'
    BY <1>26 DEF ShutSlot, ForwardTypes
  <2>3. ClientTypes' /\ ServerTypes' /\ ReaderTypes' /\ RoutingTypes'
    BY <1>26 DEF ShutSlot, ClientTypes, ServerTypes, ReaderTypes, RoutingTypes
  <2>4. OneProducer'
    BY <1>26 DEF ShutSlot, OneProducer, Pending
  <2>5. Descriptors' /\ Turns' /\ SentLater' /\ Hands'
    BY <1>26 DEF ShutSlot, Descriptors, Connected, Turns, SentLater, Hands
  <2>6. QED
    BY <2>1, <2>2, <2>3, <2>4, <2>5
<1>27. CASE ShutReply
  <2>1. SocketTypes'
    BY <1>27 DEF ShutReply, Shutdown, SocketTypes
  <2>2. RoutingTypes'
    BY <1>27 DEF ShutReply, RoutingTypes
  <2>3. ClientTypes' /\ ServerTypes' /\ ReaderTypes' /\ ForwardTypes'
    BY <1>27 DEF ShutReply, ClientTypes, ServerTypes, ReaderTypes, ForwardTypes
  <2>4. Descriptors' /\ Turns'
    BY <1>27 DEF ShutReply, Descriptors, Turns, Connected
  <2>5. SentLater' /\ Hands' /\ OneProducer'
    BY <1>27 DEF ShutReply, SentLater, Hands, OneProducer, Pending
  <2>6. QED
    BY <2>1, <2>2, <2>3, <2>4, <2>5
<1>28. ASSUME NEW d \in Fd, TimesOut(d)
       PROVE  BInv'
  <2>1. SocketTypes'
    BY <1>28 DEF TimesOut, Shutdown, SocketTypes
  <2>2. ClientTypes' /\ ServerTypes' /\ ReaderTypes' /\ ForwardTypes' /\ RoutingTypes'
    BY <1>28 DEF TimesOut, ClientTypes, ServerTypes, ReaderTypes, ForwardTypes, RoutingTypes
  <2>3. Descriptors' /\ Turns' /\ SentLater' /\ Hands' /\ OneProducer'
    BY <1>28
    DEF TimesOut, Descriptors, Connected, Turns, SentLater, Hands, OneProducer, Pending
  <2>4. QED
    BY <2>1, <2>2, <2>3
<1>29. CASE UNCHANGED vars
  BY <1>29
  DEF vars, TypeOK, ClientTypes, ServerTypes, SocketTypes, ReaderTypes, ForwardTypes,
      RoutingTypes, Descriptors, Turns, SentLater, Hands, OneProducer, Pending, Connected
<1>30. QED
  BY <1>1, <1>2, <1>3, <1>4, <1>5, <1>6, <1>7, <1>8, <1>9, <1>10, <1>11, <1>12, <1>13, <1>14,
     <1>15, <1>16, <1>17, <1>18, <1>19, <1>20, <1>21, <1>22, <1>23, <1>24, <1>25, <1>26, <1>27,
     <1>28, <1>29
  DEF Next, Users, Servers, FeThreads, Monitors, Listener, Consumer, Router, Reconnect

(* BInv holds before anything has connected.                                *)
LEMMA BInvInit == Init => BInv
<1> SUFFICES ASSUME Init PROVE BInv
  OBVIOUS
<1> USE ConstantsAssumption DEF Init
<1>1. 1 \in Fd /\ 1 \in Server
  BY FS_CardinalityType DEF Fd, Server
<1>2. ClientTypes /\ ServerTypes /\ SocketTypes
  BY <1>1, EmptySeq DEF ClientTypes, ServerTypes, SocketTypes
<1>3. ReaderTypes /\ ForwardTypes /\ RoutingTypes
  BY DEF ReaderTypes, ForwardTypes, RoutingTypes
<1>4. Descriptors
  BY <1>1 DEF Descriptors, Connected
<1>5. Turns /\ SentLater
  BY <1>1 DEF Turns, Connected, SentLater
<1>6. Hands /\ OneProducer
  BY EmptySeq DEF Hands, OneProducer, Pending
<1>7. QED
  BY <1>2, <1>3, <1>4, <1>5, <1>6 DEF BInv, TypeOK

(* ... and therefore always.                                                *)
LEMMA BInvariance == Spec => []BInv
  BY BInvInit, BInvStep, PTL DEF Spec

-----------------------------------------------------------------------------
(* No message is overwritten in processing_message.                         *)

(* Where the front end has a message of a client, or had it.                *)
Held(c, n) == \/ In(Text(c, n), inbound[c])
              \/ hand[c] = Text(c, n)
              \/ slot = Text(c, n)
              \/ Text(c, n) \in forwarded

(* A message that was sent stays in the front end, or has been written.     *)
LEMMA HeldKept ==
    ASSUME BInv, [Next]_vars, \A c \in Client : \A n \in 1 .. sent[c] : Held(c, n)
    PROVE  \A c \in Client : \A n \in 1 .. sent'[c] : Held(c, n)'
<1> USE ConstantsAssumption DEF BInv, TypeOK, clients, servers, sockets, readers, forward, routing
<1> DEFINE Goal == \A c \in Client : \A n \in 1 .. sent'[c] : Held(c, n)'
<1>1. ASSUME UNCHANGED <<sent, inbound, hand, slot>>, forwarded \subseteq forwarded' PROVE Goal
  BY <1>1 DEF Held
<1>2. ASSUME NEW c \in Client, ClientConnect(c) PROVE Goal
  <2>1. sent[c] = 0 /\ sent' = sent
    BY <1>2 DEF ClientConnect, SentLater
  <2>2. \A d \in Client : d # c => inbound'[d] = inbound[d]
    BY <1>2 DEF ClientConnect, ClientTypes
  <2>3. UNCHANGED <<hand, slot, forwarded>>
    BY <1>2 DEF ClientConnect
  <2>4. QED
    BY <2>1, <2>2, <2>3 DEF Held
<1>3. ASSUME NEW c \in Client, ClientSend(c) PROVE Goal
  <2>1. sent[c] \in Nat /\ inbound[c] \in Seq(Packet) /\ Text(c, sent[c] + 1) \in Packet
    BY NewPackets
  <2>2. \A x : In(x, inbound'[c]) <=> In(x, inbound[c]) \/ x = Text(c, sent[c] + 1)
    BY <1>3, <2>1, AppendItems DEF ClientSend, ClientTypes
  <2>3. \A d \in Client : d # c => inbound'[d] = inbound[d] /\ sent'[d] = sent[d]
    BY <1>3 DEF ClientSend, ClientTypes
  <2>4. sent'[c] = sent[c] + 1
    BY <1>3 DEF ClientSend, ClientTypes
  <2>5. UNCHANGED <<hand, slot, forwarded>>
    BY <1>3 DEF ClientSend
  <2>6. \A n \in 1 .. sent'[c] : n \in 1 .. sent[c] \/ n = sent[c] + 1
    BY <2>1, <2>4
  <2>7. QED
    BY <2>2, <2>3, <2>5, <2>6 DEF Held
<1>4. ASSUME NEW c \in Client, ReadClient(c) PROVE Goal
  <2>1. \A x : In(x, inbound[c]) <=> x = Head(inbound[c]) \/ In(x, Tail(inbound[c]))
    BY <1>4, TailItems DEF ReadClient, ClientTypes
  <2>2. \A n : hand[c] # Text(c, n)
    BY <1>4 DEF ReadClient, Hands, NoPacket, Text
  <2>3. /\ inbound'[c] = Tail(inbound[c]) /\ hand'[c] = Head(inbound[c])
        /\ \A d \in Client : d # c => inbound'[d] = inbound[d] /\ hand'[d] = hand[d]
    BY <1>4 DEF ReadClient, ClientTypes, ReaderTypes
  <2>4. UNCHANGED <<sent, slot, forwarded>>
    BY <1>4 DEF ReadClient
  <2>5. QED
    BY <2>1, <2>2, <2>3, <2>4 DEF Held
<1>5. ASSUME NEW c \in Client, ClientEof(c) \/ SendDirect(c) PROVE Goal
  <2>1. \A n : hand[c] # Text(c, n)
    BY <1>5 DEF ClientEof, SendDirect, Hands, NoPacket, Text
  <2>2. \A d \in Client : d # c => hand'[d] = hand[d]
    BY <1>5 DEF ClientEof, SendDirect, ReaderTypes
  <2>3. UNCHANGED <<sent, inbound, slot, forwarded>>
    BY <1>5 DEF ClientEof, SendDirect
  <2>4. QED
    BY <2>1, <2>2, <2>3 DEF Held
<1>6. ASSUME NEW c \in Client, PutMessage(c) PROVE Goal
  <2>1. slot = NoPacket \/ slot \in forwarded
    BY <1>6 DEF PutMessage, OneProducer, Pending
  <2>2. \A d, n : NoPacket # Text(d, n)
    BY DEF NoPacket, Text
  <2>3. slot' = hand[c] /\ \A d \in Client : d # c => hand'[d] = hand[d]
    BY <1>6 DEF PutMessage, ReaderTypes
  <2>4. UNCHANGED <<sent, inbound, forwarded>>
    BY <1>6 DEF PutMessage
  <2>5. QED
    BY <2>1, <2>2, <2>3, <2>4 DEF Held
<1>7. CASE \E c \in Client : \/ ClientProceed(c) \/ ClientLeaves(c) \/ ClientLosesFE(c)
                             \/ ShutDirect(c) \/ WaitSlot(c) \/ Unmap(c) \/ CloseClient(c)
  BY <1>1, <1>7 DEF ClientProceed, ClientLeaves, ClientLosesFE, ShutDirect, WaitSlot, Unmap,
     CloseClient
<1>8. CASE Servers \/ Consumer \/ Router \/ Reconnect \/ Monitors
  BY <1>1, <1>8 DEF Servers, ServerDies, NewPrimary, ServerHandles, ServerLosesFE,
     Consumer, ConsumerWakes, SendSlot, ShutSlot, ReleaseSlot,
     Router, ReadServer, RouteReply, ShutReply, ServerEof, CloseServer, SignalReconnect,
     Reconnect, ReconnectWakes, HandleServerConnection, Monitors, TimesOut
<1>9. CASE UNCHANGED vars
  BY <1>1, <1>9 DEF vars
<1>10. QED
  BY <1>2, <1>3, <1>4, <1>5, <1>6, <1>7, <1>8, <1>9 DEF Next, Users, FeThreads, Listener

(* A message a listener has handed over is written before the next one takes *)
(* its place, whatever listeners wait for processing_message_semaphore.      *)
THEOREM NoMessageOverwritten == Spec => []NothingOverwritten
<1> DEFINE NInv == \A c \in Client : \A n \in 1 .. sent[c] : Held(c, n)
<1>1. Init => NInv
  BY ConstantsAssumption DEF Init
<1>2. BInv /\ NInv /\ [Next]_vars => NInv'
  BY HeldKept
<1>3. NInv => NothingOverwritten
  BY DEF Held, In, NothingOverwritten
<1>4. QED
  BY <1>1, <1>2, <1>3, BInvariance, PTL DEF Spec

(* The variables of the front end keep their types.                         *)
THEOREM TypeCorrect == Spec => []TypeOK
<1>1. BInv => TypeOK
  BY DEF BInv
<1>2. QED
  BY <1>1, BInvariance, PTL

(* usersMap leads to no descriptor that has been given away: the user is     *)
(* forgotten before the descriptor is closed.                                *)
THEOREM UsersKeepTheirSockets == Spec => []UsersOwnSockets
<1>1. BInv => UsersOwnSockets
  BY DEF BInv, Descriptors, UsersOwnSockets
<1>2. QED
  BY <1>1, BInvariance, PTL

-----------------------------------------------------------------------------
(* No packet is handled twice.                                              *)
Queued(p) == In(p, inbound[p.user])
InHand(p) == hand[p.user] = p
InSlot(p) == Pending /\ slot = p
Written(p) == In(p, toServer)
Known(p) == Queued(p) \/ InHand(p) \/ InSlot(p) \/ Written(p) \/ p \in handled

(* A packet is in one place at a time, and goes only forward.               *)
OnePlace(p) ==
    /\ p \in handled => ~Written(p)
    /\ p \in handled \/ Written(p) => ~InSlot(p)
    /\ p \in handled \/ Written(p) \/ InSlot(p) => ~InHand(p)
    /\ p \in handled \/ Written(p) \/ InSlot(p) \/ InHand(p) => ~Queued(p)
    /\ Once(p, toServer)
    /\ Once(p, inbound[p.user])

(* Where its client is once a packet exists.                                *)
Sent(p) ==
    /\ p.kind = "JOIN" => phase[p.user] # "off"
    /\ p.kind = "MESSAGE" => p.n \in 1 .. sent[p.user]
    /\ p.kind = "DISCONNECT" =>
           /\ phase[p.user] # "off"
           /\ \/ listener[p.user] \in {"send", "shut"} /\ hand[p.user].kind = "DISCONNECT"
              \/ listener[p.user] \in {"unmap", "close", "off"}

PInv == \A p \in Packet : OnePlace(p) /\ (Known(p) => Sent(p))

(* A step that makes a packet known nowhere else and moves it only forward.  *)
NoNewPlace(p) ==
    /\ Queued(p)' => Queued(p)
    /\ InHand(p)' => InHand(p)
    /\ InSlot(p)' => InSlot(p)
    /\ Written(p)' => Written(p)
    /\ p \in handled' => p \in handled
    /\ Once(p, toServer) => Once(p, toServer')
    /\ Once(p, inbound[p.user]) => Once(p, inbound'[p.user])

(* Such a step keeps what PInv says of the packet.                          *)
LEMMA PlacesKept ==
    ASSUME NEW p, OnePlace(p), Known(p) => Sent(p), NoNewPlace(p), Sent(p) => Sent(p)'
    PROVE  OnePlace(p)' /\ (Known(p)' => Sent(p)')
  BY DEF OnePlace, Known, NoNewPlace

(* Steps that leave the packets where they are.                             *)
LEMMA PacketsKept ==
    ASSUME PInv, UNCHANGED <<inbound, hand, slot, toServer, handled, sent>>,
           Pending' => Pending,
           \A c \in Client : /\ phase'[c] = "off" => phase[c] = "off"
                             /\ listener[c] \in {"send", "shut"}
                                => listener'[c] \in {"send", "shut"}
                             /\ listener[c] \in {"unmap", "close", "off"}
                                => listener'[c] \in {"unmap", "close", "off"}
    PROVE  PInv'
<1> SUFFICES ASSUME NEW p \in Packet PROVE (OnePlace(p) /\ (Known(p) => Sent(p)))'
  BY DEF PInv
<1>1. NoNewPlace(p)
  BY DEF NoNewPlace, Queued, InHand, InSlot, Written, In, Once
<1>2. p.user \in Client
  BY DEF Packet
<1>3. Sent(p) => Sent(p)'
  BY <1>2 DEF Sent
<1>4. QED
  BY <1>1, <1>3, PlacesKept DEF PInv

(* Every step keeps a packet in one place.                                  *)
LEMMA PInvStep ==
    ASSUME BInv, PInv, [Next]_vars
    PROVE  PInv'
<1> USE ConstantsAssumption DEF BInv, TypeOK, clients, servers, sockets, readers, forward, routing
<1>1. ASSUME NEW c \in Client, ClientConnect(c) PROVE PInv'
  <2> SUFFICES ASSUME NEW p \in Packet PROVE (OnePlace(p) /\ (Known(p) => Sent(p)))'
    BY DEF PInv
  <2>1. p.user \in Client /\ OnePlace(p) /\ (Known(p) => Sent(p))
    BY DEF PInv, Packet
  <2>2. /\ phase[c] = "off" /\ phase' = [phase EXCEPT ![c] = "joining"]
        /\ inbound' = [inbound EXCEPT ![c] = <<Join(c)>>]
        /\ listener' = [listener EXCEPT ![c] = "read"]
        /\ UNCHANGED <<sent, toServer, handled, hand, slot, posted, consumer>>
    BY <1>1 DEF ClientConnect
  <2>3. CASE p.user # c
    <3>1. inbound'[p.user] = inbound[p.user]
      BY <2>1, <2>2, <2>3 DEF ClientTypes
    <3>2. NoNewPlace(p)
      BY <2>2, <3>1 DEF NoNewPlace, Queued, InHand, InSlot, Pending, Written
    <3>3. Sent(p) => Sent(p)'
      BY <2>1, <2>2, <2>3 DEF Sent, ClientTypes, ReaderTypes
    <3>4. QED
      BY <2>1, <3>2, <3>3, PlacesKept
  <2>4. CASE p.user = c
    <3>1. inbound'[c] = <<Join(c)>> /\ phase'[c] = "joining" /\ Len(<<Join(c)>>) = 1
      BY <2>2 DEF ClientTypes
    <3>2. Queued(p)' <=> p = Join(c)
      BY <2>4, <3>1 DEF Queued, In
    <3>3. Once(p, inbound'[c])
      BY <3>1 DEF Once
    <3>4. p.kind = "MESSAGE" => ~Known(p)
      BY <2>1, <2>2, <2>4 DEF Sent, SentLater, ClientTypes
    <3>5. p.kind # "MESSAGE" => ~Known(p)
      BY <2>1, <2>2, <2>4 DEF Sent, Packet
    <3>6. ~InHand(p)' /\ ~InSlot(p)' /\ ~Written(p)' /\ p \notin handled'
      BY <2>2, <3>4, <3>5 DEF Known, InHand, InSlot, Pending, Written
    <3>7. Once(p, toServer')
      BY <2>1, <2>2 DEF OnePlace
    <3>8. OnePlace(p)'
      BY <2>4, <3>3, <3>6, <3>7 DEF OnePlace
    <3>9. Known(p)' => Sent(p)'
      BY <2>4, <3>1, <3>2, <3>6 DEF Known, Sent, Join
    <3>10. QED
      BY <3>8, <3>9
  <2>5. QED
    BY <2>3, <2>4
<1>2. ASSUME NEW c \in Client, ClientSend(c) PROVE PInv'
  <2> SUFFICES ASSUME NEW p \in Packet PROVE (OnePlace(p) /\ (Known(p) => Sent(p)))'
    BY DEF PInv
  <2> DEFINE t == Text(c, sent[c] + 1)
  <2>1. p.user \in Client /\ OnePlace(p) /\ (Known(p) => Sent(p))
    BY DEF PInv, Packet
  <2>2. /\ sent[c] \in Nat /\ inbound[c] \in Seq(Packet) /\ t \in Packet
        /\ t.user = c /\ t.kind = "MESSAGE" /\ t.n = sent[c] + 1
    BY NewPackets DEF Text
  <2>3. /\ phase[c] = "ready" /\ phase' = [phase EXCEPT ![c] = "waiting"]
        /\ sent' = [sent EXCEPT ![c] = sent[c] + 1]
        /\ inbound' = [inbound EXCEPT ![c] = Append(inbound[c], t)]
        /\ UNCHANGED <<toServer, handled, hand, slot, posted, consumer, listener>>
    BY <1>2 DEF ClientSend, ClientTypes
  <2>4. ~Known(t)
    <3>1. OnePlace(t) /\ (Known(t) => Sent(t))
      BY <2>2 DEF PInv
    <3>2. QED
      BY <2>2, <3>1 DEF Sent
  <2> HIDE DEF t
  <2>5. /\ Queued(p)' <=> Queued(p) \/ p = t
        /\ Once(p, inbound[p.user]) => Once(p, inbound'[p.user])
    <3>1. CASE p.user # c
      BY <2>1, <2>2, <2>3, <3>1 DEF Queued, ClientTypes
    <3>2. CASE p.user = c
      <4>1. inbound'[c] = Append(inbound[c], t)
        BY <2>3 DEF ClientTypes
      <4>2. t = p => ~In(p, inbound[c])
        BY <2>4, <3>2 DEF Known, Queued
      <4>3. QED
        BY <2>2, <3>2, <4>1, <4>2, AppendItems DEF Queued
    <3>3. QED
      BY <3>1, <3>2
  <2>6. UNCHANGED <<InHand(p), InSlot(p), Written(p), handled>> /\ (Once(p, toServer) => Once(p, toServer'))
    BY <2>3 DEF InHand, InSlot, Pending, Written
  <2>7. OnePlace(p)'
    BY <2>1, <2>4, <2>5, <2>6 DEF OnePlace, Known
  <2>8. Sent(p) => Sent(p)'
    BY <2>1, <2>2, <2>3 DEF Sent, ClientTypes
  <2>9. p = t => Sent(p)'
    <3>1. sent'[c] = sent[c] + 1
      BY <2>3 DEF ClientTypes
    <3>2. QED
      BY <2>2, <3>1 DEF Sent
  <2>10. Known(p)' => Known(p) \/ p = t
    BY <2>5, <2>6 DEF Known
  <2>11. QED
    BY <2>1, <2>7, <2>8, <2>9, <2>10
<1>3. CASE ServerDies \/ ServerLosesFE
  <2> SUFFICES ASSUME NEW p \in Packet PROVE (OnePlace(p) /\ (Known(p) => Sent(p)))'
    BY DEF PInv
  <2>1. toServer' = <<>> /\ Len(<<>>) = 0
    BY <1>3 DEF ServerDies, ServerLosesFE
  <2>2. UNCHANGED <<phase, sent, inbound, handled, hand, slot, posted, consumer, listener>>
    BY <1>3 DEF ServerDies, ServerLosesFE
  <2>3. NoNewPlace(p)
    BY <2>1, <2>2 DEF NoNewPlace, Queued, InHand, InSlot, Pending, Written, In, Once
  <2>4. Sent(p) => Sent(p)'
    BY <2>2 DEF Sent
  <2>5. QED
    BY <2>3, <2>4, PlacesKept DEF PInv
<1>4. CASE ServerHandles
  <2> SUFFICES ASSUME NEW p \in Packet PROVE (OnePlace(p) /\ (Known(p) => Sent(p)))'
    BY DEF PInv
  <2> DEFINE h == Head(toServer)
  <2>1. toServer \in Seq(Packet) /\ toServer # <<>> /\ toServer' = Tail(toServer)
        /\ handled' = handled \cup {h}
    BY <1>4 DEF ServerHandles, ServerTypes
  <2>2. /\ \A x : In(x, toServer) <=> x = h \/ In(x, toServer')
        /\ \A x : Once(x, toServer) => Once(x, toServer')
        /\ Once(h, toServer) => ~In(h, toServer')
    BY <2>1, TailItems
  <2>3. UNCHANGED <<phase, sent, inbound, hand, slot, posted, consumer, listener>>
    BY <1>4 DEF ServerHandles
  <2> HIDE DEF h
  <2>4. OnePlace(p) /\ (Known(p) => Sent(p))
    BY DEF PInv
  <2>5. UNCHANGED <<Queued(p), InHand(p), InSlot(p), Sent(p)>>
    BY <2>3 DEF Queued, InHand, InSlot, Pending, Sent
  <2>6. Once(p, inbound[p.user])'
    BY <2>3, <2>4 DEF OnePlace
  <2>7. OnePlace(p)'
    BY <2>1, <2>2, <2>4, <2>5, <2>6 DEF OnePlace, Written
  <2>8. Known(p)' => Known(p)
    BY <2>1, <2>2, <2>5 DEF Known, Written
  <2>9. QED
    BY <2>4, <2>5, <2>7, <2>8
<1>5. ASSUME NEW c \in Client, ReadClient(c) PROVE PInv'
  <2> SUFFICES ASSUME NEW p \in Packet PROVE (OnePlace(p) /\ (Known(p) => Sent(p)))'
    BY DEF PInv
  <2> DEFINE h == Head(inbound[c])
  <2>1. /\ inbound[c] \in Seq(Packet) /\ inbound[c] # <<>>
        /\ inbound' = [inbound EXCEPT ![c] = Tail(inbound[c])]
        /\ hand' = [hand EXCEPT ![c] = h]
        /\ listener[c] = "read"
        /\ \A d \in Client : d # c => listener'[d] = listener[d]
        /\ UNCHANGED <<phase, sent, toServer, handled, slot, posted, consumer>>
    BY <1>5 DEF ReadClient, ClientTypes, ReaderTypes
  <2>2. /\ \A x : In(x, inbound[c]) <=> x = h \/ In(x, inbound'[c])
        /\ \A x : Once(x, inbound[c]) => Once(x, inbound'[c])
        /\ Once(h, inbound[c]) => ~In(h, inbound'[c])
    BY <2>1, TailItems DEF ClientTypes
  <2>3. h.user = c /\ h \in Packet
    <3>1. In(h, inbound[c])
      BY <2>2
    <3>2. h \in Packet
      BY <2>1, TailItems
    <3>3. QED
      BY <3>1, <3>2 DEF In, Hands
  <2> HIDE DEF h
  <2>4. p.user \in Client /\ OnePlace(p) /\ (Known(p) => Sent(p))
    BY DEF PInv, Packet
  <2>5. CASE p.user # c
    <3>1. NoNewPlace(p)
      BY <2>1, <2>4, <2>5
      DEF NoNewPlace, Queued, InHand, InSlot, Pending, Written, ClientTypes, ReaderTypes
    <3>2. Sent(p) => Sent(p)'
      BY <2>1, <2>4, <2>5 DEF Sent
    <3>3. QED
      BY <2>4, <3>1, <3>2, PlacesKept
  <2>6. CASE p.user = c
    <3>1. /\ Queued(p) <=> p = h \/ Queued(p)'
          /\ p = h => ~Queued(p)'
          /\ Once(p, inbound'[c])
      BY <2>2, <2>4, <2>6 DEF Queued, OnePlace
    <3>2. InHand(p)' <=> p = h
      BY <2>1, <2>6 DEF InHand, ReaderTypes
    <3>3. UNCHANGED <<InSlot(p), Written(p), handled, toServer>>
      BY <2>1 DEF InSlot, Pending, Written
    <3>4. OnePlace(p)'
      BY <2>4, <2>6, <3>1, <3>2, <3>3 DEF OnePlace
    <3>5. Known(p)' => Known(p)
      BY <3>1, <3>2, <3>3 DEF Known
    <3>6. Sent(p) => Sent(p)'
      BY <2>1, <2>6 DEF Sent
    <3>7. QED
      BY <2>4, <3>4, <3>5, <3>6
  <2>7. QED
    BY <2>5, <2>6
<1>6. ASSUME NEW c \in Client, ClientEof(c) PROVE PInv'
  <2> SUFFICES ASSUME NEW p \in Packet PROVE (OnePlace(p) /\ (Known(p) => Sent(p)))'
    BY DEF PInv
  <2>1. /\ hand' = [hand EXCEPT ![c] = Disconnect(c)]
        /\ listener[c] = "read" /\ listener' = [listener EXCEPT ![c] = "send"]
        /\ phase[c] # "off"
        /\ UNCHANGED <<inbound, phase, sent, toServer, handled, slot, posted, consumer>>
    BY <1>6 DEF ClientEof, Descriptors
  <2>2. p.user \in Client /\ OnePlace(p) /\ (Known(p) => Sent(p))
    BY DEF PInv, Packet
  <2>3. hand'[p.user] = (IF p.user = c THEN Disconnect(c) ELSE hand[p.user])
    BY <2>1, <2>2 DEF ReaderTypes
  <2>4. p = Disconnect(c) => ~Known(p) /\ p.user = c
    BY <2>1, <2>2 DEF Sent, Disconnect
  <2>5. InHand(p)' => InHand(p) \/ p = Disconnect(c)
    BY <2>3 DEF InHand
  <2>6. UNCHANGED <<Queued(p), InSlot(p), Written(p), handled>>
    BY <2>1 DEF Queued, InSlot, Pending, Written
  <2>7. OnePlace(p)'
    BY <2>1, <2>2, <2>4, <2>5, <2>6 DEF OnePlace, Known
  <2>8. Known(p)' => Known(p) \/ p = Disconnect(c)
    BY <2>5, <2>6 DEF Known
  <2>9. (Sent(p) => Sent(p)') /\ (p = Disconnect(c) => Sent(p)')
    BY <2>1, <2>2 DEF Sent, Disconnect, ReaderTypes
  <2>10. QED
    BY <2>2, <2>7, <2>8, <2>9
<1>7. ASSUME NEW c \in Client, SendDirect(c) PROVE PInv'
  <2> SUFFICES ASSUME NEW p \in Packet PROVE (OnePlace(p) /\ (Known(p) => Sent(p)))'
    BY DEF PInv
  <2>1. p.user \in Client /\ OnePlace(p) /\ (Known(p) => Sent(p))
    BY DEF PInv, Packet
  <2>2. hand[c] \in Packet /\ hand[c].user = c /\ listener[c] = "send"
    BY <1>7 DEF SendDirect, Hands, ReaderTypes, NoPacket
  <2>3. UNCHANGED <<phase, sent, inbound, handled, slot, posted, consumer>>
    BY <1>7 DEF SendDirect
  <2>4. UNCHANGED <<Queued(p), InSlot(p)>> /\ Once(p, inbound'[p.user])
    BY <2>1, <2>3 DEF Queued, InSlot, Pending, OnePlace
  <2>5. CASE WriteOk(hand[c]) /\ hand' = [hand EXCEPT ![c] = NoPacket]
             /\ \E l \in {"read", "unmap"} : /\ listener' = [listener EXCEPT ![c] = l]
                                             /\ l = "read" => hand[c].kind = "JOIN"
    <3>1. InHand(p)' <=> InHand(p) /\ p # hand[c]
      BY <2>1, <2>2, <2>5 DEF InHand, ReaderTypes, NoPacket, Packet
    <3>2. p = hand[c] => InHand(p)
      BY <2>2 DEF InHand
    <3>3. \/ toServer' = toServer
          \/ /\ Written(p)' <=> Written(p) \/ p = hand[c]
             /\ Once(p, toServer) /\ (p = hand[c] => ~Written(p)) => Once(p, toServer')
      BY <2>2, <2>5, WriteEffect DEF Written
    <3>4. OnePlace(p)'
      BY <2>1, <2>3, <2>4, <3>1, <3>2, <3>3 DEF OnePlace, Written
    <3>5. Known(p)' => Known(p)
      BY <2>3, <2>4, <3>1, <3>2, <3>3 DEF Known, Written
    <3>6. Sent(p) => Sent(p)'
      <4>1. CASE p.user # c
        BY <2>1, <2>3, <2>5, <4>1 DEF Sent, ReaderTypes
      <4>2. CASE p.user = c /\ listener'[c] = "unmap"
        BY <2>1, <2>3, <2>5, <4>2 DEF Sent
      <4>3. CASE p.user = c /\ listener'[c] # "unmap"
        <5>1. hand[c].kind = "JOIN"
          BY <2>2, <2>5, <4>3 DEF ReaderTypes
        <5>2. QED
          BY <2>1, <2>2, <2>3, <4>3, <5>1 DEF Sent
      <4>4. QED
        BY <4>1, <4>2, <4>3
    <3>7. QED
      BY <2>1, <3>4, <3>5, <3>6
  <2>6. CASE WriteFails /\ listener' = [listener EXCEPT ![c] = "shut"] /\ UNCHANGED hand
    <3>1. toServer' = toServer
      BY <2>6 DEF WriteFails
    <3>2. UNCHANGED <<inbound, hand, slot, toServer, handled, sent, phase, Pending>>
      BY <2>3, <2>6, <3>1 DEF Pending
    <3>3. PInv'
      BY <2>2, <2>6, <3>2, PacketsKept DEF ReaderTypes
    <3>4. QED
      BY <3>3 DEF PInv
  <2>7. QED
    BY <1>7, <2>5, <2>6 DEF SendDirect
<1>8. ASSUME NEW c \in Client, PutMessage(c) PROVE PInv'
  <2> SUFFICES ASSUME NEW p \in Packet PROVE (OnePlace(p) /\ (Known(p) => Sent(p)))'
    BY DEF PInv
  <2>1. p.user \in Client /\ OnePlace(p) /\ (Known(p) => Sent(p))
    BY DEF PInv, Packet
  <2>2. /\ ~Pending /\ listener[c] = "put"
        /\ hand[c] \in Packet /\ hand[c].user = c /\ hand[c].kind = "MESSAGE"
    BY <1>8 DEF PutMessage, OneProducer, Pending, Hands, ReaderTypes, NoPacket
  <2>3. /\ slot' = hand[c] /\ hand' = [hand EXCEPT ![c] = NoPacket]
        /\ listener' = [listener EXCEPT ![c] = "read"]
        /\ UNCHANGED <<inbound, phase, sent, toServer, handled>>
    BY <1>8 DEF PutMessage
  <2>4. /\ InHand(p)' <=> InHand(p) /\ p # hand[c]
        /\ p = hand[c] => InHand(p)
    BY <2>1, <2>2, <2>3 DEF InHand, ReaderTypes, NoPacket, Packet
  <2>5. ~InSlot(p) /\ (InSlot(p)' => p = hand[c])
    BY <2>2, <2>3 DEF InSlot
  <2>6. UNCHANGED <<Queued(p), Written(p)>>
    BY <2>3 DEF Queued, Written
  <2>7. Once(p, toServer') /\ Once(p, inbound'[p.user])
    BY <2>1, <2>3 DEF OnePlace
  <2>8. OnePlace(p)'
    BY <2>1, <2>3, <2>4, <2>5, <2>6, <2>7 DEF OnePlace
  <2>9. Known(p)' => Known(p)
    BY <2>3, <2>4, <2>5, <2>6 DEF Known
  <2>10. Sent(p) => Sent(p)'
    BY <2>1, <2>2, <2>3 DEF Sent, ReaderTypes
  <2>11. QED
    BY <2>1, <2>8, <2>9, <2>10
<1>9. CASE SendSlot
  <2> SUFFICES ASSUME NEW p \in Packet PROVE (OnePlace(p) /\ (Known(p) => Sent(p)))'
    BY DEF PInv
  <2>1. p.user \in Client /\ OnePlace(p) /\ (Known(p) => Sent(p))
    BY DEF PInv, Packet
  <2>2. slot \in Packet /\ Pending /\ ~posted
    BY <1>9 DEF SendSlot, OneProducer, Pending, ForwardTypes
  <2>3. UNCHANGED <<inbound, hand, slot, phase, sent, handled, listener, posted>>
    BY <1>9 DEF SendSlot
  <2>4. UNCHANGED <<Queued(p), InHand(p), Sent(p)>> /\ Once(p, inbound'[p.user])
    BY <2>1, <2>3 DEF Queued, InHand, Sent, OnePlace
  <2>5. CASE WriteOk(slot) /\ consumer' = "release"
    <3>1. ~InSlot(p)' /\ (p = slot => InSlot(p))
      BY <2>2, <2>3, <2>5 DEF InSlot, Pending
    <3>2. \/ toServer' = toServer
          \/ /\ Written(p)' <=> Written(p) \/ p = slot
             /\ Once(p, toServer) /\ (p = slot => ~Written(p)) => Once(p, toServer')
      BY <2>2, <2>5, WriteEffect DEF Written
    <3>3. OnePlace(p)'
      BY <2>1, <2>3, <2>4, <3>1, <3>2 DEF OnePlace, Written
    <3>4. Known(p)' => Known(p)
      BY <2>3, <2>4, <3>1, <3>2 DEF Known, Written
    <3>5. QED
      BY <2>1, <2>4, <3>3, <3>4
  <2>6. CASE WriteFails /\ consumer' = "shut"
    <3>1. toServer' = toServer
      BY <2>6 DEF WriteFails
    <3>2. UNCHANGED <<inbound, hand, slot, toServer, handled, sent, phase, listener>> /\ Pending
      BY <2>2, <2>3, <3>1
    <3>3. PInv'
      BY <3>2, PacketsKept
    <3>4. QED
      BY <3>3 DEF PInv
  <2>7. QED
    BY <1>9, <2>5, <2>6 DEF SendSlot
<1>10. ASSUME NEW c \in Client, \/ ClientProceed(c) \/ ClientLeaves(c) \/ ClientLosesFE(c)
                                \/ ShutDirect(c) \/ WaitSlot(c) \/ Unmap(c) \/ CloseClient(c)
       PROVE  PInv'
  <2>1. UNCHANGED <<inbound, hand, slot, toServer, handled, sent, posted, consumer>>
    BY <1>10 DEF ClientProceed, ClientLeaves, ClientLosesFE, ShutDirect, WaitSlot, Unmap,
       CloseClient
  <2>2. \A d \in Client : phase'[d] = "off" => phase[d] = "off"
    BY <1>10 DEF ClientProceed, ClientLeaves, ClientLosesFE, ShutDirect, WaitSlot, Unmap,
       CloseClient, ClientTypes
  <2>3. \A d \in Client : /\ listener[d] \in {"send", "shut"} => listener'[d] \in {"send", "shut"}
                          /\ listener[d] \in {"unmap", "close", "off"}
                             => listener'[d] \in {"unmap", "close", "off"}
    BY <1>10 DEF ClientProceed, ClientLeaves, ClientLosesFE, ShutDirect, WaitSlot, Unmap,
       CloseClient, ReaderTypes
  <2>4. Pending' => Pending
    BY <2>1 DEF Pending
  <2>5. QED
    BY <2>1, <2>2, <2>3, <2>4, PacketsKept
<1>11. CASE RouteReply
  <2>1. UNCHANGED <<inbound, hand, slot, toServer, handled, sent, posted, consumer, listener>>
    BY <1>11 DEF RouteReply
  <2>2. \A d \in Client : phase'[d] = "off" => phase[d] = "off"
    BY <1>11 DEF RouteReply, ClientReceives, ClientTypes
  <2>3. Pending' => Pending
    BY <2>1 DEF Pending
  <2>4. QED
    BY <2>1, <2>2, <2>3, PacketsKept
<1>12. CASE \/ NewPrimary \/ ConsumerWakes \/ ShutSlot \/ ReleaseSlot \/ ReadServer \/ ShutReply
            \/ ServerEof \/ CloseServer \/ SignalReconnect \/ Reconnect \/ Monitors
  <2>1. UNCHANGED <<inbound, hand, slot, toServer, handled, sent, phase, listener>>
    BY <1>12 DEF NewPrimary, ConsumerWakes, ShutSlot, ReleaseSlot, ReadServer, ShutReply,
       ServerEof, CloseServer, SignalReconnect, Reconnect, ReconnectWakes,
       HandleServerConnection, Monitors, TimesOut
  <2>2. Pending' => Pending
    BY <1>12 DEF NewPrimary, ConsumerWakes, ShutSlot, ReleaseSlot, ReadServer, ShutReply,
       ServerEof, CloseServer, SignalReconnect, Reconnect, ReconnectWakes,
       HandleServerConnection, Monitors, TimesOut, Pending
  <2>3. QED
    BY <2>1, <2>2, PacketsKept
<1>13. CASE UNCHANGED vars
  BY <1>13, PacketsKept DEF vars, Pending
<1>14. QED
  BY <1>1, <1>2, <1>3, <1>4, <1>5, <1>6, <1>7, <1>8, <1>9, <1>10, <1>11, <1>12, <1>13
  DEF Next, Users, Servers, FeThreads, Listener, Consumer, Router

(* BInv and PInv hold in every state.                                       *)
LEMMA PInvariance == Spec => [](BInv /\ PInv)
<1>1. Init => PInv
  <2> SUFFICES ASSUME Init, NEW p \in Packet PROVE OnePlace(p) /\ ~Known(p)
    BY DEF PInv
  <2>1. p.user \in Client /\ p # NoPacket
    BY ConstantsAssumption DEF Packet, NoPacket
  <2>2. ~Queued(p) /\ ~InHand(p) /\ ~InSlot(p) /\ ~Written(p) /\ p \notin handled
    BY <2>1, EmptySeq DEF Init, Queued, InHand, InSlot, Pending, Written, In
  <2>3. QED
    BY <2>1, <2>2, EmptySeq DEF Init, OnePlace, Known, Once
<1>2. BInv /\ PInv /\ [Next]_vars => PInv'
  BY PInvStep
<1>3. QED
  BY <1>1, <1>2, BInvariance, PTL DEF Spec

(* A packet that some primary has handled is never at the head of a queue    *)
(* again: a retry of sendToServer repeats no write that went through.        *)
THEOREM PacketsHandledOnce == Spec => HandledOnce
<1>1. ASSUME BInv, PInv
      PROVE  [\A p \in handled : ~Handles(p)]_vars
  <2>1. SUFFICES ASSUME NEW p \in handled, Handles(p) PROVE FALSE
    BY DEF vars
  <2>2. toServer \in Seq(Packet) /\ toServer # <<>> /\ p = Head(toServer) /\ p \in Packet
    BY <1>1, <2>1 DEF BInv, TypeOK, ServerTypes, Handles
  <2>3. In(p, toServer)
    BY <2>2, TailItems
  <2>4. QED
    BY <1>1, <2>2, <2>3 DEF PInv, OnePlace, Written
<1>2. QED
  BY <1>1, PInvariance, PTL DEF HandledOnce

-----------------------------------------------------------------------------
(* A client goes on only when its message has been handled.                 *)
AckTo(c) == [kind |-> "ACK", user |-> c]
Routing(c) == router = "route" /\ reply.answer = AckTo(c)
Answering(c) == In(AckTo(c), fromServer)

Acks ==
    \A c \in Client :
        /\ \A n \in 1 .. sent[c] - 1 : Text(c, n) \in handled
        /\ phase[c] = "ready" /\ sent[c] > 0 => Text(c, sent[c]) \in handled
        /\ ack[c] \/ Routing(c) \/ Answering(c) =>
               /\ phase[c] \in {"waiting", "left"}
               /\ sent[c] > 0
               /\ Text(c, sent[c]) \in handled
        /\ ack[c] => ~Routing(c) /\ ~Answering(c)
        /\ Routing(c) => ~Answering(c)
        /\ Once(AckTo(c), fromServer)

(* A descriptor that changed hands after the router looked it up belongs to *)
(* a client that has not had an answer yet.                                 *)
Routes ==
    router = "route" =>
        /\ reply.fd \in Fd /\ reply.answer \in Reply
        /\ fds[reply.fd] \in Client =>
               \/ fds[reply.fd] = reply.answer.user
               \/ phase[fds[reply.fd]] \in {"joining", "left"}

AInv == Acks /\ Routes

(* An acknowledgement is an answer of the server.                           *)
LEMMA AckTypes == ASSUME NEW c \in Client PROVE AckTo(c) \in Reply
  BY DEF AckTo, Reply

(* Steps that make no acknowledgement, in which a client stops waiting only *)
(* by taking the one it got.                                                *)
LEMMA AcksKept ==
    ASSUME BInv, Acks, UNCHANGED sent, handled \subseteq handled',
           \A c \in Client :
              /\ phase'[c] = "ready" => phase[c] = "ready" \/ sent[c] = 0 \/ ack[c]
              /\ phase[c] \in {"waiting", "left"}
                    => phase'[c] \in {"waiting", "left"} \/ (ack[c] /\ ~ack'[c])
              /\ ack'[c] => ack[c]
              /\ Routing(c)' => Routing(c),
           UNCHANGED fromServer \/ fromServer' = <<>>
    PROVE  Acks'
<1>1. \A c \in Client : /\ Answering(c)' => Answering(c)
                        /\ Once(AckTo(c), fromServer) => Once(AckTo(c), fromServer')
  BY DEF Answering, In, Once
<1>2. SUFFICES ASSUME NEW c \in Client
               PROVE  (/\ \A n \in 1 .. sent[c] - 1 : Text(c, n) \in handled
                       /\ phase[c] = "ready" /\ sent[c] > 0 => Text(c, sent[c]) \in handled
                       /\ ack[c] \/ Routing(c) \/ Answering(c) =>
                              /\ phase[c] \in {"waiting", "left"}
                              /\ sent[c] > 0
                              /\ Text(c, sent[c]) \in handled
                       /\ ack[c] => ~Routing(c) /\ ~Answering(c)
                       /\ Routing(c) => ~Answering(c)
                       /\ Once(AckTo(c), fromServer))'
  BY DEF Acks
<1>3. /\ \A n \in 1 .. sent[c] - 1 : Text(c, n) \in handled
      /\ phase[c] = "ready" /\ sent[c] > 0 => Text(c, sent[c]) \in handled
      /\ ack[c] \/ Routing(c) \/ Answering(c) =>
             phase[c] \in {"waiting", "left"} /\ sent[c] > 0 /\ Text(c, sent[c]) \in handled
      /\ ack[c] => ~Routing(c) /\ ~Answering(c)
      /\ Routing(c) => ~Answering(c)
      /\ Once(AckTo(c), fromServer)
  BY DEF Acks
<1>4. sent[c] \in Nat
  BY DEF BInv, TypeOK, ClientTypes
<1>5. (phase[c] = "ready" /\ sent[c] > 0 => Text(c, sent[c]) \in handled)'
  BY <1>3, <1>4
<1>6. QED
  BY <1>1, <1>3, <1>5

(* Every step keeps Routes: a descriptor is given only to a client that is  *)
(* joining, and only the router takes a client out of joining.              *)
LEMMA RoutesStep ==
    ASSUME BInv, Routes, [Next]_vars
    PROVE  Routes'
<1> USE ConstantsAssumption DEF BInv, TypeOK, clients, servers, sockets, readers, forward, routing
<1>1. ASSUME UNCHANGED <<reply, fds>>, router' = router \/ router' # "route",
             \A c \in Client : phase[c] \in {"joining", "left"} => phase'[c] \in {"joining", "left"}
      PROVE  Routes'
  BY <1>1 DEF Routes
<1>2. ASSUME NEW c \in Client, ClientConnect(c) PROVE Routes'
  <2>1. LowestFree \in Fd /\ fds[LowestFree] = Nothing
    BY <1>2, FreeDescriptor DEF ClientConnect, Descriptors
  <2>2. /\ phase' = [phase EXCEPT ![c] = "joining"]
        /\ fds' = [fds EXCEPT ![LowestFree] = c]
        /\ UNCHANGED <<router, reply>>
    BY <1>2 DEF ClientConnect
  <2>3. \A d \in Fd : fds'[d] = IF d = LowestFree THEN c ELSE fds[d]
    BY <2>2 DEF SocketTypes
  <2>4. \A d \in Client : phase'[d] = IF d = c THEN "joining" ELSE phase[d]
    BY <2>2 DEF ClientTypes
  <2>5. QED
    BY <2>2, <2>3, <2>4 DEF Routes
<1>3. ASSUME NEW c \in Client, \/ ClientSend(c) \/ ClientProceed(c)
                               \/ ClientLeaves(c) \/ ClientLosesFE(c)
      PROVE  Routes'
  BY <1>1, <1>3 DEF ClientSend, ClientProceed, ClientLeaves, ClientLosesFE, ClientTypes
<1>4. ASSUME NEW c \in Client, CloseClient(c) PROVE Routes'
  <2>1. sockOf[c] \in Fd
    BY <1>4 DEF CloseClient, Descriptors, ReaderTypes
  <2>2. fds' = [fds EXCEPT ![sockOf[c]] = Nothing] /\ UNCHANGED <<phase, router, reply>>
    BY <1>4 DEF CloseClient, Close
  <2>3. QED
    BY <2>1, <2>2 DEF Routes, SocketTypes
<1>5. ASSUME NEW c \in Client, \/ ReadClient(c) \/ ClientEof(c) \/ SendDirect(c) \/ ShutDirect(c)
                               \/ WaitSlot(c) \/ PutMessage(c) \/ Unmap(c)
      PROVE  Routes'
  BY <1>1, <1>5 DEF ReadClient, ClientEof, SendDirect, ShutDirect, WaitSlot, PutMessage, Unmap
<1>6. CASE ReadServer
  <2>1. fromServer \in Seq(Reply) /\ fromServer # <<>>
    BY <1>6 DEF ReadServer, ServerTypes
  <2>2. Head(fromServer) \in Reply
    BY <2>1, HeadTailProperties
  <2>3. Head(fromServer).user \in Client
    BY <2>2 DEF Reply
  <2>4. CASE users[Head(fromServer).user] = 0
    <3>1. router' = "read"
      BY <1>6, <2>4 DEF ReadServer
    <3>2. QED
      BY <3>1 DEF Routes
  <2>5. CASE users[Head(fromServer).user] # 0
    <3>1. /\ reply' = [answer |-> Head(fromServer), fd |-> users[Head(fromServer).user]]
          /\ UNCHANGED <<fds, phase>>
      BY <1>6 DEF ReadServer
    <3>2. /\ users[Head(fromServer).user] \in Fd
          /\ fds[users[Head(fromServer).user]] = Head(fromServer).user
      BY <2>3, <2>5 DEF Descriptors, ReaderTypes
    <3>3. QED
      BY <2>2, <3>1, <3>2 DEF Routes
  <2>6. QED
    BY <2>4, <2>5
<1>7. CASE RouteReply \/ ShutReply \/ CloseServer \/ HandleServerConnection
  <2>1. router' # "route"
    BY <1>7 DEF RouteReply, ShutReply, CloseServer, HandleServerConnection
  <2>2. QED
    BY <2>1 DEF Routes
<1>8. CASE Servers \/ Consumer \/ ServerEof \/ SignalReconnect \/ ReconnectWakes \/ Monitors
  BY <1>1, <1>8 DEF Servers, ServerDies, NewPrimary, ServerHandles, ServerLosesFE, Consumer,
     ConsumerWakes, SendSlot, ShutSlot, ReleaseSlot, ServerEof, SignalReconnect, ReconnectWakes,
     Monitors, TimesOut
<1>9. CASE UNCHANGED vars
  BY <1>1, <1>9 DEF vars
<1>10. QED
  BY <1>2, <1>3, <1>4, <1>5, <1>6, <1>7, <1>8, <1>9
  DEF Next, Users, FeThreads, Listener, Router, Reconnect

(* Every step keeps Acks.                                                   *)
LEMMA AcksStep ==
    ASSUME BInv, PInv, Acks, Routes, [Next]_vars
    PROVE  Acks'
<1> USE ConstantsAssumption DEF BInv, TypeOK, clients, servers, sockets, readers, forward, routing
<1>1. ASSUME NEW c \in Client, ClientConnect(c) PROVE Acks'
  <2>1. /\ phase[c] = "off" /\ phase' = [phase EXCEPT ![c] = "joining"]
        /\ UNCHANGED <<sent, handled, ack, fromServer, router, reply>>
    BY <1>1 DEF ClientConnect
  <2>2. ~ack[c]
    BY <2>1 DEF Acks
  <2>3. QED
    BY <2>1, <2>2, AcksKept DEF ClientTypes, Acks, Routing
<1>2. ASSUME NEW c \in Client, ClientSend(c) PROVE Acks'
  <2>1. /\ phase[c] = "ready" /\ phase' = [phase EXCEPT ![c] = "waiting"]
        /\ sent' = [sent EXCEPT ![c] = sent[c] + 1]
        /\ UNCHANGED <<handled, ack, fromServer, router, reply>>
    BY <1>2 DEF ClientSend, ClientTypes
  <2>2. ~ack[c] /\ ~Routing(c) /\ ~Answering(c)
    BY <2>1 DEF Acks
  <2>3. \A d \in Client : /\ d # c => phase'[d] = phase[d] /\ sent'[d] = sent[d]
                          /\ sent[d] \in Nat
    BY <2>1 DEF ClientTypes
  <2>4. phase'[c] = "waiting" /\ sent'[c] = sent[c] + 1
    BY <2>1 DEF ClientTypes
  <2>5. \A n \in 1 .. sent'[c] - 1 : Text(c, n) \in handled
    <3>1. \A n \in 1 .. sent'[c] - 1 : n \in 1 .. sent[c] - 1 \/ (n = sent[c] /\ sent[c] > 0)
      BY <2>3, <2>4
    <3>2. QED
      BY <2>1, <3>1 DEF Acks
  <2>6. QED
    BY <2>1, <2>2, <2>3, <2>4, <2>5 DEF Acks, Routing, Answering
<1>3. ASSUME NEW c \in Client, ClientProceed(c) \/ ClientLeaves(c) \/ ClientLosesFE(c)
      PROVE  Acks'
  <2>1. UNCHANGED <<sent, handled, fromServer, router, reply>>
    BY <1>3 DEF ClientProceed, ClientLeaves, ClientLosesFE
  <2>2. CASE ClientProceed(c)
    <3>1. /\ ack[c] /\ ack' = [ack EXCEPT ![c] = FALSE]
          /\ phase' = [phase EXCEPT ![c] = "ready"]
      BY <2>2 DEF ClientProceed
    <3>2. \A d \in Client : d # c => phase'[d] = phase[d] /\ (ack'[d] <=> ack[d])
      BY <3>1 DEF ClientTypes
    <3>3. ~ack'[c] /\ phase'[c] = "ready"
      BY <3>1 DEF ClientTypes
    <3>4. QED
      BY <2>1, <3>1, <3>2, <3>3, AcksKept DEF Acks, Routing
  <2>3. CASE ClientLeaves(c) \/ ClientLosesFE(c)
    <3>1. UNCHANGED ack /\ phase' = [phase EXCEPT ![c] = "left"]
      BY <2>3 DEF ClientLeaves, ClientLosesFE
    <3>2. \A d \in Client : phase'[d] = (IF d = c THEN "left" ELSE phase[d])
      BY <3>1 DEF ClientTypes
    <3>3. QED
      BY <2>1, <3>1, <3>2, AcksKept DEF Acks, Routing
  <2>4. QED
    BY <1>3, <2>2, <2>3
<1>4. CASE ServerHandles
  <2> DEFINE h == Head(toServer)
  <2>1. /\ toServer \in Seq(Packet) /\ toServer # <<>> /\ handled' = handled \cup {h}
        /\ UNCHANGED <<phase, sent, ack, router, reply>>
        /\ \/ fromServer' = fromServer
           \/ \E a \in Answers(h) : fromServer' = Append(fromServer, a)
    BY <1>4 DEF ServerHandles, Answer, ServerTypes
  <2>2. h \in Packet /\ In(h, toServer)
    BY <2>1, TailItems
  <2> HIDE DEF h
  <2>3. h \notin handled /\ Sent(h)
    BY <2>2 DEF PInv, OnePlace, Known, Written
  <2>4. CASE h.kind # "MESSAGE"
    <3>1. \A a \in Answers(h) : a \in Reply /\ \A c \in Client : a # AckTo(c)
      BY <2>2, <2>4 DEF Answers, Packet, Reply, AckTo
    <3>2. \A c \in Client : /\ Answering(c)' => Answering(c)
                            /\ Once(AckTo(c), fromServer) => Once(AckTo(c), fromServer')
      <4>1. CASE fromServer' = fromServer
        BY <4>1 DEF Answering
      <4>2. ASSUME NEW a \in Answers(h), fromServer' = Append(fromServer, a)
            PROVE  \A c \in Client : /\ Answering(c)' => Answering(c)
                                     /\ Once(AckTo(c), fromServer) => Once(AckTo(c), fromServer')
        BY <3>1, <4>2, AppendItems DEF Answering, ServerTypes
      <4>3. QED
        BY <2>1, <4>1, <4>2
    <3>3. QED
      BY <2>1, <3>2 DEF Acks, Routing
  <2>5. CASE fromServer' = fromServer
    <3>1. \A c \in Client : /\ phase'[c] = phase[c] /\ (ack'[c] <=> ack[c])
                            /\ Routing(c)' => Routing(c)
      BY <2>1 DEF Routing
    <3>2. sent' = sent /\ handled \subseteq handled'
      BY <2>1
    <3>3. QED
      BY <2>5, <3>1, <3>2, AcksKept
  <2>6. CASE h.kind = "MESSAGE" /\ \E a \in Answers(h) : fromServer' = Append(fromServer, a)
    <3> DEFINE c == h.user
    <3>1. /\ c \in Client /\ h.n \in 1 .. sent[c] /\ h = Text(c, h.n) /\ sent[c] \in Nat
          /\ Answers(h) = {AckTo(c)}
      <4>1. c \in Client /\ h.n \in 1 .. sent[c] /\ sent[c] \in Nat
        BY <2>2, <2>3, <2>6 DEF Sent, Packet, ClientTypes
      <4>2. h = Text(c, h.n)
        BY <2>2, <2>6 DEF Packet, Text
      <4>3. Answers(h) = [kind : {"ACK"}, user : {c}]
        BY <2>6 DEF Answers
      <4>4. [kind : {"ACK"}, user : {c}] = {AckTo(c)}
        <5>1. \A a \in [kind : {"ACK"}, user : {c}] : a = AckTo(c)
          BY DEF AckTo
        <5>2. AckTo(c) \in [kind : {"ACK"}, user : {c}]
          BY DEF AckTo
        <5>3. QED
          BY <5>1, <5>2, Zenon
      <4>5. QED
        BY <4>1, <4>2, <4>3, <4>4
    <3> HIDE DEF c
    <3>2. h.n = sent[c]
      <4>1. \A n \in 1 .. sent[c] - 1 : Text(c, n) \in handled
        BY <3>1 DEF Acks
      <4>2. h.n \notin 1 .. sent[c] - 1
        BY <2>3, <3>1, <4>1
      <4>3. QED
        BY <3>1, <4>2
    <3>3. Text(c, sent[c]) \notin handled /\ sent[c] > 0
      BY <2>3, <3>1, <3>2
    <3>4. /\ ~ack[c] /\ ~Routing(c) /\ ~Answering(c)
          /\ phase[c] \in {"waiting", "left"}
      <4>1. ~ack[c] /\ ~Routing(c) /\ ~Answering(c) /\ phase[c] # "ready"
        BY <3>1, <3>3 DEF Acks
      <4>2. phase[c] \notin {"off", "joining"}
        BY <3>1, <3>3 DEF SentLater
      <4>3. QED
        BY <3>1, <4>1, <4>2 DEF ClientTypes
    <3>5. fromServer \in Seq(Reply) /\ AckTo(c) \in Reply /\ fromServer' = Append(fromServer, AckTo(c))
      BY <2>1, <2>6, <3>1, AckTypes DEF ServerTypes
    <3>6. /\ \A x : In(x, fromServer') <=> In(x, fromServer) \/ x = AckTo(c)
          /\ \A x : Once(x, fromServer) /\ (x = AckTo(c) => ~In(x, fromServer)) => Once(x, fromServer')
      BY <3>5, AppendItems
    <3>7. \A d \in Client : d # c => AckTo(d) # AckTo(c)
      BY DEF AckTo
    <3>8. \A d \in Client : /\ Answering(d)' <=> Answering(d) \/ d = c
                            /\ Once(AckTo(d), fromServer) => Once(AckTo(d), fromServer')
      BY <3>4, <3>6, <3>7 DEF Answering
    <3>9. Text(c, sent[c]) \in handled'
      BY <2>1, <3>1, <3>2
    <3>10. QED
      BY <2>1, <3>3, <3>4, <3>8, <3>9 DEF Acks, Routing
  <2>7. QED
    BY <2>1, <2>4, <2>5, <2>6
<1>5. CASE ReadServer
  <2> DEFINE h == Head(fromServer)
  <2>1. /\ fromServer \in Seq(Reply) /\ fromServer # <<>> /\ fromServer' = Tail(fromServer)
        /\ router = "read" /\ reply'.answer = h
        /\ UNCHANGED <<phase, sent, ack, handled>>
    BY <1>5 DEF ReadServer, ServerTypes
  <2>2. /\ \A x : In(x, fromServer) <=> x = h \/ In(x, fromServer')
        /\ \A x : Once(x, fromServer) => Once(x, fromServer')
        /\ Once(h, fromServer) => ~In(h, fromServer')
    BY <2>1, TailItems
  <2> HIDE DEF h
  <2>3. \A c \in Client : ~Routing(c) /\ (Routing(c)' => h = AckTo(c))
    BY <2>1 DEF Routing
  <2>4. \A c \in Client : /\ Answering(c) <=> h = AckTo(c) \/ Answering(c)'
                          /\ Once(AckTo(c), fromServer')
                          /\ h = AckTo(c) => ~Answering(c)'
    BY <2>2 DEF Answering, Acks
  <2>5. QED
    BY <2>1, <2>3, <2>4 DEF Acks
<1>6. CASE RouteReply
  <2>1. /\ router = "route" /\ router' \in {"read", "shut"}
        /\ UNCHANGED <<sent, handled, fromServer>>
    BY <1>6 DEF RouteReply
  <2>2. \A c \in Client : ~Routing(c)'
    BY <2>1 DEF Routing
  <2>3. CASE UNCHANGED <<phase, ack>>
    BY <2>1, <2>2, <2>3, AcksKept DEF Acks
  <2>4. CASE fds[reply.fd] \in Client /\ Alive(fds[reply.fd])
             /\ ClientReceives(fds[reply.fd], reply.answer.kind)
    <3> DEFINE c == fds[reply.fd]
               kind == reply.answer.kind
    <3>1. c \in Client /\ reply.answer \in Reply /\ (c = reply.answer.user \/ phase[c] \in {"joining", "left"})
      BY <2>1, <2>4 DEF Routes
    <3>2. /\ phase' = [phase EXCEPT ![c] = IF phase[c] # "joining" THEN phase[c]
                                           ELSE CASE kind = "ACCEPT" -> "ready"
                                                  [] kind = "REFUSED" -> "left"
                                                  [] OTHER -> phase[c]]
          /\ ack' = [ack EXCEPT ![c] = ack[c] \/ (kind = "ACK" /\ phase[c] \in {"ready", "waiting"})]
      BY <2>4 DEF ClientReceives, ClientTypes
    <3> HIDE DEF c, kind
    <3>3. \A d \in Client : d # c => phase'[d] = phase[d] /\ (ack'[d] <=> ack[d])
      BY <3>2 DEF ClientTypes
    <3>4. CASE phase[c] = "joining"
      <4>1. ~ack[c] /\ sent[c] = 0
        BY <3>1, <3>4 DEF Acks, SentLater
      <4>2. ~ack'[c]
        BY <3>1, <3>2, <3>4, <4>1 DEF ClientTypes
      <4>3. QED
        BY <2>1, <2>2, <3>3, <3>4, <4>1, <4>2, AcksKept DEF Acks
    <3>5. CASE phase[c] # "joining" /\ ~(kind = "ACK" /\ phase[c] \in {"ready", "waiting"})
      <4>1. phase'[c] = phase[c] /\ (ack'[c] <=> ack[c])
        BY <3>1, <3>2, <3>5 DEF ClientTypes
      <4>2. QED
        BY <2>1, <2>2, <3>3, <4>1, AcksKept DEF Acks
    <3>6. CASE phase[c] \in {"ready", "waiting"} /\ kind = "ACK"
      <4>1. c = reply.answer.user
        BY <3>1, <3>6
      <4>2. Routing(c)
        BY <2>1, <3>1, <3>6, <4>1 DEF Routing, AckTo, Reply, kind
      <4>3. /\ phase[c] = "waiting" /\ sent[c] > 0 /\ Text(c, sent[c]) \in handled
            /\ ~ack[c] /\ ~Answering(c)
        BY <3>1, <3>6, <4>2 DEF Acks
      <4>4. phase'[c] = "waiting"
        BY <3>1, <3>2, <3>6, <4>3 DEF ClientTypes
      <4>5. QED
        BY <2>1, <2>2, <3>3, <4>3, <4>4 DEF Acks, Answering
    <3>7. QED
      BY <3>4, <3>5, <3>6
  <2>5. QED
    BY <1>6, <2>3, <2>4 DEF RouteReply
<1>7. CASE \/ \E c \in Client : \/ ReadClient(c) \/ ClientEof(c) \/ SendDirect(c) \/ ShutDirect(c)
                                \/ WaitSlot(c) \/ PutMessage(c) \/ Unmap(c) \/ CloseClient(c)
           \/ ServerDies \/ ServerLosesFE \/ NewPrimary \/ Consumer \/ ShutReply
           \/ ServerEof \/ CloseServer \/ SignalReconnect \/ Reconnect \/ Monitors
  <2>1. UNCHANGED <<phase, sent, ack, handled>> /\ (fromServer' = fromServer \/ fromServer' = <<>>)
    BY <1>7 DEF ReadClient, ClientEof, SendDirect, ShutDirect, WaitSlot, PutMessage, Unmap,
       CloseClient, ServerDies, ServerLosesFE, NewPrimary, Consumer, ConsumerWakes, SendSlot,
       ShutSlot, ReleaseSlot, ShutReply, ServerEof, CloseServer, SignalReconnect, Reconnect,
       ReconnectWakes, HandleServerConnection, Monitors, TimesOut
  <2>2. router' = "route" => router = "route" /\ reply' = reply
    BY <1>7 DEF ReadClient, ClientEof, SendDirect, ShutDirect, WaitSlot, PutMessage, Unmap,
       CloseClient, ServerDies, ServerLosesFE, NewPrimary, Consumer, ConsumerWakes, SendSlot,
       ShutSlot, ReleaseSlot, ShutReply, ServerEof, CloseServer, SignalReconnect, Reconnect,
       ReconnectWakes, HandleServerConnection, Monitors, TimesOut
  <2>3. \A c \in Client : Routing(c)' => Routing(c)
    BY <2>2 DEF Routing
  <2>4. QED
    BY <2>1, <2>3, AcksKept DEF Acks
<1>8. CASE UNCHANGED vars
  BY <1>8, AcksKept DEF vars, Acks, Routing
<1>9. QED
  BY <1>1, <1>2, <1>3, <1>4, <1>5, <1>6, <1>7, <1>8
  DEF Next, Users, Servers, FeThreads, Listener, Router

(* A client sends its next message only when a primary has handled the one   *)
(* before, although the ACK may have been looked up for a descriptor that    *)
(* belongs to another client by the time it is written.                      *)
THEOREM AckedMeansHandled == Spec => []AckMeansHandled
<1>1. Init => AInv
  BY EmptySeq DEF Init, AInv, Acks, Routes, Routing, Answering, In, Once
<1>2. BInv /\ PInv /\ AInv /\ [Next]_vars => AInv'
  BY AcksStep, RoutesStep DEF AInv
<1>3. AInv => AckMeansHandled
  BY DEF AInv, Acks, AckMeansHandled
<1>4. QED
  BY <1>1, <1>2, <1>3, PInvariance, PTL DEF Spec
=============================================================================
