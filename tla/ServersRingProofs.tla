------------------------- MODULE ServersRingProofs -------------------------
(***************************************************************************)
(* Proofs about the ring of servers (module ServersRing), for any number   *)
(* of servers, any ports and any number of crashes that are apart: at most *)
(* one live server is primary, the highest is elected, and once the ring   *)
(* has settled all agree on it.                                            *)
(***************************************************************************)
EXTENDS ServersRing, Integers, SequenceTheorems, TLAPS

(* How many lines of config.txt after a the line b comes, round the end.     *)
Dist(a, b) == IF a < b THEN b - a ELSE b + N - a

(* Distances on the ring of lines.                                           *)
LEMMA DistType ==
    ASSUME NEW a \in Server, NEW b \in Server
    PROVE  /\ Dist(a, b) \in 1 .. N /\ Dist(a, a) = N
           /\ a # b => Dist(a, b) < N
  BY ConstantsAssumption DEF Server, Dist

(* A line is told by its distance from another.                              *)
LEMMA DistUnique ==
    ASSUME NEW a \in Server, NEW b \in Server, NEW c \in Server, Dist(a, b) = Dist(a, c)
    PROVE  b = c
  BY ConstantsAssumption DEF Server, Dist

(* The next line is one farther.                                             *)
LEMMA DistNext ==
    ASSUME NEW a \in Server, NEW b \in Server
    PROVE  /\ NextLine(b) \in Server
           /\ Dist(a, NextLine(b)) = IF b = a THEN 1 ELSE Dist(a, b) + 1
           /\ NextLine(b) = a => Dist(a, b) = N - 1 \/ N = 1
  BY ConstantsAssumption DEF Server, Dist, NextLine

(* Two servers do not have the same one next.                                *)
LEMMA DistApart ==
    ASSUME NEW a \in Server, NEW b \in Server, NEW c \in Server,
           Dist(a, c) <= Dist(a, b), Dist(b, c) <= Dist(b, a)
    PROVE  a = b
  BY ConstantsAssumption DEF Server, Dist

(* What is not beyond b is not beyond the one next to it either, and that is *)
(* the only one to come between; seen from a.                                *)
LEMMA DistStep ==
    ASSUME NEW a \in Server, NEW b \in Server, NEW c \in Server, NEW s \in Server,
           Dist(b, c) <= Dist(b, s), Dist(b, c) <= Dist(b, a)
    PROVE  /\ b = a /\ c # a => (Dist(a, s) <= Dist(a, c) <=> s = c)
           /\ b # a /\ c # a => /\ Dist(a, b) < Dist(a, c)
                                /\ Dist(a, s) <= Dist(a, c) <=> s = c \/ Dist(a, s) <= Dist(a, b)
           /\ b # a /\ c = a => (Dist(a, s) <= Dist(a, b) <=> s # a)
  BY ConstantsAssumption DEF Server, Dist

-----------------------------------------------------------------------------
(* Sockets are connected to whoever has them in its queue or listens to them, *)
(* and the ones created last are the servers' own.                           *)
Wires ==
    /\ \A t \in Server : listener[t] = "listen" =>
          from[t] \in Server \X Socket /\ peer[from[t][1]][from[t][2]] = t
    /\ \A t \in Server : \A n \in 1 .. Len(backlog[t]) :
          peer[backlog[t][n][1]][backlog[t][n][2]] = t
    /\ \A s \in Server :
          /\ socketClient[s] = created[s]
          /\ \A i \in Socket : i > created[s] => peer[s][i] = 0
          /\ IF clientAddr[s] = 0
             THEN filePos[s] = s /\ created[s] = 0
             ELSE filePos[s] = clientAddr[s] /\ created[s] > 0
          /\ \A k \in Thread :
                /\ connector[s][k] \notin {"off", "start"} => created[s] > 0
                /\ connector[s][k] = "watch" => watched[s][k] \in Socket

TInv == TypeOK /\ Wires

(* The types and the wires.                                                  *)
LEMMA TInvInit == Init => TInv
<1> SUFFICES ASSUME Init PROVE TInv
  OBVIOUS
<1>1. TypeOK
  BY ConstantsAssumption DEF Init, TypeOK, Server
<1>2. Wires
  BY ConstantsAssumption DEF Init, Wires, Server
<1>3. QED
  BY <1>1, <1>2 DEF TInv

(* A connector's steps.                                                      *)
LEMMA TInvConnector ==
    ASSUME TInv, NEW s \in Server, NEW k \in Thread, ConnectorStep(s, k)
    PROVE  TInv'
<1>1. TypeOK /\ Wires
  BY DEF TInv
<1> DEFINE l == NextLine(filePos[s])
           i == socketClient[s]
<1>2. /\ filePos[s] \in Server /\ l \in Server /\ l \in 0 .. N /\ l # 0
      /\ NextLine(l) \in Server /\ NextLine(l) \in 0 .. N /\ NextLine(l) # 0
  <2>1. \A x \in Server : x \in 0 .. N /\ x # 0
    BY ConstantsAssumption DEF Server
  <2>2. filePos[s] \in Server
    BY <1>1 DEF TypeOK
  <2>3. QED
    BY <2>1, <2>2, DistNext
<1> HIDE DEF l
<1>3. \A x \in Server : x # 0
  BY ConstantsAssumption DEF Server
<1>4. connector[s][k] \notin {"off", "start"} => i \in Socket
  <2>1. i \in 0 .. MaxSockets /\ (connector[s][k] \notin {"off", "start"} => i > 0)
    BY <1>1 DEF TypeOK, Wires
  <2>2. QED
    BY <2>1, ConstantsAssumption DEF Socket
<1>5. CASE StartConnector(s, k)
  <2>1. /\ created[s] < MaxSockets /\ created[s] \in 0 .. MaxSockets
        /\ created' = [created EXCEPT ![s] = @ + 1]
        /\ socketClient' = [socketClient EXCEPT ![s] = created[s] + 1]
        /\ canStart' = [canStart EXCEPT ![s][k] =
              clientAddr[s] # 0 /\ Id[clientAddr[s]] = primary[s]]
        /\ filePos' = [filePos EXCEPT ![s] = l]
        /\ clientAddr' = [clientAddr EXCEPT ![s] = l]
        /\ connector' = [connector EXCEPT ![s][k] = "connect"]
        /\ UNCHANGED <<alive, elected, disconnected, peer, chan, backlog, listeners, watched>>
    BY <1>1, <1>5 DEF StartConnector, TypeOK, l
  <2>2. created[s] + 1 \in 0 .. MaxSockets /\ created[s] + 1 > 0
    BY <2>1, ConstantsAssumption
  <2>3. created' \in [Server -> 0 .. MaxSockets] /\ socketClient' \in [Server -> 0 .. MaxSockets]
    BY <1>1, <2>1, <2>2 DEF TypeOK
  <2>4. canStart' \in [Server -> [Thread -> BOOLEAN]]
    <3>1. PICK b \in BOOLEAN : canStart' = [canStart EXCEPT ![s][k] = b]
      BY <2>1
    <3>2. QED
      BY <1>1, <3>1 DEF TypeOK
  <2>5. filePos' \in [Server -> Server] /\ clientAddr' \in [Server -> 0 .. N]
    BY <1>1, <1>2, <2>1 DEF TypeOK
  <2>6. connector' \in [Server -> [Thread -> {"off", "start", "connect", "connected", "watch"}]]
    BY <1>1, <2>1 DEF TypeOK
  <2>7. TypeOK'
    BY <1>1, <2>1, <2>3, <2>4, <2>5, <2>6 DEF TypeOK, elected, listeners
  <2>8. \A x \in Server : /\ created'[x] = IF x = s THEN created[x] + 1 ELSE created[x]
                          /\ socketClient'[x] = IF x = s THEN created[x] + 1 ELSE socketClient[x]
                          /\ filePos'[x] = IF x = s THEN l ELSE filePos[x]
                          /\ clientAddr'[x] = IF x = s THEN l ELSE clientAddr[x]
    BY <1>1, <2>1 DEF TypeOK
  <2>9. \A x \in Server, j \in Thread :
           connector'[x][j] = IF x = s /\ j = k THEN "connect" ELSE connector[x][j]
    BY <1>1, <2>1 DEF TypeOK
  <2>10. ASSUME NEW x \in Server
         PROVE  /\ socketClient'[x] = created'[x]
                /\ \A j \in Socket : j > created'[x] => peer'[x][j] = 0
                /\ IF clientAddr'[x] = 0 THEN filePos'[x] = x /\ created'[x] = 0
                                         ELSE filePos'[x] = clientAddr'[x] /\ created'[x] > 0
                /\ \A j \in Thread :
                      /\ connector'[x][j] \notin {"off", "start"} => created'[x] > 0
                      /\ connector'[x][j] = "watch" => watched'[x][j] \in Socket
    <3>1. created[x] \in Nat /\ \A j \in Socket : j \in Nat
      BY <1>1, ConstantsAssumption DEF TypeOK, Socket
    <3>2. QED
      BY <1>1, <1>2, <2>1, <2>2, <2>8, <2>9, <3>1 DEF Wires
  <2>11. Wires'
    BY <1>1, <2>1, <2>10 DEF Wires, listeners
  <2>12. QED
    BY <2>7, <2>11 DEF TInv
<1>6. CASE Connect(s, k)
  <2> DEFINE t == clientAddr[s]
  <2>1. t \in Server /\ i \in Socket /\ peer[s][i] = 0 /\ connector[s][k] = "connect"
    BY <1>1, <1>4, <1>6 DEF TypeOK, Connect, CanConnect
  <2>2. /\ peer' = [peer EXCEPT ![s][i] = t]
        /\ backlog' = [backlog EXCEPT ![t] = Append(@, <<s, i>>)]
        /\ connector' = [connector EXCEPT ![s][k] = "connected"]
        /\ UNCHANGED <<alive, elected, disconnected, address, created, socketClient,
                       chan, listeners, canStart, watched>>
    BY <1>6 DEF Connect
  <2>3. \A x \in Server, j \in Socket : peer'[x][j] = IF x = s /\ j = i THEN t ELSE peer[x][j]
    BY <1>1, <2>1, <2>2 DEF TypeOK
  <2>4. \A u \in Server : /\ backlog[u] \in Seq(Server \X Socket)
                          /\ backlog'[u] =
                                IF u = t THEN Append(backlog[u], <<s, i>>) ELSE backlog[u]
    BY <1>1, <2>1, <2>2 DEF TypeOK
  <2>5. TypeOK'
    <3>1. t \in 0 .. N
      BY <1>1 DEF TypeOK
    <3>2. peer' \in [Server -> [Socket -> 0 .. N]]
      BY <1>1, <2>1, <2>2, <3>1 DEF TypeOK
    <3>3. backlog' \in [Server -> Seq(Server \X Socket)]
      <4>1. <<s, i>> \in Server \X Socket /\ backlog \in [Server -> Seq(Server \X Socket)]
        BY <1>1, <2>1 DEF TypeOK
      <4>2. Append(backlog[t], <<s, i>>) \in Seq(Server \X Socket)
        BY <2>1, <2>4, <4>1, AppendProperties
      <4>3. QED
        BY <2>1, <2>2, <4>1, <4>2
    <3>4. connector' \in [Server -> [Thread -> {"off", "start", "connect", "connected", "watch"}]]
      BY <1>1, <2>2 DEF TypeOK
    <3>5. QED
      BY <1>1, <2>2, <3>2, <3>3, <3>4 DEF TypeOK, elected, address, listeners
  <2>6. ASSUME NEW u \in Server, listener'[u] = "listen"
        PROVE  from'[u] \in Server \X Socket /\ peer'[from'[u][1]][from'[u][2]] = u
    <3>1. from'[u] \in Server \X Socket /\ peer[from'[u][1]][from'[u][2]] = u
      BY <1>1, <2>2, <2>6 DEF Wires, listeners
    <3>2. from'[u][1] \in Server /\ from'[u][2] \in Socket
      BY <3>1
    <3>3. QED
      BY <1>3, <2>1, <2>3, <3>1, <3>2
  <2>7. ASSUME NEW u \in Server, NEW n \in 1 .. Len(backlog'[u])
        PROVE  peer'[backlog'[u][n][1]][backlog'[u][n][2]] = u
    <3>1. backlog[u] \in Seq(Server \X Socket) /\ <<s, i>> \in Server \X Socket
      BY <2>1, <2>4
    <3>a. /\ Len(backlog[u]) \in Nat /\ Len(Append(backlog[u], <<s, i>>)) = Len(backlog[u]) + 1
          /\ Append(backlog[u], <<s, i>>)[Len(backlog[u]) + 1] = <<s, i>>
          /\ \A j \in 1 .. Len(backlog[u]) : Append(backlog[u], <<s, i>>)[j] = backlog[u][j]
      BY <3>1, AppendProperties, LenProperties
    <3>2. CASE n \in 1 .. Len(backlog[u])
      <4>1. backlog'[u][n] = backlog[u][n]
        BY <2>4, <3>a, <3>2
      <4>2. backlog[u][n] \in Server \X Socket
        BY <3>1, <3>2, ElementOfSeq
      <4>3. backlog[u][n][1] \in Server /\ backlog[u][n][2] \in Socket
        BY <4>2
      <4>4. peer[backlog[u][n][1]][backlog[u][n][2]] = u
        BY <1>1, <3>2 DEF Wires
      <4>5. QED
        BY <1>3, <2>1, <2>3, <4>1, <4>3, <4>4
    <3>3. CASE n \notin 1 .. Len(backlog[u])
      <4>1. u = t
        BY <2>4, <2>7, <3>3
      <4>2. Len(backlog'[u]) = Len(backlog[u]) + 1 /\ Len(backlog[u]) \in Nat
            /\ backlog'[u][Len(backlog[u]) + 1] = <<s, i>>
        BY <2>4, <3>a, <4>1
      <4>3. n = Len(backlog[u]) + 1
        BY <3>3, <4>2
      <4>4. QED
        BY <2>1, <2>3, <4>1, <4>2, <4>3
    <3>4. QED
      BY <3>2, <3>3
  <2>8. Wires'
    <3>1. ASSUME NEW x \in Server, NEW j \in Socket, j > created'[x] PROVE peer'[x][j] = 0
      BY <1>1, <2>1, <2>2, <2>3, <3>1 DEF Wires, TypeOK
    <3>2. \A x \in Server, j \in Thread : connector'[x][j] =
             IF x = s /\ j = k THEN "connected" ELSE connector[x][j]
      BY <1>1, <2>2 DEF TypeOK
    <3>3. created[s] > 0
      BY <1>1, <2>1 DEF Wires
    <3>4. \A x \in Server, j \in Thread :
             /\ connector'[x][j] \notin {"off", "start"} => created'[x] > 0
             /\ connector'[x][j] = "watch" => watched'[x][j] \in Socket
      BY <1>1, <2>2, <3>2, <3>3 DEF Wires
    <3>5. \A x \in Server : /\ socketClient'[x] = created'[x]
                            /\ IF clientAddr'[x] = 0
                               THEN filePos'[x] = x /\ created'[x] = 0
                               ELSE filePos'[x] = clientAddr'[x] /\ created'[x] > 0
      BY <1>1, <2>2 DEF Wires, address
    <3>6. QED
      BY <2>6, <2>7, <3>1, <3>4, <3>5 DEF Wires
  <2>9. QED
    BY <2>5, <2>8 DEF TInv
<1>7. CASE TryNextPort(s, k) \/ OnlyServerLeft(s, k)
  <2>1. PICK a \in {l, NextLine(l)} : /\ filePos' = [filePos EXCEPT ![s] = a]
                                      /\ clientAddr' = [clientAddr EXCEPT ![s] = a]
    BY <1>7 DEF TryNextPort, OnlyServerLeft, l
  <2>2. a \in Server /\ a \in 0 .. N /\ a # 0
    BY <1>2, <2>1
  <2>3. UNCHANGED <<alive, participating, sockets, chan, backlog, listeners, connectors>>
    BY <1>7 DEF TryNextPort, OnlyServerLeft, elected
  <2>4. filePos' \in [Server -> Server] /\ clientAddr' \in [Server -> 0 .. N]
    BY <1>1, <2>1, <2>2 DEF TypeOK
  <2>5. /\ primary' \in [Server -> {Id[x] : x \in Server}]
        /\ isPrimary' \in [Server -> BOOLEAN] /\ disconnected' \in [Server -> BOOLEAN]
    <3>1. /\ primary' = primary \/ primary' = [primary EXCEPT ![s] = Id[s]]
          /\ isPrimary' = isPrimary \/ isPrimary' = [isPrimary EXCEPT ![s] = TRUE]
          /\ disconnected' = disconnected \/ disconnected' = [disconnected EXCEPT ![s] = FALSE]
      BY <1>7 DEF TryNextPort, OnlyServerLeft, elected
    <3>2. Id[s] \in {Id[x] : x \in Server}
      OBVIOUS
    <3>3. primary' \in [Server -> {Id[x] : x \in Server}]
      BY <1>1, <3>1, <3>2 DEF TypeOK
    <3>4. isPrimary' \in [Server -> BOOLEAN] /\ disconnected' \in [Server -> BOOLEAN]
      BY <1>1, <3>1 DEF TypeOK
    <3>5. QED
      BY <3>3, <3>4
  <2>6. TypeOK'
    BY <1>1, <2>3, <2>4, <2>5 DEF TypeOK, sockets, listeners, connectors
  <2>7. /\ connector[s][k] = "connect"
        /\ \A x \in Server : /\ filePos'[x] = IF x = s THEN a ELSE filePos[x]
                             /\ clientAddr'[x] = IF x = s THEN a ELSE clientAddr[x]
    BY <1>1, <1>7, <2>1 DEF TypeOK, TryNextPort, OnlyServerLeft
  <2>8. \A x \in Server : IF clientAddr'[x] = 0 THEN filePos'[x] = x /\ created'[x] = 0
                          ELSE filePos'[x] = clientAddr'[x] /\ created'[x] > 0
    BY <1>1, <2>2, <2>3, <2>7 DEF Wires, sockets
  <2>9. Wires'
    BY <1>1, <2>3, <2>8 DEF Wires, sockets, listeners, connectors
  <2>10. QED
    BY <2>6, <2>9 DEF TInv
<1>8. CASE Connected(s, k)
  <2> DEFINE m == [status |-> "ELECTION", id |-> Id[s]]
  <2>1. m \in Message /\ i \in Socket
    BY <1>1, <1>4, <1>8 DEF Message, Connected
  <2>2. /\ chan' = chan \/ chan' = [chan EXCEPT ![s][i] = Append(@, m)]
        /\ canStart' = [canStart EXCEPT ![s][k] = FALSE]
        /\ disconnected' = [disconnected EXCEPT ![s] = FALSE]
        /\ watched' = [watched EXCEPT ![s][k] = i]
        /\ connector[s][k] = "connected"
        /\ connector' = [connector EXCEPT ![s][k] = "watch"]
        /\ UNCHANGED <<alive, elected, address, sockets, backlog, listeners>>
    BY <1>8 DEF Connected, Written
  <2>3. chan' \in [Server -> [Socket -> Seq(Message)]]
    <3>1. chan \in [Server -> [Socket -> Seq(Message)]]
      BY <1>1 DEF TypeOK
    <3>2. chan[s][i] \in Seq(Message) /\ Append(chan[s][i], m) \in Seq(Message)
      BY <2>1, <3>1, AppendProperties
    <3>3. CASE chan' = [chan EXCEPT ![s][i] = Append(@, m)]
      <4>1. PICK q \in Seq(Message) : q = Append(chan[s][i], m)
        BY <3>2
      <4>2. chan' = [chan EXCEPT ![s][i] = q]
        BY <3>3, <4>1
      <4>3. QED
        BY <2>1, <3>1, <4>2
    <3>4. QED
      BY <2>2, <3>1, <3>3
  <2>4. /\ canStart' \in [Server -> [Thread -> BOOLEAN]] /\ disconnected' \in [Server -> BOOLEAN]
        /\ connector' \in [Server -> [Thread -> {"off", "start", "connect", "connected", "watch"}]]
    BY <1>1, <2>2 DEF TypeOK
  <2>5. watched' \in [Server -> [Thread -> 0 .. MaxSockets]]
    <3>1. i \in 0 .. MaxSockets
      BY <1>1 DEF TypeOK
    <3>2. QED
      BY <1>1, <2>2, <3>1 DEF TypeOK
  <2>6. TypeOK'
    BY <1>1, <2>2, <2>3, <2>4, <2>5 DEF TypeOK, elected, address, sockets, listeners
  <2>7. \A x \in Server, j \in Thread :
           /\ connector'[x][j] = IF x = s /\ j = k THEN "watch" ELSE connector[x][j]
           /\ watched'[x][j] = IF x = s /\ j = k THEN i ELSE watched[x][j]
    <3>1. \A x \in Server, j \in Thread :
             watched'[x][j] = IF x = s /\ j = k THEN i ELSE watched[x][j]
      BY <1>1, <2>2 DEF TypeOK
    <3>2. \A x \in Server, j \in Thread :
             connector'[x][j] = IF x = s /\ j = k THEN "watch" ELSE connector[x][j]
      BY <1>1, <2>2 DEF TypeOK
    <3>3. QED
      BY <3>1, <3>2
  <2>8. \A x \in Server, j \in Thread :
           /\ connector'[x][j] \notin {"off", "start"} => created'[x] > 0
           /\ connector'[x][j] = "watch" => watched'[x][j] \in Socket
    BY <1>1, <2>1, <2>2, <2>7 DEF Wires, sockets
  <2>9. Wires'
    BY <1>1, <2>2, <2>8 DEF Wires, address, sockets, listeners
  <2>10. QED
    BY <2>6, <2>9 DEF TInv
<1>9. CASE ConnectionFailed(s, k)
  <2>1. /\ disconnected' = [disconnected EXCEPT ![s] = TRUE]
        /\ connector[s][k] = "watch"
        /\ connector' = [connector EXCEPT ![s][k] = "start"]
        /\ UNCHANGED <<alive, elected, address, sockets, chan, backlog, listeners,
                       canStart, watched>>
    BY <1>9 DEF ConnectionFailed
  <2>2. /\ disconnected' \in [Server -> BOOLEAN]
        /\ connector' \in [Server -> [Thread -> {"off", "start", "connect", "connected", "watch"}]]
    BY <1>1, <2>1 DEF TypeOK
  <2>3. TypeOK'
    BY <1>1, <2>1, <2>2 DEF TypeOK, elected, address, sockets, listeners
  <2>4. \A x \in Server, j \in Thread :
           connector'[x][j] = IF x = s /\ j = k THEN "start" ELSE connector[x][j]
    BY <1>1, <2>1 DEF TypeOK
  <2>5. \A x \in Server, j \in Thread :
           /\ connector'[x][j] \notin {"off", "start"} => created'[x] > 0
           /\ connector'[x][j] = "watch" => watched'[x][j] \in Socket
    BY <1>1, <2>1, <2>4 DEF Wires, sockets
  <2>6. Wires'
    BY <1>1, <2>1, <2>5 DEF Wires, address, sockets, listeners
  <2>7. QED
    BY <2>3, <2>6 DEF TInv
<1>10. QED
  BY <1>5, <1>6, <1>7, <1>8, <1>9 DEF ConnectorStep

(* What a listener reads comes from its own channel.                         *)
LEMMA InboxFull ==
    ASSUME TInv, NEW s \in Server, Inbox(s) # <<>>
    PROVE  /\ listener[s] = "listen" /\ from[s][1] \in Server /\ from[s][2] \in Socket
           /\ Inbox(s) = chan[from[s][1]][from[s][2]]
           /\ Inbox(s) \in Seq(Message) /\ Head(Inbox(s)) \in Message
           /\ Tail(Inbox(s)) \in Seq(Message)
           /\ peer[from[s][1]][from[s][2]] = s
<1>1. TypeOK /\ Wires
  BY DEF TInv
<1>2. listener[s] = "listen" /\ Inbox(s) = chan[from[s][1]][from[s][2]]
  BY DEF Inbox
<1>3. from[s] \in Server \X Socket /\ peer[from[s][1]][from[s][2]] = s
  BY <1>1, <1>2 DEF Wires
<1>4. from[s][1] \in Server /\ from[s][2] \in Socket
  BY <1>3
<1>5. Inbox(s) \in Seq(Message)
  <2>1. chan \in [Server -> [Socket -> Seq(Message)]]
    BY <1>1 DEF TypeOK
  <2>2. QED
    BY <1>2, <1>4, <2>1
<1>6. Head(Inbox(s)) \in Message /\ Tail(Inbox(s)) \in Seq(Message)
  BY <1>5, HeadTailProperties
<1>7. QED
  BY <1>2, <1>3, <1>4, <1>5, <1>6

(* What a listener reads and sends leaves messages in the channels.          *)
LEMMA ReadAndSendType ==
    ASSUME TInv, NEW s \in Server, NEW out \in Seq(Message), Inbox(s) # <<>>
    PROVE  ReadAndSend(s, out) \in [Server -> [Socket -> Seq(Message)]]
<1> DEFINE a == from[s][1]
           b == from[s][2]
           i == socketClient[s]
           read == [chan EXCEPT ![a][b] = Tail(@)]
<1>1. a \in Server /\ b \in Socket /\ Tail(chan[a][b]) \in Seq(Message)
  BY InboxFull
<1>2. chan \in [Server -> [Socket -> Seq(Message)]] /\ i \in 0 .. MaxSockets
  BY DEF TInv, TypeOK
<1>3. read \in [Server -> [Socket -> Seq(Message)]]
  <2>1. PICK q \in Seq(Message) : q = Tail(chan[a][b])
    BY <1>1
  <2>2. read = [chan EXCEPT ![a][b] = q]
    BY <2>1
  <2>3. QED
    BY <1>1, <1>2, <2>2
<1> HIDE DEF read
<1>4. ASSUME i # 0 PROVE [read EXCEPT ![s][i] = @ \o out] \in [Server -> [Socket -> Seq(Message)]]
  <2>1. i \in Socket
    BY <1>2, <1>4 DEF Socket
  <2>2. read[s][i] \in Seq(Message)
    BY <1>3, <2>1
  <2>3. read[s][i] \o out \in Seq(Message)
    BY <2>2, ConcatProperties
  <2>4. PICK q \in Seq(Message) : q = read[s][i] \o out
    BY <2>3
  <2>5. [read EXCEPT ![s][i] = @ \o out] = [read EXCEPT ![s][i] = q]
    BY <2>4
  <2>6. QED
    BY <1>3, <2>1, <2>5
<1>5. \/ ReadAndSend(s, out) = read
      \/ i # 0 /\ ReadAndSend(s, out) = [read EXCEPT ![s][i] = @ \o out]
  BY DEF ReadAndSend, read
<1>6. QED
  BY <1>3, <1>4, <1>5

(* An id of the servers is what the messages carry.                          *)
LEMMA LargerId ==
    ASSUME TInv, NEW s \in Server, Inbox(s) # <<>>
    PROVE  Larger(Head(Inbox(s)).id, Id[s]) \in {Id[x] : x \in Server}
<1>1. Head(Inbox(s)).id \in {Id[x] : x \in Server}
  BY InboxFull DEF Message
<1>2. Id[s] \in {Id[x] : x \in Server}
  OBVIOUS
<1>3. QED
  BY <1>1, <1>2 DEF Larger

(* A listener's steps, and a crash.                                          *)
LEMMA TInvListener ==
    ASSUME TInv, NEW s \in Server, ListenerStep(s) \/ Crash(s)
    PROVE  TInv'
<1>1. TypeOK /\ Wires
  BY DEF TInv
<1>2. CASE SpawnConnector(s)
  <2>1. PICK k \in Thread : \/ UNCHANGED connector
                            \/ connector' = [connector EXCEPT ![s][k] = "start"]
    <3>1. 1 \in Thread
      BY ConstantsAssumption DEF Thread
    <3>2. QED
      BY <1>2, <3>1 DEF SpawnConnector
  <2>2. /\ listener' = [listener EXCEPT ![s] = "accept"]
        /\ UNCHANGED <<alive, elected, disconnected, address, sockets, chan, backlog,
                       from, canStart, watched>>
    BY <1>2 DEF SpawnConnector
  <2>3. /\ connector' \in [Server -> [Thread -> {"off", "start", "connect", "connected", "watch"}]]
        /\ listener' \in [Server -> {"spawn", "accept", "listen"}]
    <3>1. connector' \in [Server -> [Thread -> {"off", "start", "connect", "connected", "watch"}]]
      <4>1. CASE UNCHANGED connector
        BY <1>1, <4>1 DEF TypeOK
      <4>2. CASE connector' = [connector EXCEPT ![s][k] = "start"]
        BY <1>1, <4>2 DEF TypeOK
      <4>3. QED
        BY <2>1, <4>1, <4>2
    <3>2. listener' \in [Server -> {"spawn", "accept", "listen"}]
      BY <1>1, <2>2 DEF TypeOK
    <3>3. QED
      BY <3>1, <3>2
  <2>4. TypeOK'
    BY <1>1, <2>2, <2>3 DEF TypeOK, elected, address, sockets
  <2>5. /\ \A x \in Server : listener'[x] = "listen" => listener[x] = "listen"
        /\ \A x \in Server, j \in Thread :
              connector'[x][j] = connector[x][j] \/ connector'[x][j] = "start"
    <3>1. \A x \in Server : listener'[x] = "listen" => listener[x] = "listen"
      BY <1>1, <2>2 DEF TypeOK
    <3>2. \A x \in Server, j \in Thread :
             connector'[x][j] = connector[x][j] \/ connector'[x][j] = "start"
      <4>1. CASE UNCHANGED connector
        BY <4>1
      <4>2. CASE connector' = [connector EXCEPT ![s][k] = "start"]
        BY <1>1, <4>2 DEF TypeOK
      <4>3. QED
        BY <2>1, <4>1, <4>2
    <3>3. QED
      BY <3>1, <3>2
  <2>6. \A x \in Server, j \in Thread :
           /\ connector'[x][j] \notin {"off", "start"} => created'[x] > 0
           /\ connector'[x][j] = "watch" => watched'[x][j] \in Socket
    BY <1>1, <2>2, <2>5 DEF Wires, sockets
  <2>7. Wires'
    BY <1>1, <2>2, <2>5, <2>6 DEF Wires, address, sockets
  <2>8. QED
    BY <2>4, <2>7 DEF TInv
<1>3. CASE Accept(s)
  <2>1. /\ backlog[s] # <<>>
        /\ from' = [from EXCEPT ![s] = Head(backlog[s])]
        /\ backlog' = [backlog EXCEPT ![s] = Tail(backlog[s])]
        /\ listener' = [listener EXCEPT ![s] = "listen"]
        /\ UNCHANGED <<alive, elected, disconnected, address, sockets, chan, connectors>>
    BY <1>3 DEF Accept
  <2>2. /\ backlog[s] \in Seq(Server \X Socket) /\ Len(backlog[s]) \in Nat \ {0}
        /\ Head(backlog[s]) \in Server \X Socket /\ Head(backlog[s]) = backlog[s][1]
        /\ Tail(backlog[s]) \in Seq(Server \X Socket)
        /\ Len(Tail(backlog[s])) = Len(backlog[s]) - 1
        /\ \A n \in 1 .. Len(Tail(backlog[s])) : Tail(backlog[s])[n] = backlog[s][n + 1]
    <3>1. backlog[s] \in Seq(Server \X Socket)
      BY <1>1 DEF TypeOK
    <3>2. QED
      BY <2>1, <3>1, HeadTailProperties, EmptySeq, LenProperties
  <2>3. from' \in [Server -> (Server \X Socket) \cup {<<0, 0>>}]
    BY <1>1, <2>1, <2>2 DEF TypeOK
  <2>4. backlog' \in [Server -> Seq(Server \X Socket)]
    <3>1. backlog \in [Server -> Seq(Server \X Socket)]
      BY <1>1 DEF TypeOK
    <3>2. QED
      BY <2>1, <2>2, <3>1
  <2>5. listener' \in [Server -> {"spawn", "accept", "listen"}]
    BY <1>1, <2>1 DEF TypeOK
  <2>6. TypeOK'
    BY <1>1, <2>1, <2>3, <2>4, <2>5 DEF TypeOK, elected, address, sockets, connectors
  <2>7. \A x \in Server : /\ from'[x] = IF x = s THEN backlog[s][1] ELSE from[x]
                          /\ x # s => backlog'[x] = backlog[x] /\ listener'[x] = listener[x]
    <3>1. \A x \in Server : from'[x] = IF x = s THEN backlog[s][1] ELSE from[x]
      BY <1>1, <2>1, <2>2 DEF TypeOK
    <3>2. \A x \in Server : x # s => backlog'[x] = backlog[x]
      BY <1>1, <2>1 DEF TypeOK
    <3>3. \A x \in Server : x # s => listener'[x] = listener[x]
      BY <1>1, <2>1 DEF TypeOK
    <3>4. QED
      BY <3>1, <3>2, <3>3
  <2>8. backlog'[s] = Tail(backlog[s])
    BY <1>1, <2>1 DEF TypeOK
  <2>9. ASSUME NEW t \in Server, listener'[t] = "listen"
        PROVE  from'[t] \in Server \X Socket /\ peer'[from'[t][1]][from'[t][2]] = t
    <3>1. CASE t = s
      BY <1>1, <2>1, <2>2, <2>7, <3>1 DEF Wires, sockets
    <3>2. CASE t # s
      BY <1>1, <2>1, <2>7, <2>9, <3>2 DEF Wires, sockets
    <3>3. QED
      BY <3>1, <3>2
  <2>10. ASSUME NEW t \in Server, NEW n \in 1 .. Len(backlog'[t])
         PROVE  peer'[backlog'[t][n][1]][backlog'[t][n][2]] = t
    <3>1. CASE t = s
      <4>1. n + 1 \in 1 .. Len(backlog[s]) /\ backlog'[t][n] = backlog[s][n + 1]
        <5>1. n \in 1 .. Len(Tail(backlog[s])) /\ backlog'[t][n] = Tail(backlog[s])[n]
          BY <2>8, <2>10, <3>1
        <5>2. QED
          BY <2>2, <5>1
      <4>2. QED
        BY <1>1, <2>1, <3>1, <4>1 DEF Wires, sockets
    <3>2. CASE t # s
      BY <1>1, <2>1, <2>7, <3>2 DEF Wires, sockets
    <3>3. QED
      BY <3>1, <3>2
  <2>11. Wires'
    BY <1>1, <2>1, <2>9, <2>10 DEF Wires, address, sockets, connectors
  <2>12. QED
    BY <2>6, <2>11 DEF TInv
<1>4. CASE JoinElection(s) \/ PassCandidate(s) \/ AcceptResult(s)
  <2> DEFINE m == Head(Inbox(s))
  <2>1. /\ Inbox(s) # <<>>
        /\ UNCHANGED <<alive, disconnected, address, sockets, backlog, listeners, connectors>>
    BY <1>4 DEF JoinElection, PassCandidate, AcceptResult, elected
  <2>2. m \in Message
    BY <2>1, InboxFull
  <2>3. \E out \in Seq(Message) : chan' = ReadAndSend(s, out)
    <3>1. \A v \in Message : <<v>> \in Seq(Message)
      OBVIOUS
    <3>2. CASE JoinElection(s)
      <4>1. [status |-> "ELECTION", id |-> Larger(m.id, Id[s])] \in Message
        BY <2>1, LargerId DEF Message
      <4>2. QED
        BY <3>1, <3>2, <4>1 DEF JoinElection
    <3>3. CASE PassCandidate(s)
      <4>1. (IF m.id = Id[s] THEN [status |-> "ELECTED", id |-> m.id] ELSE m) \in Message
        BY <2>2 DEF Message
      <4>2. QED
        BY <3>1, <3>3, <4>1 DEF PassCandidate
    <3>4. CASE AcceptResult(s)
      <4>1. <<>> \in Seq(Message)
        OBVIOUS
      <4>2. (IF m.id = Id[s] THEN <<>> ELSE <<m>>) \in Seq(Message)
        BY <2>2, <3>1, <4>1
      <4>3. QED
        BY <3>4, <4>2 DEF AcceptResult
    <3>5. QED
      BY <1>4, <3>2, <3>3, <3>4
  <2>4. chan' \in [Server -> [Socket -> Seq(Message)]]
    BY <2>1, <2>3, ReadAndSendType
  <2>5. participating' \in [Server -> BOOLEAN]
    <3>1. PICK b \in BOOLEAN : participating' = [participating EXCEPT ![s] = b]
                               \/ participating' = participating
      BY <1>4 DEF JoinElection, PassCandidate, AcceptResult, elected
    <3>2. QED
      BY <1>1, <3>1 DEF TypeOK
  <2>6. primary' \in [Server -> {Id[x] : x \in Server}]
    <3>1. m.id \in {Id[x] : x \in Server}
      BY <2>2 DEF Message
    <3>2. primary' = [primary EXCEPT ![s] = m.id] \/ primary' = primary
      BY <1>4 DEF JoinElection, PassCandidate, AcceptResult, elected
    <3>3. QED
      BY <1>1, <3>1, <3>2 DEF TypeOK
  <2>7. isPrimary' \in [Server -> BOOLEAN]
    <3>1. \/ isPrimary' = [isPrimary EXCEPT ![s] = isPrimary[s] \/ m.id = Id[s]]
          \/ isPrimary' = isPrimary
      BY <1>4 DEF JoinElection, PassCandidate, AcceptResult, elected
    <3>2. (isPrimary[s] \/ m.id = Id[s]) \in BOOLEAN
      OBVIOUS
    <3>3. PICK b \in BOOLEAN : isPrimary' = [isPrimary EXCEPT ![s] = b] \/ isPrimary' = isPrimary
      BY <3>1, <3>2
    <3>4. QED
      BY <1>1, <3>3 DEF TypeOK
  <2>8. TypeOK'
    BY <1>1, <2>1, <2>4, <2>5, <2>6, <2>7 DEF TypeOK, address, sockets, listeners, connectors
  <2>9. Wires'
    BY <1>1, <2>1 DEF Wires, address, sockets, listeners, connectors
  <2>10. QED
    BY <2>8, <2>9 DEF TInv
<1>5. CASE PredecessorGone(s)
  <2>1. /\ disconnected' = [disconnected EXCEPT ![s] = TRUE]
        /\ listener' = [listener EXCEPT ![s] = "spawn"]
        /\ from' = [from EXCEPT ![s] = <<0, 0>>]
        /\ UNCHANGED <<alive, elected, address, sockets, chan, backlog, connectors>>
    BY <1>5 DEF PredecessorGone
  <2>2. /\ disconnected' \in [Server -> BOOLEAN]
        /\ listener' \in [Server -> {"spawn", "accept", "listen"}]
    BY <1>1, <2>1 DEF TypeOK
  <2>3. from' \in [Server -> (Server \X Socket) \cup {<<0, 0>>}]
    BY <1>1, <2>1 DEF TypeOK
  <2>4. TypeOK'
    BY <1>1, <2>1, <2>2, <2>3 DEF TypeOK, elected, address, sockets, connectors
  <2>5. \A x \in Server : listener'[x] = "listen" => listener[x] = "listen" /\ from'[x] = from[x]
    BY <1>1, <2>1 DEF TypeOK
  <2>6. Wires'
    BY <1>1, <2>1, <2>5 DEF Wires, address, sockets, connectors
  <2>7. QED
    BY <2>4, <2>6 DEF TInv
<1>6. CASE Crash(s)
  <2>1. alive' = alive \ {s} /\ UNCHANGED <<elected, disconnected, address, sockets, chan,
                                            backlog, listeners, connectors>>
    BY <1>6 DEF Crash
  <2>2. TypeOK'
    BY <1>1, <2>1 DEF TypeOK, elected, address, sockets, listeners, connectors
  <2>3. Wires'
    BY <1>1, <2>1 DEF Wires, address, sockets, listeners, connectors
  <2>4. QED
    BY <2>2, <2>3 DEF TInv
<1>7. QED
  BY <1>2, <1>3, <1>4, <1>5, <1>6 DEF ListenerStep

(* What a stuttering step leaves alone.                                      *)
LEMMA TInvStutter == TInv /\ UNCHANGED vars => TInv'
<1> SUFFICES ASSUME TInv, UNCHANGED vars PROVE TInv'
  OBVIOUS
<1>1. TypeOK'
  BY DEF TInv, TypeOK, vars
<1>2. Wires'
  BY DEF TInv, Wires, vars
<1>3. QED
  BY <1>1, <1>2 DEF TInv

(* Every variable of the ring keeps its type (the shared state of the        *)
(* connector and listener threads of ServersRing).                           *)
THEOREM TypeCorrect == Spec => []TInv
<1>1. ASSUME TInv, [Next]_vars PROVE TInv'
  <2>1. CASE Next
    BY <1>1, <2>1, TInvConnector, TInvListener DEF Next
  <2>2. QED
    BY <1>1, <2>1, TInvStutter
<1>2. QED
  BY TInvInit, <1>1, PTL DEF Spec

-----------------------------------------------------------------------------
(* The inductive invariant when the crashes are apart.                       *)

(* t is the first live server after s.                                       *)
Nearest(s, t) == \A u \in alive : Dist(s, t) <= Dist(s, u)

(* The last server, connected to itself, starts one more connector.          *)
Second(s, k) ==
    /\ alive = {s} /\ alive # Server /\ connector[s][k] = "start"
    /\ connector[s][1] = "watch" /\ clientAddr[s] = s
    /\ listener[s] # "spawn" /\ (listener[s] = "listen" => from[s][1] = s)

(* The connectors of a live server: the socket created last is the only one  *)
(* that reaches a live server, the first one starts only when it lost its    *)
(* successor, and a second one only in a ring of one.                        *)
Sound(s) ==
    /\ \A i \in Socket : i # socketClient[s] => peer[s][i] \notin alive
    /\ clientAddr[s] # 0 => Nearest(s, clientAddr[s])
    /\ connector[s][1] = "off" => clientAddr[s] = 0
    /\ connector[s][1] = "start" => clientAddr[s] \notin alive
    /\ connector[s][1] \in {"off", "start"} => Successor(s) \notin alive
    /\ connector[s][1] = "connect" => Successor(s) = 0
    /\ connector[s][1] = "connected" => Successor(s) = clientAddr[s] /\ clientAddr[s] \in alive
    /\ connector[s][1] = "watch" =>
          watched[s][1] = socketClient[s] /\ Successor(s) = clientAddr[s] /\ ~canStart[s][1]
    /\ \A k \in Thread \ {1} : connector[s][k] # "off" => Second(s, k)
    /\ \A j, k \in Thread \ {1} : connector[s][j] # "off" /\ connector[s][k] # "off" => j = k

(* At most the new predecessor waits to be accepted, and only once the old   *)
(* one is gone.                                                              *)
Queues ==
    \A t \in alive :
        /\ Len(backlog[t]) <= 1
        /\ \A n \in 1 .. Len(backlog[t]) : backlog[t][n][1] \in alive
        /\ backlog[t] # <<>> => listener[t] # "listen" \/ from[t][1] \notin alive

(* A server that has its successor.                                          *)
Up(s) ==
    /\ connector[s][1] = "watch" /\ clientAddr[s] \in alive
    /\ listener[s] = "spawn" => disconnected[s] \/ alive = {s}

(* A server that has lost its successor and looks for the next one.          *)
Busy(p) ==
    /\ \/ connector[p][1] = "watch" /\ clientAddr[p] \notin alive
       \/ connector[p][1] \in {"start", "connect", "connected"} /\ disconnected[p]
    /\ clientAddr[p] # 0
    /\ connector[p][1] = "connect" => clientAddr[p] # NextLine(p)
    /\ listener[p] = "spawn" => disconnected[p]
    /\ alive # {p} => listener[p] = "listen" /\ from[p][1] \in alive

(* Between elections.                                                        *)
NoneParticipates == \A s \in alive : ~participating[s]
NoMessages == \A s \in Server, i \in Socket : chan[s][i] = <<>>

(* At the start, every server makes its first connection.                    *)
Forming ==
    /\ alive = Server
    /\ \A s \in Server : /\ ~disconnected[s] /\ ~canStart[s][1]
                         /\ (connector[s][1] = "off") <=> (listener[s] = "spawn")
                         /\ isPrimary[s] <=> (s = 1)
                         /\ primary[s] = Id[1]
(* One live server is primary and all know it.                               *)
Led == \E l \in alive : \A s \in alive : (isPrimary[s] <=> (s = l)) /\ primary[s] = Id[l]

(* The primary is gone, and p, its predecessor, will start the election.     *)
Leaderless(p) ==
    \E d \in Server \ alive :
        /\ \A s \in alive : ~isPrimary[s] /\ primary[s] = Id[d]
        /\ connector[p][1] \in {"watch", "start"} => clientAddr[p] = d
        /\ connector[p][1] \in {"connect", "connected"} => canStart[p][1]

(* After a crash, only p may lack its successor.                             *)
Mending(p) ==
    /\ alive # Server
    /\ \A s \in alive \ {p} : Up(s)
    /\ \/ Up(p) /\ Led
       \/ Busy(p) /\ Led /\ (connector[p][1] \in {"connect", "connected"} => ~canStart[p][1])
       \/ Busy(p) /\ Leaderless(p)

Quiet ==
    NoneParticipates /\ NoMessages /\ (Forming \/ \E p \in alive : Mending(p))

(* One message is on its way, from x.                                        *)
Token(x, m) ==
    \A s \in Server, i \in Socket :
        chan[s][i] = IF s = x /\ i = socketClient[x] THEN <<m>> ELSE <<>>

Highest(w) == \A s \in alive : Id[s] <= Id[w]

(* The first round of an election that p started: those up to x take part    *)
(* and m carries the highest port of them and p.                             *)
FirstRound(p, x, m) ==
    /\ m.status = "ELECTION"
    /\ \E b \in alive : m.id = Id[b]
    /\ m.id >= Id[p]
    /\ \A s \in alive : /\ participating[s] <=> (x # p /\ Dist(p, s) <= Dist(p, x))
                        /\ participating[s] => m.id >= Id[s]
(* The second round: all take part and m carries the highest port of all.    *)
SecondRound(m) ==
    /\ m.status = "ELECTION"
    /\ \E w \in alive : m.id = Id[w] /\ Highest(w)
    /\ \A s \in alive : participating[s]
(* The third round: m says that w has won, and those up to x know.           *)
Result(w, x, m) ==
    /\ m.status = "ELECTED" /\ m.id = Id[w] /\ Highest(w)
    /\ \A s \in alive : /\ participating[s] <=> (x = w \/ Dist(w, x) < Dist(w, s))
                        /\ ~participating[s] => primary[s] = Id[w]

Election ==
    /\ alive # Server
    /\ \A s \in alive : Up(s) /\ ~isPrimary[s]
    /\ \E x \in alive, m \in Message :
          /\ Token(x, m)
          /\ \/ \E p \in alive : FirstRound(p, x, m)
             \/ SecondRound(m)
             \/ \E w \in alive : Result(w, x, m)

(* The last server, alone and connecting to a server that is dead: it never  *)
(* gets a connection again.                                                  *)
Stuck(s) ==
    /\ alive = {s} /\ N > 2
    /\ connector[s][1] = "connect" /\ Successor(s) = 0
    /\ \A i \in Socket : peer[s][i] # s
    /\ clientAddr[s] # s
    /\ backlog[s] = <<>>
    /\ \A k \in Thread \ {1} :
          /\ connector[s][k] \in {"off", "start", "connect"}
          /\ connector[s][k] # "off" => listener[s] = "accept"
          /\ connector[s][k] = "start" => ~disconnected[s] /\ clientAddr[s] = NextLine(s)
    /\ \A j, k \in Thread \ {1} : connector[s][j] # "off" /\ connector[s][k] # "off" => j = k
    /\ listener[s] = "spawn" /\ ~disconnected[s] => clientAddr[s] = NextLine(s)

(* The last server, connected to itself, with a second connector that waits  *)
(* for a server that is dead.                                                *)
Deaf(s) ==
    /\ alive = {s} /\ N > 1
    /\ Successor(s) = 0
    /\ clientAddr[s] # s
    /\ \A k \in Thread :
          \/ connector[s][k] \in {"off", "connect"}
          \/ connector[s][k] = "watch" /\ peer[s][watched[s][k]] = s
    /\ listener[s] \in {"accept", "listen"}
    /\ listener[s] = "listen" => from[s][1] = s
    /\ \A n \in 1 .. Len(backlog[s]) : backlog[s][n][1] = s

RingInv == (\A s \in alive : Sound(s)) /\ Queues /\ (Quiet \/ Election)
(* The invariant.                                                            *)
RInv == alive = {} \/ RingInv \/ \E s \in alive : Stuck(s) \/ Deaf(s)

(* What belongs to x stays.                                                  *)
Kept(x) ==
    /\ primary'[x] = primary[x] /\ isPrimary'[x] = isPrimary[x]
    /\ participating'[x] = participating[x] /\ disconnected'[x] = disconnected[x]
    /\ clientAddr'[x] = clientAddr[x] /\ socketClient'[x] = socketClient[x]
    /\ peer'[x] = peer[x] /\ listener'[x] = listener[x] /\ from'[x] = from[x]
    /\ connector'[x] = connector[x] /\ canStart'[x] = canStart[x] /\ watched'[x] = watched[x]

(* A thread touches only its own server, its peers' queues and channels.     *)
LEMMA Locality ==
    ASSUME TInv, NEW s \in Server, NEW x \in Server, x # s,
           ListenerStep(s) \/ \E k \in Thread : ConnectorStep(s, k)
    PROVE  Kept(x) /\ alive' = alive
<1>1. TypeOK
  BY DEF TInv
<1>2. ASSUME NEW k \in Thread, StartConnector(s, k) PROVE Kept(x) /\ alive' = alive
  BY <1>1, <1>2 DEF StartConnector, TypeOK, Kept, elected, listeners
<1>3. ASSUME NEW k \in Thread, Connect(s, k) PROVE Kept(x) /\ alive' = alive
  BY <1>1, <1>3 DEF Connect, TypeOK, Kept, elected, listeners, address
<1>4. ASSUME NEW k \in Thread, TryNextPort(s, k) PROVE Kept(x) /\ alive' = alive
  BY <1>1, <1>4 DEF TryNextPort, TypeOK, Kept, elected, listeners, sockets, connectors
<1>5. ASSUME NEW k \in Thread, OnlyServerLeft(s, k) PROVE Kept(x) /\ alive' = alive
  BY <1>1, <1>5 DEF OnlyServerLeft, TypeOK, Kept, listeners, sockets, connectors
<1>6. ASSUME NEW k \in Thread, Connected(s, k) PROVE Kept(x) /\ alive' = alive
  BY <1>1, <1>6 DEF Connected, TypeOK, Kept, elected, address, listeners, sockets
<1>7. ASSUME NEW k \in Thread, ConnectionFailed(s, k) PROVE Kept(x) /\ alive' = alive
  BY <1>1, <1>7 DEF ConnectionFailed, TypeOK, Kept, elected, address, listeners, sockets
<1>8. ASSUME SpawnConnector(s) PROVE Kept(x) /\ alive' = alive
  <2>1. connector'[x] = connector[x]
    BY <1>1, <1>8 DEF SpawnConnector, TypeOK
  <2>2. QED
    BY <1>1, <1>8, <2>1 DEF SpawnConnector, TypeOK, Kept, elected, address, sockets
<1>9. ASSUME Accept(s) PROVE Kept(x) /\ alive' = alive
  BY <1>1, <1>9 DEF Accept, TypeOK, Kept, elected, address, sockets, connectors
<1>10. ASSUME JoinElection(s) PROVE Kept(x) /\ alive' = alive
  BY <1>1, <1>10 DEF JoinElection, TypeOK, Kept, address, sockets, listeners, connectors
<1>11. ASSUME PassCandidate(s) PROVE Kept(x) /\ alive' = alive
  BY <1>1, <1>11 DEF PassCandidate, TypeOK, Kept, elected, address, sockets, listeners, connectors
<1>12. ASSUME AcceptResult(s) PROVE Kept(x) /\ alive' = alive
  BY <1>1, <1>12 DEF AcceptResult, TypeOK, Kept, address, sockets, listeners, connectors
<1>13. ASSUME PredecessorGone(s) PROVE Kept(x) /\ alive' = alive
  BY <1>1, <1>13 DEF PredecessorGone, TypeOK, Kept, elected, address, sockets, connectors
<1>14. QED
  BY <1>2, <1>3, <1>4, <1>5, <1>6, <1>7, <1>8, <1>9, <1>10, <1>11, <1>12, <1>13
     DEF ListenerStep, ConnectorStep

(* So what holds of another server's connectors still does.                  *)
LEMMA KeptSound ==
    ASSUME NEW x \in Server, alive' = alive, Kept(x)
    PROVE  /\ Sound(x) => Sound(x)'
           /\ Up(x) => Up(x)'
           /\ Busy(x) => Busy(x)'
  BY DEF Kept, Sound, Up, Busy, Second, Successor, Nearest

(* Sockets that reach a live server are the ones their owners created last.  *)
LEMMA Wired ==
    ASSUME TInv, \A x \in alive : Sound(x), NEW x \in alive, NEW j \in Socket,
           peer[x][j] \in alive
    PROVE  /\ j = socketClient[x] /\ Successor(x) = peer[x][j] /\ clientAddr[x] = peer[x][j]
           /\ connector[x][1] \in {"connected", "watch"} /\ Nearest(x, peer[x][j])
<1>1. TypeOK /\ alive \subseteq Server /\ x \in Server
  BY DEF TInv, TypeOK
<1>2. j = socketClient[x] /\ j # 0
  BY ConstantsAssumption DEF Sound, Socket
<1>3. Successor(x) = peer[x][j]
  BY <1>2 DEF Successor
<1>4. 1 \in Thread
  BY ConstantsAssumption DEF Thread
<1>5. connector[x][1] \in {"off", "start", "connect", "connected", "watch"}
  BY <1>1, <1>4 DEF TypeOK
<1>6. \A u \in alive : u # 0
  BY <1>1 DEF Server
<1>7. connector[x][1] \in {"connected", "watch"} /\ clientAddr[x] = peer[x][j]
  BY <1>3, <1>5, <1>6 DEF Sound
<1>8. Nearest(x, peer[x][j])
  BY <1>6, <1>7 DEF Sound
<1>9. QED
  BY <1>2, <1>3, <1>7, <1>8

(* A live server has one predecessor.                                        *)
LEMMA OnePredecessor ==
    ASSUME TypeOK, NEW x \in alive, NEW y \in alive, NEW t \in alive, Nearest(x, t), Nearest(y, t)
    PROVE  x = y
<1>1. x \in Server /\ y \in Server /\ t \in Server
  BY DEF TypeOK
<1>2. Dist(x, t) <= Dist(x, y) /\ Dist(y, t) <= Dist(y, x)
  BY DEF Nearest
<1>3. QED
  BY <1>1, <1>2, DistApart

(* Nobody waits for a server or is listened to by it that it is not the      *)
(* successor of.                                                             *)
LEMMA Listened ==
    ASSUME TInv, \A x \in alive : Sound(x), Queues, NEW t \in alive
    PROVE  /\ listener[t] = "listen" /\ from[t][1] \in alive =>
                 /\ from[t][2] = socketClient[from[t][1]] /\ clientAddr[from[t][1]] = t
                 /\ Successor(from[t][1]) = t /\ Nearest(from[t][1], t)
           /\ \A n \in 1 .. Len(backlog[t]) :
                 /\ backlog[t][n][1] \in alive
                 /\ backlog[t][n][2] = socketClient[backlog[t][n][1]]
                 /\ clientAddr[backlog[t][n][1]] = t
                 /\ Successor(backlog[t][n][1]) = t /\ Nearest(backlog[t][n][1], t)
<1>1. TypeOK /\ Wires /\ t \in Server
  BY DEF TInv, TypeOK
<1>2. ASSUME listener[t] = "listen", from[t][1] \in alive
      PROVE  /\ from[t][2] = socketClient[from[t][1]] /\ clientAddr[from[t][1]] = t
             /\ Successor(from[t][1]) = t /\ Nearest(from[t][1], t)
  <2>1. from[t] \in Server \X Socket /\ peer[from[t][1]][from[t][2]] = t
    BY <1>1, <1>2 DEF Wires
  <2>2. from[t][2] \in Socket
    BY <2>1
  <2>3. QED
    BY <1>2, <2>1, <2>2, Wired
<1>3. ASSUME NEW n \in 1 .. Len(backlog[t])
      PROVE  /\ backlog[t][n][1] \in alive
             /\ backlog[t][n][2] = socketClient[backlog[t][n][1]]
             /\ clientAddr[backlog[t][n][1]] = t
             /\ Successor(backlog[t][n][1]) = t /\ Nearest(backlog[t][n][1], t)
  <2>1. backlog[t] \in Seq(Server \X Socket)
    BY <1>1 DEF TypeOK
  <2>2. backlog[t][n] \in Server \X Socket
    BY <2>1, ElementOfSeq
  <2>3. backlog[t][n][2] \in Socket
    BY <2>2
  <2>4. backlog[t][n][1] \in alive
    BY DEF Queues
  <2>5. peer[backlog[t][n][1]][backlog[t][n][2]] = t
    BY <1>1 DEF Wires
  <2>6. QED
    BY <2>3, <2>4, <2>5, Wired
<1>4. QED
  BY <1>2, <1>3

(* While its first connector does not watch a live server, a server has no   *)
(* second one.                                                               *)
LEMMA OneConnector ==
    ASSUME NEW s, Sound(s), NEW k \in Thread, connector[s][k] # "off",
           ~(connector[s][1] = "watch" /\ clientAddr[s] \in alive)
    PROVE  k = 1
<1>1. k \in Thread \ {1} => Second(s, k)
  BY DEF Sound
<1>2. ~Second(s, k)
  BY DEF Second
<1>3. QED
  BY <1>1, <1>2

(* A server that has a connection to make is the one that mends the ring, or *)
(* the ring is still being formed.                                           *)
LEMMA WhoConnects ==
    ASSUME RingInv, NEW s \in alive, connector[s][1] # "off",
           ~(connector[s][1] = "watch" /\ clientAddr[s] \in alive)
    PROVE  /\ NoneParticipates /\ NoMessages
           /\ Forming \/ (Mending(s) /\ Busy(s))
<1>1. ~Up(s)
  BY DEF Up
<1>2. Quiet
  BY <1>1 DEF RingInv, Election
<1>3. CASE \E p \in alive : Mending(p)
  <2>1. PICK p \in alive : Mending(p)
    BY <1>3
  <2>2. p = s
    BY <1>1, <2>1 DEF Mending
  <2>3. QED
    BY <1>1, <1>2, <2>1, <2>2 DEF Mending, Quiet
<1>4. QED
  BY <1>2, <1>3 DEF Quiet

(* The connectors of the other servers stay sound.                           *)
LEMMA RestSound ==
    ASSUME TInv, NEW s \in alive, ListenerStep(s) \/ \E k \in Thread : ConnectorStep(s, k),
           \A x \in alive : Sound(x), Sound(s)'
    PROVE  /\ alive' = alive /\ \A x \in alive' : Sound(x)'
           /\ \A x \in alive \ {s} : Kept(x) /\ (Up(x) => Up(x)') /\ (Busy(x) => Busy(x)')
<1>1. alive \subseteq Server
  BY DEF TInv, TypeOK
<1>2. ASSUME NEW x \in alive, x # s
      PROVE  /\ Kept(x) /\ alive' = alive /\ Sound(x)'
             /\ (Up(x) => Up(x)') /\ (Busy(x) => Busy(x)')
  <2>1. Kept(x) /\ alive' = alive
    BY <1>1, <1>2, Locality
  <2>2. QED
    BY <1>1, <1>2, <2>1, KeptSound
<1>3. alive' = alive
  BY DEF ListenerStep, ConnectorStep, StartConnector, Connect, TryNextPort, OnlyServerLeft,
         Connected, ConnectionFailed, SpawnConnector, Accept, JoinElection, PassCandidate,
         AcceptResult, PredecessorGone
<1>4. QED
  BY <1>2, <1>3

(* A connection goes out of its way only by this: what a connector does to   *)
(* its own server, as the phases see it.                                     *)
LEMMA StillForming ==
    ASSUME TInv, Forming, NEW s \in Server, NEW k \in Thread, ConnectorStep(s, k),
           isPrimary' = isPrimary, primary' = primary, ~disconnected'[s], ~canStart'[s][1],
           connector[s][1] # "off", connector'[s][1] # "off", listener' = listener
    PROVE  Forming'
<1>1. alive' = alive
  BY DEF ConnectorStep, StartConnector, Connect, TryNextPort, OnlyServerLeft,
         Connected, ConnectionFailed
<1>2. ASSUME NEW x \in Server
      PROVE  /\ ~disconnected'[x] /\ ~canStart'[x][1]
             /\ (connector'[x][1] = "off") <=> (listener'[x] = "spawn")
             /\ isPrimary'[x] <=> (x = 1)
             /\ primary'[x] = Id[1]
  <2>1. CASE x = s
    BY <2>1 DEF Forming
  <2>2. CASE x # s
    <3>1. Kept(x)
      BY <2>2, Locality
    <3>2. QED
      BY <3>1 DEF Forming, Kept
  <2>3. QED
    BY <2>1, <2>2
<1>3. QED
  BY <1>1, <1>2 DEF Forming

(* The ring is mended until its busy server s is up again, as long as s knows *)
(* of the dead primary what it has to know to start the election.            *)
LEMMA StillMending ==
    ASSUME NEW s \in alive, Mending(s), Busy(s), alive' = alive,
           \A x \in alive \ {s} : Up(x) => Up(x)',
           isPrimary' = isPrimary, primary' = primary, Busy(s)',
           Led => (connector'[s][1] \in {"connect", "connected"} => ~canStart'[s][1]),
           \A d \in Server \ alive :
              /\ \A x \in alive : primary[x] = Id[d]
              /\ connector[s][1] \in {"watch", "start"} => clientAddr[s] = d
              /\ connector[s][1] \in {"connect", "connected"} => canStart[s][1]
              => /\ connector'[s][1] \in {"watch", "start"} => clientAddr'[s] = d
                 /\ connector'[s][1] \in {"connect", "connected"} => canStart'[s][1],
           ~Up(s)
    PROVE  Mending(s)'
<1>1. alive' # Server /\ \A x \in alive' \ {s} : Up(x)'
  BY DEF Mending
<1>2. CASE Led /\ (connector[s][1] \in {"connect", "connected"} => ~canStart[s][1])
  <2>1. Led'
    BY <1>2 DEF Led
  <2>2. QED
    BY <1>1, <1>2, <2>1 DEF Mending
<1>3. CASE Leaderless(s)
  <2>1. PICK d \in Server \ alive :
           /\ \A x \in alive : ~isPrimary[x] /\ primary[x] = Id[d]
           /\ connector[s][1] \in {"watch", "start"} => clientAddr[s] = d
           /\ connector[s][1] \in {"connect", "connected"} => canStart[s][1]
    BY <1>3 DEF Leaderless
  <2>2. Leaderless(s)'
    BY <2>1 DEF Leaderless
  <2>3. QED
    BY <1>1, <2>2 DEF Mending
<1>4. QED
  BY <1>2, <1>3 DEF Mending

(* The queues, when nobody connects.                                         *)
LEMMA StillQueues ==
    ASSUME Queues, alive' = alive, backlog' = backlog,
           \A t \in alive : listener'[t] = "listen" => listener[t] = "listen" /\ from'[t] = from[t]
    PROVE  Queues'
  BY DEF Queues

(* A connector starts over in the ring.                                      *)
LEMMA RingStart ==
    ASSUME TInv, TInv', RingInv, NEW s \in alive, NEW k \in Thread, StartConnector(s, k)
    PROVE  RInv'
<1> DEFINE a == clientAddr[s]
           n == created[s] + 1
<1>1. TypeOK /\ Wires /\ Wires' /\ s \in Server /\ alive \subseteq Server /\ Sound(s)
  BY DEF TInv, TypeOK, RingInv
<1>2. /\ connector[s][k] = "start" /\ filePos[s] \in Server
      /\ created'[s] = n /\ socketClient'[s] = n
      /\ clientAddr'[s] = NextLine(filePos[s])
      /\ canStart'[s][k] = (a # 0 /\ Id[a] = primary[s])
      /\ connector'[s][k] = "connect"
      /\ \A j \in Thread \ {k} :
            connector'[s][j] = connector[s][j] /\ canStart'[s][j] = canStart[s][j]
      /\ UNCHANGED <<alive, elected, disconnected, peer, chan, backlog, listeners, watched>>
  <2>1. /\ canStart'[s][k] = (a # 0 /\ Id[a] = primary[s])
        /\ \A j \in Thread \ {k} : canStart'[s][j] = canStart[s][j]
    BY <1>1 DEF StartConnector, TypeOK
  <2>2. /\ connector'[s][k] = "connect"
        /\ \A j \in Thread \ {k} : connector'[s][j] = connector[s][j]
    BY <1>1 DEF StartConnector, TypeOK
  <2>3. QED
    BY <1>1, <2>1, <2>2 DEF StartConnector, TypeOK
<1>3. n \in Socket /\ peer[s][n] = 0 /\ created[s] \in Nat /\ n # 0
  <2>1. created[s] \in 0 .. MaxSockets /\ created[s] < MaxSockets
    BY <1>1 DEF TypeOK, StartConnector
  <2>2. n \in Socket /\ created[s] \in Nat /\ n # 0 /\ n > created[s]
    BY <2>1, ConstantsAssumption DEF Socket
  <2>3. QED
    BY <1>1, <2>2 DEF Wires
<1>4. Successor(s)' = 0
  BY <1>2, <1>3 DEF Successor
<1>5. CASE k # 1
  <2>1. Second(s, k)
    BY <1>1, <1>2, <1>5 DEF Sound
  <2>2. alive = {s} /\ N > 1
    <3>1. alive = {s} /\ \E x \in Server : x # s
      BY <1>1, <2>1 DEF Second
    <3>2. QED
      BY <1>1, <3>1, ConstantsAssumption DEF Server
  <2>3. clientAddr'[s] = NextLine(s) /\ NextLine(s) # s
    BY <1>1, <1>2, <2>1, <2>2, ConstantsAssumption DEF Second, Wires, NextLine, Server
  <2>4. ASSUME NEW j \in Thread
        PROVE  \/ connector'[s][j] \in {"off", "connect"}
               \/ connector'[s][j] = "watch" /\ peer'[s][watched'[s][j]] = s
    <3>1. CASE j = k
      BY <1>2, <3>1
    <3>2. CASE j # k /\ j # 1
      <4>1. connector[s][j] = "off"
        BY <1>1, <1>2, <1>5, <3>2 DEF Sound
      <4>2. QED
        BY <1>2, <3>2, <4>1
    <3>3. CASE j # k /\ j = 1
      <4>1. connector[s][1] = "watch" /\ clientAddr[s] = s
        BY <2>1 DEF Second
      <4>2. watched[s][1] = socketClient[s] /\ Successor(s) = s
        BY <1>1, <4>1 DEF Sound
      <4>3. peer[s][watched[s][1]] = s
        BY <1>1, <4>2 DEF Successor, Server
      <4>4. QED
        BY <1>2, <3>3, <4>1, <4>3
    <3>4. QED
      BY <3>1, <3>2, <3>3
  <2>5. /\ listener'[s] \in {"accept", "listen"}
        /\ listener'[s] = "listen" => from'[s][1] = s
    BY <1>1, <1>2, <2>1 DEF Second, TypeOK, listeners
  <2>6. \A j \in 1 .. Len(backlog'[s]) : backlog'[s][j][1] = s
    BY <1>2, <2>2 DEF RingInv, Queues
  <2>7. Deaf(s)'
    BY <1>2, <1>4, <2>2, <2>3, <2>4, <2>5, <2>6 DEF Deaf
  <2>8. QED
    BY <1>2, <2>7 DEF RInv
<1>6. CASE k = 1
  <2>1. a \notin alive /\ Successor(s) \notin alive
    BY <1>1, <1>2, <1>6 DEF Sound
  <2>2. \A j \in Thread \ {1} : connector[s][j] = "off"
    BY <1>1, <1>2, <1>6, OneConnector
  <2>3. Nearest(s, clientAddr'[s]) /\ (a # 0 => clientAddr'[s] # NextLine(s))
    <3>1. CASE a = 0
      <4>1. filePos[s] = s
        BY <1>1, <3>1 DEF Wires
      <4>2. Dist(s, clientAddr'[s]) = 1
        BY <1>1, <1>2, <4>1, DistNext
      <4>3. QED
        BY <1>1, <3>1, <4>2, DistType DEF Nearest
    <3>2. CASE a # 0
      <4>1. filePos[s] = a /\ a \in Server /\ a # s
        BY <1>1, <1>2, <2>1, <3>2 DEF Wires
      <4>2. Dist(s, clientAddr'[s]) = Dist(s, a) + 1 /\ Dist(s, a) \in 1 .. N
        BY <1>1, <1>2, <4>1, DistNext, DistType
      <4>3. Nearest(s, a)
        BY <1>1, <3>2 DEF Sound
      <4>4. ASSUME NEW u \in alive PROVE Dist(s, clientAddr'[s]) <= Dist(s, u)
        <5>1. Dist(s, a) <= Dist(s, u) /\ Dist(s, a) # Dist(s, u) /\ Dist(s, u) \in 1 .. N
          BY <1>1, <2>1, <4>1, <4>3, <4>4, DistUnique, DistType DEF Nearest
        <5>2. QED
          BY <4>2, <5>1, ConstantsAssumption
      <4>5. Dist(s, NextLine(s)) = 1
        BY <1>1, DistNext
      <4>6. QED
        BY <4>2, <4>4, <4>5, ConstantsAssumption DEF Nearest
    <3>3. QED
      BY <3>1, <3>2
  <2>4. Sound(s)'
    <3>1. ASSUME NEW i \in Socket, i # socketClient'[s] PROVE peer'[s][i] \notin alive'
      <4>1. CASE i # socketClient[s]
        BY <1>1, <1>2, <4>1 DEF Sound
      <4>2. CASE i = socketClient[s]
        <5>1. i # 0
          BY ConstantsAssumption DEF Socket
        <5>2. QED
          BY <1>2, <2>1, <4>2, <5>1 DEF Successor
      <4>3. QED
        BY <4>1, <4>2
    <3>2. \A u \in alive' : Dist(s, clientAddr'[s]) <= Dist(s, u)
      BY <1>2, <2>3 DEF Nearest
    <3>3. \A j \in Thread \ {1} : connector'[s][j] = "off"
      BY <1>2, <1>6, <2>2
    <3>4. QED
      BY <1>2, <1>4, <1>6, <3>1, <3>2, <3>3 DEF Sound, Nearest
  <2>5. /\ \A x \in alive' : Sound(x)'
        /\ \A x \in alive \ {s} : Up(x) => Up(x)'
    BY <2>4, RestSound DEF RingInv, ConnectorStep
  <2>6. Queues'
    BY <1>2, StillQueues DEF RingInv, listeners
  <2>7. NoneParticipates' /\ NoMessages'
    <3>1. NoneParticipates /\ NoMessages
      BY <1>2, <1>6, WhoConnects
    <3>2. QED
      BY <1>2, <3>1 DEF NoneParticipates, NoMessages, elected
  <2>8. Forming' \/ Mending(s)'
    <3>1. CASE Forming
      <4>1. a = 0
        BY <1>1, <1>2, <2>1, <3>1 DEF Forming, Wires
      <4>2. ~canStart'[s][1] /\ ~disconnected'[s]
        BY <1>1, <1>2, <1>6, <3>1, <4>1 DEF Forming
      <4>3. QED
        BY <1>1, <1>2, <1>6, <3>1, <4>2, StillForming DEF ConnectorStep, elected, listeners
    <3>2. CASE Mending(s) /\ Busy(s)
      <4>1. a # 0 /\ disconnected[s] /\ clientAddr'[s] # 0
        BY <1>1, <1>2, <1>6, <3>2, DistNext DEF Busy, Server
      <4>2. Busy(s)'
        BY <1>2, <1>6, <2>3, <3>2, <4>1 DEF Busy, listeners
      <4>3. Led => ~canStart'[s][1]
        <5>1. ASSUME Led, canStart'[s][1] PROVE FALSE
          <6>1. PICK l \in alive : primary[s] = Id[l]
            BY <5>1 DEF Led
          <6>2. Id[a] = Id[l] /\ a \in Server
            BY <1>1, <1>2, <1>6, <4>1, <5>1, <6>1 DEF Wires
          <6>3. a = l
            BY <1>1, <6>2, ConstantsAssumption
          <6>4. QED
            BY <2>1, <6>3
        <5>2. QED
          BY <5>1
      <4>4. ASSUME NEW d \in Server \ alive, \A x \in alive : primary[x] = Id[d], a = d
            PROVE  canStart'[s][1]
        BY <1>2, <1>6, <4>1, <4>4
      <4>5. ~Up(s)
        BY <1>2, <1>6 DEF Up
      <4>6. \A d \in Server \ alive :
              /\ \A x \in alive : primary[x] = Id[d]
              /\ connector[s][1] \in {"watch", "start"} => clientAddr[s] = d
              /\ connector[s][1] \in {"connect", "connected"} => canStart[s][1]
              => /\ connector'[s][1] \in {"watch", "start"} => clientAddr'[s] = d
                 /\ connector'[s][1] \in {"connect", "connected"} => canStart'[s][1]
        BY <1>2, <1>6, <4>4
      <4>7. QED
        BY <1>2, <2>5, <3>2, <4>2, <4>3, <4>5, <4>6, StillMending DEF elected
    <3>3. QED
      BY <1>2, <1>6, <3>1, <3>2, WhoConnects
  <2>9. QED
    BY <1>2, <2>5, <2>6, <2>7, <2>8 DEF RInv, RingInv, Quiet
<1>7. QED
  BY <1>5, <1>6

(* A connector reaches the next live server of the ring.                     *)
LEMMA RingConnect ==
    ASSUME TInv, TInv', RingInv, NEW s \in alive, NEW k \in Thread, Connect(s, k)
    PROVE  RInv'
<1> DEFINE t == clientAddr[s]
           i == socketClient[s]
<1>1. TypeOK /\ Wires /\ s \in Server /\ alive \subseteq Server /\ Sound(s)
  BY DEF TInv, TypeOK, RingInv
<1>2. connector[s][k] = "connect" /\ t \in alive /\ t \in Server
  BY <1>1 DEF Connect, CanConnect
<1>3. k = 1
  <2>1. connector[s][k] # "off" /\ (k # 1 => ~Second(s, k))
    BY <1>2 DEF Second
  <2>2. QED
    BY <1>1, <2>1 DEF Sound
<1>4. Successor(s) = 0 /\ \A j \in Thread \ {1} : connector[s][j] = "off"
  BY <1>1, <1>2, <1>3, OneConnector DEF Sound
<1>5. i \in Socket
  <2>1. i \in 0 .. MaxSockets /\ i > 0
    BY <1>1, <1>2 DEF TypeOK, Wires
  <2>2. QED
    BY <2>1, ConstantsAssumption DEF Socket
<1>6. /\ peer'[s][i] = t /\ \A j \in Socket \ {i} : peer'[s][j] = peer[s][j]
      /\ backlog'[t] = Append(backlog[t], <<s, i>>)
      /\ \A x \in Server \ {t} : backlog'[x] = backlog[x]
      /\ connector'[s][1] = "connected"
      /\ \A j \in Thread \ {1} : connector'[s][j] = connector[s][j]
      /\ UNCHANGED <<alive, elected, disconnected, address, created, socketClient,
                     chan, listeners, canStart, watched>>
  <2>1. /\ peer' = [peer EXCEPT ![s][i] = t]
        /\ backlog' = [backlog EXCEPT ![t] = Append(@, <<s, i>>)]
        /\ connector' = [connector EXCEPT ![s][k] = "connected"]
        /\ UNCHANGED <<alive, elected, disconnected, address, created, socketClient,
                       chan, listeners, canStart, watched>>
    BY DEF Connect
  <2>2. peer'[s][i] = t /\ \A j \in Socket \ {i} : peer'[s][j] = peer[s][j]
    BY <1>1, <1>5, <2>1 DEF TypeOK
  <2>3. /\ backlog'[t] = Append(backlog[t], <<s, i>>)
        /\ \A x \in Server \ {t} : backlog'[x] = backlog[x]
    BY <1>1, <1>2, <2>1 DEF TypeOK
  <2>4. /\ connector'[s][1] = "connected"
        /\ \A j \in Thread \ {1} : connector'[s][j] = connector[s][j]
    BY <1>1, <1>3, <2>1 DEF TypeOK
  <2>5. QED
    BY <2>1, <2>2, <2>3, <2>4
<1>7. Nearest(s, t) /\ t # 0
  <2>1. t # 0
    BY <1>2, ConstantsAssumption DEF Server
  <2>2. QED
    BY <1>1, <2>1 DEF Sound
<1>8. backlog[t] = <<>> /\ (listener[t] # "listen" \/ from[t][1] \notin alive)
  <2>1. ASSUME listener[t] = "listen", from[t][1] \in alive PROVE FALSE
    <3>1. Successor(from[t][1]) = t /\ Nearest(from[t][1], t)
      BY <1>2, <2>1, Listened DEF RingInv
    <3>2. from[t][1] = s
      BY <1>1, <1>2, <1>7, <2>1, <3>1, OnePredecessor
    <3>3. QED
      BY <1>4, <1>7, <3>1, <3>2
  <2>2. ASSUME backlog[t] # <<>> PROVE FALSE
    <3>1. backlog[t] \in Seq(Server \X Socket)
      BY <1>1, <1>2 DEF TypeOK
    <3>2. 1 \in 1 .. Len(backlog[t])
      BY <2>2, <3>1, EmptySeq, LenProperties
    <3>3. /\ backlog[t][1][1] \in alive /\ Successor(backlog[t][1][1]) = t
          /\ Nearest(backlog[t][1][1], t)
      BY <1>2, <3>2, Listened DEF RingInv
    <3>4. backlog[t][1][1] = s
      BY <1>1, <1>2, <1>7, <3>3, OnePredecessor
    <3>5. QED
      BY <1>4, <1>7, <3>3, <3>4
  <2>3. QED
    BY <2>1, <2>2
<1>9. Queues'
  <2>1. /\ Len(Append(backlog[t], <<s, i>>)) = 1
        /\ Append(backlog[t], <<s, i>>)[1] = <<s, i>>
    BY <1>8
  <2>2. ASSUME NEW x \in alive
        PROVE  /\ Len(backlog'[x]) <= 1
               /\ \A n \in 1 .. Len(backlog'[x]) : backlog'[x][n][1] \in alive
               /\ backlog'[x] # <<>> => listener'[x] # "listen" \/ from'[x][1] \notin alive
    <3>1. CASE x = t
      <4>1. Len(backlog'[x]) = 1 /\ backlog'[x][1] = <<s, i>>
        BY <1>6, <2>1, <3>1
      <4>2. \A n \in 1 .. Len(backlog'[x]) : n = 1
        BY <4>1
      <4>3. QED
        BY <1>6, <1>8, <3>1, <4>1, <4>2 DEF listeners
    <3>2. CASE x # t
      <4>1. backlog'[x] = backlog[x]
        BY <1>1, <1>6, <3>2
      <4>2. QED
        BY <1>6, <4>1 DEF RingInv, Queues, listeners
    <3>3. QED
      BY <3>1, <3>2
  <2>3. QED
    BY <1>6, <2>2 DEF Queues
<1>10. Sound(s)'
  <2>1. i # 0 /\ Successor(s)' = t
    BY <1>5, <1>6, ConstantsAssumption DEF Socket, Successor
  <2>2. \A j \in Socket : j # socketClient'[s] => peer'[s][j] \notin alive'
    BY <1>1, <1>6 DEF Sound
  <2>3. clientAddr'[s] = t /\ Nearest(s, t)'
    BY <1>6, <1>7 DEF address, Nearest
  <2>4. \A j \in Thread \ {1} : connector'[s][j] = "off"
    BY <1>4, <1>6
  <2>5. QED
    BY <1>2, <1>6, <2>1, <2>2, <2>3, <2>4 DEF Sound
<1>11. /\ \A x \in alive' : Sound(x)'
       /\ \A x \in alive \ {s} : Up(x) => Up(x)'
  BY <1>10, RestSound DEF RingInv, ConnectorStep
<1>12. NoneParticipates /\ NoMessages /\ (Forming \/ (Mending(s) /\ Busy(s)))
  BY <1>2, <1>3, WhoConnects
<1>13. NoneParticipates' /\ NoMessages'
  BY <1>6, <1>12 DEF NoneParticipates, NoMessages, elected
<1>14. CASE Forming
  <2>1. ~disconnected'[s] /\ ~canStart'[s][1]
    BY <1>1, <1>6, <1>14 DEF Forming
  <2>2. Forming'
    BY <1>1, <1>2, <1>3, <1>6, <1>14, <2>1, StillForming DEF ConnectorStep, elected, listeners
  <2>3. QED
    BY <1>6, <1>9, <1>11, <1>13, <2>2 DEF RInv, RingInv, Quiet
<1>15. CASE Mending(s) /\ Busy(s)
  <2>1. Busy(s)'
    BY <1>2, <1>3, <1>6, <1>15 DEF Busy, address, listeners
  <2>2. ~Up(s)
    BY <1>2, <1>3 DEF Up
  <2>3. Led => ~canStart'[s][1]
    <3>1. ASSUME Led, canStart[s][1] PROVE FALSE
      <4>1. Leaderless(s)
        BY <1>2, <1>3, <1>15, <2>2, <3>1 DEF Mending
      <4>2. QED
        BY <3>1, <4>1 DEF Led, Leaderless
    <3>2. QED
      BY <1>6, <3>1
  <2>4. Mending(s)'
    BY <1>2, <1>3, <1>6, <1>11, <1>15, <2>1, <2>2, <2>3, StillMending DEF elected
  <2>5. QED
    BY <1>6, <1>9, <1>11, <1>13, <2>4 DEF RInv, RingInv, Quiet
<1>16. QED
  BY <1>12, <1>14, <1>15

(* A connector whose attempt failed tries the line after it.                 *)
LEMMA RingTryNext ==
    ASSUME TInv, TInv', RingInv, NEW s \in alive, NEW k \in Thread,
           TryNextPort(s, k) \/ OnlyServerLeft(s, k)
    PROVE  RInv' /\ (OnlyServerLeft(s, k) => alive = {s})
<1> DEFINE a == clientAddr[s]
           l == NextLine(a)
<1>1. TypeOK /\ Wires /\ s \in Server /\ alive \subseteq Server /\ Sound(s)
  BY DEF TInv, TypeOK, RingInv
<1>2. /\ connector[s][k] = "connect" /\ ~CanConnect(s) /\ disconnected[s]
      /\ UNCHANGED <<alive, participating, sockets, chan, backlog, listeners, connectors>>
  BY DEF TryNextPort, OnlyServerLeft, elected
<1>3. k = 1
  <2>1. connector[s][k] # "off" /\ (k # 1 => ~Second(s, k))
    BY <1>2 DEF Second
  <2>2. QED
    BY <1>1, <2>1 DEF Sound
<1>4. Successor(s) = 0 /\ \A j \in Thread \ {1} : connector[s][j] = "off"
  BY <1>1, <1>2, <1>3, OneConnector DEF Sound
<1>5. /\ NoneParticipates /\ NoMessages /\ Mending(s) /\ Busy(s)
  BY <1>1, <1>2, <1>3, WhoConnects DEF Forming
<1>6. a # 0 /\ filePos[s] = a /\ a \in Server /\ socketClient[s] # 0
  <2>1. a # 0
    BY <1>5 DEF Busy
  <2>2. filePos[s] = a /\ created[s] > 0 /\ socketClient[s] = created[s] /\ filePos[s] \in Server
    BY <1>1, <2>1 DEF Wires, TypeOK
  <2>3. QED
    BY <2>1, <2>2
<1>7. a \notin alive /\ a # s
  BY <1>2, <1>4, <1>6 DEF CanConnect, Successor
<1>8. /\ l \in Server /\ Dist(s, l) = Dist(s, a) + 1
      /\ l = s => Dist(s, a) = N - 1 \/ N = 1
  BY <1>1, <1>6, <1>7, DistNext
<1>9. \A u \in alive : Dist(s, a) < Dist(s, u) /\ Dist(s, u) \in 1 .. N
  <2>1. ASSUME NEW u \in alive PROVE Dist(s, a) < Dist(s, u) /\ Dist(s, u) \in 1 .. N
    <3>1. Dist(s, a) <= Dist(s, u)
      BY <1>1, <1>6 DEF Sound, Nearest
    <3>2. Dist(s, a) # Dist(s, u)
      BY <1>1, <1>6, <1>7, DistUnique
    <3>3. Dist(s, u) \in 1 .. N /\ Dist(s, a) \in 1 .. N
      BY <1>1, <1>6, DistType
    <3>4. QED
      BY <3>1, <3>2, <3>3, ConstantsAssumption
  <2>2. QED
    BY <2>1
<1>10. Dist(s, a) \in 1 .. N /\ Dist(s, NextLine(s)) = 1
  BY <1>1, <1>6, DistType, DistNext
<1>11. CASE TryNextPort(s, k)
  <2>1. /\ clientAddr'[s] = l /\ disconnected'[s]
        /\ UNCHANGED <<alive, elected, disconnected, sockets, chan, backlog,
                       listeners, connectors>>
    BY <1>1, <1>6, <1>11 DEF TryNextPort, TypeOK
  <2>2. l # NextLine(s)
    BY <1>8, <1>10, ConstantsAssumption
  <2>3. \A u \in alive : Dist(s, l) <= Dist(s, u)
    BY <1>8, <1>9, <1>10, ConstantsAssumption
  <2>4. Sound(s)'
    <3>1. Successor(s)' = 0
      BY <1>4, <2>1 DEF Successor, sockets
    <3>2. \A j \in Socket : j # socketClient'[s] => peer'[s][j] \notin alive'
      BY <1>1, <2>1 DEF Sound, sockets
    <3>3. \A j \in Thread \ {1} : connector'[s][j] = "off"
      BY <1>4, <2>1 DEF connectors
    <3>4. \A u \in alive' : Dist(s, clientAddr'[s]) <= Dist(s, u)
      BY <2>1, <2>3
    <3>5. connector'[s][1] = "connect"
      BY <1>2, <1>3, <2>1 DEF connectors
    <3>6. QED
      BY <3>1, <3>2, <3>3, <3>4, <3>5 DEF Sound, Nearest
  <2>5. /\ \A x \in alive' : Sound(x)'
        /\ \A x \in alive \ {s} : Up(x) => Up(x)'
    BY <1>11, <2>4, RestSound DEF RingInv, ConnectorStep
  <2>6. Queues'
    BY <2>1, StillQueues DEF RingInv, listeners
  <2>7. NoneParticipates' /\ NoMessages'
    BY <1>5, <2>1 DEF NoneParticipates, NoMessages, elected
  <2>8. Mending(s)'
    <3>1. l # 0
      BY <1>8, ConstantsAssumption DEF Server
    <3>2. Busy(s)'
      BY <1>2, <1>3, <1>5, <2>1, <2>2, <3>1 DEF Busy, listeners, connectors
    <3>3. ~Up(s)
      BY <1>2, <1>3 DEF Up
    <3>4. Led => ~canStart'[s][1]
      <4>1. ASSUME Led, canStart[s][1] PROVE FALSE
        <5>1. Leaderless(s)
          BY <1>2, <1>3, <1>5, <3>3, <4>1 DEF Mending
        <5>2. QED
          BY <4>1, <5>1 DEF Led, Leaderless
      <4>2. QED
        BY <2>1, <4>1 DEF connectors
    <3>5. QED
      BY <1>2, <1>3, <1>5, <2>1, <2>5, <3>2, <3>3, <3>4, StillMending DEF elected, connectors
  <2>9. ~OnlyServerLeft(s, k)
    BY <1>11 DEF TryNextPort, OnlyServerLeft
  <2>10. QED
    BY <2>1, <2>5, <2>6, <2>7, <2>8, <2>9 DEF RInv, RingInv, Quiet
<1>12. CASE OnlyServerLeft(s, k)
  <2>1. l = s /\ clientAddr'[s] = NextLine(s) /\ ~disconnected'[s]
    BY <1>1, <1>6, <1>12 DEF OnlyServerLeft, TypeOK
  <2>2. N # 1
    BY <1>1, <1>6, <1>7, ConstantsAssumption DEF Server
  <2>3. Dist(s, a) = N - 1
    BY <1>8, <2>1, <2>2
  <2>4. alive = {s}
    <3>1. ASSUME NEW u \in alive PROVE u = s
      <4>1. Dist(s, u) = N /\ u \in Server
        BY <1>1, <1>9, <2>3, ConstantsAssumption
      <4>2. QED
        BY <1>1, <4>1, DistType
    <3>2. QED
      BY <3>1
  <2>5. N > 2 /\ NextLine(s) # s
    <3>1. a # NextLine(s) /\ NextLine(s) \in Server
      BY <1>1, <1>2, <1>3, <1>5, DistNext DEF Busy
    <3>2. Dist(s, a) # 1
      BY <1>1, <1>6, <1>10, <3>1, DistUnique
    <3>3. N > 2
      BY <2>2, <2>3, <3>2, ConstantsAssumption
    <3>4. QED
      BY <1>1, <3>3, ConstantsAssumption DEF NextLine, Server
  <2>6. \A j \in Socket : peer[s][j] # s
    <3>1. ASSUME NEW j \in Socket, peer[s][j] = s PROVE FALSE
      <4>1. Successor(s) = s
        BY <3>1, Wired DEF RingInv
      <4>2. QED
        BY <1>1, <1>4, <4>1 DEF Server
    <3>2. QED
      BY <3>1
  <2>7. backlog[s] = <<>>
    <3>1. ASSUME backlog[s] # <<>> PROVE FALSE
      <4>1. backlog[s] \in Seq(Server \X Socket)
        BY <1>1 DEF TypeOK
      <4>2. 1 \in 1 .. Len(backlog[s])
        BY <3>1, <4>1, EmptySeq, LenProperties
      <4>3. backlog[s][1][1] \in alive /\ Successor(backlog[s][1][1]) = s
        BY <4>2, Listened DEF RingInv
      <4>4. QED
        BY <1>1, <1>4, <2>4, <4>3 DEF Server
    <3>2. QED
      BY <3>1
  <2>8. Successor(s)' = 0 /\ connector'[s][1] = "connect"
    BY <1>2, <1>3, <1>4 DEF Successor, sockets, connectors
  <2>9. \A j \in Thread \ {1} : connector'[s][j] = "off"
    BY <1>2, <1>4 DEF connectors
  <2>10. Stuck(s)'
    BY <1>2, <2>1, <2>4, <2>5, <2>6, <2>7, <2>8, <2>9 DEF Stuck, sockets
  <2>11. QED
    BY <1>2, <2>4, <2>10 DEF RInv
<1>13. QED
  BY <1>11, <1>12

(* The ring is mended; the predecessor of the dead primary starts an election. *)
LEMMA RingConnected ==
    ASSUME TInv, TInv', RingInv, NEW s \in alive, NEW k \in Thread, Connected(s, k)
    PROVE  RInv'
<1> DEFINE i == socketClient[s]
           m == [status |-> "ELECTION", id |-> Id[s]]
<1>1. TypeOK /\ Wires /\ s \in Server /\ alive \subseteq Server /\ Sound(s) /\ 1 \in Thread
  <2>1. TypeOK /\ Wires /\ s \in Server /\ alive \subseteq Server /\ Sound(s)
    BY DEF TInv, TypeOK, RingInv
  <2>2. 1 \in Thread
    BY ConstantsAssumption DEF Thread
  <2>3. QED
    BY <2>1, <2>2
<1>2. connector[s][k] = "connected"
  BY DEF Connected
<1>3. k = 1
  <2>1. connector[s][k] # "off" /\ (k # 1 => ~Second(s, k))
    BY <1>2 DEF Second
  <2>2. QED
    BY <1>1, <2>1 DEF Sound
<1>4. /\ Successor(s) = clientAddr[s] /\ clientAddr[s] \in alive
      /\ \A j \in Thread \ {1} : connector[s][j] = "off"
  BY <1>1, <1>2, <1>3, OneConnector DEF Sound
<1>5. i \in Socket /\ peer[s][i] = clientAddr[s]
  <2>1. i \in 0 .. MaxSockets /\ i > 0
    BY <1>1, <1>2 DEF TypeOK, Wires
  <2>2. QED
    BY <1>4, <2>1, ConstantsAssumption DEF Socket, Successor
<1>6. /\ chan' = IF disconnected[s] /\ canStart[s][1] THEN Written(s, i, m) ELSE chan
      /\ ~canStart'[s][1] /\ ~disconnected'[s]
      /\ watched'[s][1] = i /\ connector'[s][1] = "watch"
      /\ \A j \in Thread \ {1} : connector'[s][j] = "off"
      /\ UNCHANGED <<alive, elected, address, sockets, backlog, listeners>>
  <2>1. /\ canStart' = [canStart EXCEPT ![s][k] = FALSE]
        /\ disconnected' = [disconnected EXCEPT ![s] = FALSE]
        /\ watched' = [watched EXCEPT ![s][k] = i]
        /\ connector' = [connector EXCEPT ![s][k] = "watch"]
        /\ UNCHANGED <<alive, elected, address, sockets, backlog, listeners>>
    BY DEF Connected
  <2>2. ~canStart'[s][1] /\ ~disconnected'[s]
    BY <1>1, <1>3, <2>1 DEF TypeOK
  <2>3. watched'[s][1] = i
    BY <1>1, <1>3, <2>1 DEF TypeOK
  <2>4. connector'[s][1] = "watch" /\ \A j \in Thread \ {1} : connector'[s][j] = "off"
    BY <1>1, <1>3, <1>4, <2>1 DEF TypeOK
  <2>5. chan' = IF disconnected[s] /\ canStart[s][1] THEN Written(s, i, m) ELSE chan
    BY <1>3 DEF Connected
  <2>6. QED
    BY <2>1, <2>2, <2>3, <2>4, <2>5
<1>7. Sound(s)'
  <2>1. Successor(s)' = clientAddr'[s] /\ clientAddr'[s] \in alive'
    BY <1>4, <1>6 DEF Successor, sockets, address
  <2>2. \A j \in Socket : j # socketClient'[s] => peer'[s][j] \notin alive'
    BY <1>1, <1>6 DEF Sound, sockets
  <2>3. clientAddr'[s] # 0 => \A u \in alive' : Dist(s, clientAddr'[s]) <= Dist(s, u)
    BY <1>1, <1>6 DEF Sound, Nearest, address
  <2>4. QED
    BY <1>6, <2>1, <2>2, <2>3 DEF Sound, Nearest, sockets
<1>8. /\ \A x \in alive' : Sound(x)'
      /\ \A x \in alive \ {s} : Up(x) => Up(x)'
  BY <1>7, RestSound DEF RingInv, ConnectorStep
<1>9. Queues'
  BY <1>6, StillQueues DEF RingInv, listeners
<1>10. NoneParticipates /\ NoMessages /\ (Forming \/ (Mending(s) /\ Busy(s)))
  BY <1>2, <1>3, WhoConnects
<1>11. NoneParticipates'
  BY <1>6, <1>10 DEF NoneParticipates, elected
<1>12. CASE Forming
  <2>1. NoMessages'
    BY <1>1, <1>6, <1>10, <1>12 DEF NoMessages, Forming
  <2>2. Forming'
    BY <1>1, <1>2, <1>3, <1>6, <1>12, StillForming DEF ConnectorStep, elected, listeners
  <2>3. QED
    BY <1>6, <1>8, <1>9, <1>11, <2>1, <2>2 DEF RInv, RingInv, Quiet
<1>13. CASE Mending(s) /\ Busy(s)
  <2>1. Up(s)'
    BY <1>4, <1>6, <1>13 DEF Up, Busy, address, listeners
  <2>2. \A x \in alive' : Up(x)'
    BY <1>6, <1>8, <1>13, <2>1 DEF Mending
  <2>3. ~Up(s) /\ alive' # Server
    BY <1>2, <1>3, <1>6, <1>13 DEF Up, Mending
  <2>4. CASE Led /\ ~canStart[s][1]
    <3>1. NoMessages'
      BY <1>6, <1>10, <2>4 DEF NoMessages
    <3>2. Led'
      BY <1>6, <2>4 DEF Led, elected
    <3>3. Mending(s)'
      BY <2>1, <2>2, <2>3, <3>2 DEF Mending
    <3>4. QED
      BY <1>6, <1>8, <1>9, <1>11, <3>1, <3>3 DEF RInv, RingInv, Quiet
  <2>5. CASE Leaderless(s)
    <3>1. disconnected[s] /\ canStart[s][1] /\ \A x \in alive : ~isPrimary[x]
      BY <1>2, <1>3, <1>13, <2>5 DEF Busy, Leaderless
    <3>2. chan' = [chan EXCEPT ![s][i] = Append(@, m)]
      BY <1>4, <1>5, <1>6, <3>1, ConstantsAssumption DEF Written, Socket
    <3>3. Append(<<>>, m) = <<m>>
      OBVIOUS
    <3>4. \A x \in Server, j \in Socket :
             chan'[x][j] = IF x = s /\ j = i THEN <<m>> ELSE <<>>
      <4>1. \A x \in Server, j \in Socket : chan[x][j] = <<>>
        BY <1>10 DEF NoMessages
      <4>2. \A x \in Server, j \in Socket :
               chan'[x][j] = IF x = s /\ j = i THEN Append(chan[s][i], m) ELSE chan[x][j]
        BY <1>1, <1>5, <3>2 DEF TypeOK
      <4>3. Append(chan[s][i], m) = <<m>>
        BY <1>1, <1>5, <3>3, <4>1
      <4>4. QED
        BY <4>1, <4>2, <4>3
    <3>5. Token(s, m)'
      BY <1>6, <3>4 DEF Token, sockets
    <3>6. m \in Message
      BY <1>1 DEF Message
    <3>7. \A x \in alive' : Up(x)' /\ ~isPrimary'[x] /\ ~participating'[x]
      BY <1>6, <1>11, <2>2, <3>1 DEF elected, NoneParticipates
    <3>8. FirstRound(s, s, m)'
      BY <1>1, <1>6, <3>7, ConstantsAssumption DEF FirstRound
    <3>9. Election'
      BY <1>6, <2>3, <3>5, <3>6, <3>7, <3>8 DEF Election
    <3>10. QED
      BY <1>6, <1>8, <1>9, <3>9 DEF RInv, RingInv
  <2>6. QED
    BY <1>2, <1>3, <1>13, <2>3, <2>4, <2>5 DEF Mending
<1>14. QED
  BY <1>10, <1>12, <1>13

(* A connector sees that its successor is gone.                              *)
LEMMA RingFailed ==
    ASSUME TInv, TInv', RingInv, NEW s \in alive, NEW k \in Thread, ConnectionFailed(s, k)
    PROVE  RInv'
<1>1. TypeOK /\ Wires /\ s \in Server /\ alive \subseteq Server /\ Sound(s)
  BY DEF TInv, TypeOK, RingInv
<1>2. connector[s][k] = "watch" /\ peer[s][watched[s][k]] \notin alive
  BY DEF ConnectionFailed
<1>3. k = 1
  <2>1. connector[s][k] # "off" /\ (k # 1 => ~Second(s, k))
    BY <1>2 DEF Second
  <2>2. QED
    BY <1>1, <2>1 DEF Sound
<1>4. clientAddr[s] \notin alive /\ Successor(s) \notin alive
  <2>1. /\ watched[s][1] = socketClient[s] /\ Successor(s) = clientAddr[s]
        /\ watched[s][1] \in Socket
    BY <1>1, <1>2, <1>3 DEF Sound, Wires
  <2>2. socketClient[s] # 0
    BY <2>1, ConstantsAssumption DEF Socket
  <2>3. QED
    BY <1>2, <1>3, <2>1, <2>2 DEF Successor
<1>5. \A j \in Thread \ {1} : connector[s][j] = "off"
  BY <1>1, <1>4, OneConnector
<1>6. /\ disconnected'[s] /\ connector'[s][1] = "start"
      /\ \A j \in Thread \ {1} : connector'[s][j] = "off"
      /\ UNCHANGED <<alive, elected, address, sockets, chan, backlog, listeners,
                     canStart, watched>>
  <2>1. connector'[s][1] = "start" /\ \A j \in Thread \ {1} : connector'[s][j] = "off"
    BY <1>1, <1>3, <1>5 DEF ConnectionFailed, TypeOK
  <2>2. QED
    BY <1>1, <2>1 DEF ConnectionFailed, TypeOK
<1>7. NoneParticipates /\ NoMessages /\ Mending(s) /\ Busy(s)
  <2>1. ~Forming
    <3>1. created[s] > 0 /\ (clientAddr[s] = 0 => created[s] = 0) /\ clientAddr[s] \in 0 .. N
      BY <1>1, <1>2 DEF Wires, TypeOK
    <3>2. QED
      BY <1>4, <3>1, ConstantsAssumption DEF Forming, Server
  <2>2. QED
    BY <1>2, <1>3, <1>4, <2>1, WhoConnects
<1>8. Sound(s)'
  <2>1. Successor(s)' \notin alive' /\ clientAddr'[s] \notin alive'
    BY <1>4, <1>6 DEF Successor, sockets, address
  <2>2. \A j \in Socket : j # socketClient'[s] => peer'[s][j] \notin alive'
    BY <1>1, <1>6 DEF Sound, sockets
  <2>3. clientAddr'[s] # 0 => \A u \in alive' : Dist(s, clientAddr'[s]) <= Dist(s, u)
    BY <1>1, <1>6 DEF Sound, Nearest, address
  <2>4. QED
    BY <1>6, <2>1, <2>2, <2>3 DEF Sound, Nearest
<1>9. /\ \A x \in alive' : Sound(x)'
      /\ \A x \in alive \ {s} : Up(x) => Up(x)'
  BY <1>8, RestSound DEF RingInv, ConnectorStep
<1>10. Queues'
  BY <1>6, StillQueues DEF RingInv, listeners
<1>11. NoneParticipates' /\ NoMessages'
  BY <1>6, <1>7 DEF NoneParticipates, NoMessages, elected
<1>12. Mending(s)'
  <2>1. Busy(s)'
    BY <1>6, <1>7 DEF Busy, address, listeners
  <2>2. ~Up(s)
    BY <1>4 DEF Up
  <2>3. QED
    BY <1>2, <1>3, <1>6, <1>7, <1>9, <2>1, <2>2, StillMending DEF elected, address
<1>13. QED
  BY <1>6, <1>9, <1>10, <1>11, <1>12 DEF RInv, RingInv, Quiet

(* What the listeners do apart from the messages leaves the phase.           *)
LEMMA StillThere ==
    ASSUME alive' = alive, UNCHANGED <<elected, chan, clientAddr, socketClient, canStart>>,
           \A x \in alive : /\ connector'[x][1] = connector[x][1]
                            /\ (Up(x) => Up(x)') /\ (Busy(x) => Busy(x)')
    PROVE  /\ NoneParticipates => NoneParticipates'
           /\ NoMessages => NoMessages'
           /\ \A p \in alive : Mending(p) => Mending(p)'
           /\ Election => Election'
<1>1. NoneParticipates => NoneParticipates'
  BY DEF NoneParticipates, elected
<1>2. NoMessages => NoMessages'
  BY DEF NoMessages
<1>3. ASSUME NEW p \in alive, Mending(p) PROVE Mending(p)'
  <2>1. Led => Led'
    BY DEF Led, elected
  <2>2. Leaderless(p) => Leaderless(p)'
    BY DEF Leaderless, elected
  <2>3. QED
    BY <1>3, <2>1, <2>2 DEF Mending
<1>4. ASSUME Election PROVE Election'
  <2>1. PICK x \in alive, m \in Message :
           /\ Token(x, m)
           /\ \/ \E p \in alive : FirstRound(p, x, m)
              \/ SecondRound(m)
              \/ \E w \in alive : Result(w, x, m)
    BY <1>4 DEF Election
  <2>2. Token(x, m)'
    BY <2>1 DEF Token
  <2>3. \A p \in alive : FirstRound(p, x, m) => FirstRound(p, x, m)'
    BY DEF FirstRound, elected
  <2>4. SecondRound(m) => SecondRound(m)'
    BY DEF SecondRound, Highest, elected
  <2>5. \A w \in alive : Result(w, x, m) => Result(w, x, m)'
    BY DEF Result, Highest, elected
  <2>6. \A y \in alive' : Up(y)' /\ ~isPrimary'[y]
    BY <1>4 DEF Election, elected
  <2>7. QED
    BY <1>4, <2>1, <2>2, <2>3, <2>4, <2>5, <2>6 DEF Election
<1>5. QED
  BY <1>1, <1>2, <1>3, <1>4

(* A listener starts: the first time it starts the connector, in a ring of   *)
(* one it starts a second one.                                               *)
LEMMA RingSpawn ==
    ASSUME TInv, TInv', RingInv, NEW s \in alive, SpawnConnector(s)
    PROVE  RInv'
<1>1. TypeOK /\ Wires /\ s \in Server /\ alive \subseteq Server /\ Sound(s)
  BY DEF TInv, TypeOK, RingInv
<1>t. 1 \in Thread
  BY ConstantsAssumption DEF Thread
<1>2. /\ listener[s] = "spawn" /\ listener'[s] = "accept"
      /\ \A x \in Server : listener'[x] = "listen" => listener[x] = "listen" /\ from'[x] = from[x]
      /\ UNCHANGED <<alive, elected, disconnected, address, sockets, chan, backlog,
                     from, canStart, watched>>
  BY <1>1 DEF SpawnConnector, TypeOK
<1>3. Queues'
  BY <1>1, <1>2, StillQueues DEF RingInv
<1>4. \A k \in Thread \ {1} : connector[s][k] = "off"
  BY <1>1, <1>2 DEF Sound, Second
<1>5. CASE connector[s][1] = "off"
  <2>1. Forming /\ NoneParticipates /\ NoMessages
    <3>1. ~Up(s) /\ ~Busy(s)
      BY <1>5 DEF Up, Busy
    <3>2. Quiet
      BY <3>1 DEF RingInv, Election
    <3>3. QED
      BY <3>1, <3>2 DEF Quiet, Mending
  <2>2. connector' = [connector EXCEPT ![s][1] = "start"]
    <3>1. ~disconnected[s]
      BY <1>1, <2>1 DEF Forming
    <3>2. PICK k \in Thread : /\ \A j \in 1 .. k - 1 : connector[s][j] # "off"
                              /\ connector' = [connector EXCEPT ![s][k] = "start"]
      BY <3>1 DEF SpawnConnector
    <3>3. k = 1
      <4>1. k # 1 => 1 \in 1 .. k - 1
        BY ConstantsAssumption DEF Thread
      <4>2. QED
        BY <1>5, <3>2, <4>1
    <3>4. QED
      BY <3>2, <3>3
  <2>3. connector'[s][1] = "start" /\ \A k \in Thread \ {1} : connector'[s][k] = "off"
    BY <1>1, <1>t, <1>4, <2>2 DEF TypeOK
  <2>4. clientAddr[s] = 0 /\ Successor(s) \notin alive
    BY <1>1, <1>5 DEF Sound
  <2>5. Sound(s)'
    <3>1. Successor(s)' \notin alive' /\ clientAddr'[s] = 0 /\ 0 \notin alive
      BY <1>1, <1>2, <2>4, ConstantsAssumption DEF Successor, sockets, address, Server
    <3>2. \A j \in Socket : j # socketClient'[s] => peer'[s][j] \notin alive'
      BY <1>1, <1>2 DEF Sound, sockets
    <3>3. QED
      BY <1>2, <2>3, <3>1, <3>2 DEF Sound
  <2>6. \A x \in alive' : Sound(x)'
    BY <2>5, RestSound DEF RingInv, ListenerStep
  <2>7. Forming'
    <3>1. ASSUME NEW x \in Server
          PROVE  /\ ~disconnected'[x] /\ ~canStart'[x][1]
                 /\ (connector'[x][1] = "off") <=> (listener'[x] = "spawn")
                 /\ isPrimary'[x] <=> (x = 1)
                 /\ primary'[x] = Id[1]
      <4>1. CASE x = s
        BY <1>2, <2>1, <2>3, <4>1 DEF Forming, elected
      <4>2. CASE x # s
        <5>1. Kept(x)
          BY <1>1, <4>2, Locality DEF ListenerStep
        <5>2. QED
          BY <2>1, <5>1 DEF Forming, Kept
      <4>3. QED
        BY <4>1, <4>2
    <3>2. QED
      BY <1>2, <2>1, <3>1 DEF Forming
  <2>8. NoneParticipates' /\ NoMessages'
    BY <1>2, <2>1 DEF NoneParticipates, NoMessages, elected
  <2>9. QED
    BY <1>2, <1>3, <2>6, <2>7, <2>8 DEF RInv, RingInv, Quiet
<1>6. CASE connector[s][1] # "off"
  <2>1. connector'[s][1] = connector[s][1]
    <3>1. PICK k \in Thread : \/ UNCHANGED connector
                              \/ /\ connector[s][k] = "off"
                                 /\ connector' = [connector EXCEPT ![s][k] = "start"]
      BY <1>t DEF SpawnConnector
    <3>2. CASE UNCHANGED connector
      BY <3>2
    <3>3. CASE connector[s][k] = "off" /\ connector' = [connector EXCEPT ![s][k] = "start"]
      BY <1>1, <1>t, <1>6, <3>3 DEF TypeOK
    <3>4. QED
      BY <3>1, <3>2, <3>3
  <2>2. ~Forming
    BY <1>1, <1>2, <1>6 DEF Forming
  <2>3. Up(s) \/ Busy(s)
    <3>1. Election => Up(s)
      BY DEF Election
    <3>2. ASSUME NEW p \in alive, Mending(p) PROVE Up(s) \/ Busy(s)
      BY <3>2 DEF Mending
    <3>3. QED
      BY <2>2, <3>1, <3>2 DEF RingInv, Quiet
  <2>4. alive # Server
    BY <2>2 DEF RingInv, Quiet, Election, Mending
  <2>5. (Up(s) => Up(s)') /\ (Busy(s) => Busy(s)')
    <3>1. Up(s) => Up(s)'
      BY <1>2, <2>1 DEF Up, address
    <3>2. Busy(s) => Busy(s)'
      BY <1>2, <2>1 DEF Busy, address
    <3>3. QED
      BY <3>1, <3>2
  <2>6. /\ \A j, k \in Thread \ {1} :
              connector'[s][j] # "off" /\ connector'[s][k] # "off" => j = k
        /\ \A k \in Thread \ {1} : connector'[s][k] # "off" =>
              connector'[s][k] = "start" /\ ~disconnected[s]
    <3>1. CASE disconnected[s]
      BY <1>4, <3>1 DEF SpawnConnector
    <3>2. CASE ~disconnected[s]
      <4>1. PICK h \in Thread : connector' = [connector EXCEPT ![s][h] = "start"]
        BY <3>2 DEF SpawnConnector
      <4>2. \A j \in Thread : connector'[s][j] = IF j = h THEN "start" ELSE connector[s][j]
        BY <1>1, <4>1 DEF TypeOK
      <4>3. QED
        BY <1>4, <3>2, <4>2
    <3>3. QED
      BY <3>1, <3>2
  <2>7. ASSUME NEW k \in Thread \ {1}, connector'[s][k] # "off" PROVE Second(s, k)'
    <3>1. connector'[s][k] = "start" /\ ~disconnected[s]
      BY <2>6, <2>7
    <3>2. Up(s) /\ alive = {s}
      BY <1>2, <2>3, <3>1 DEF Up, Busy
    <3>3. connector[s][1] = "watch" /\ clientAddr[s] = s
      BY <3>2 DEF Up
    <3>4. QED
      BY <1>2, <2>1, <2>4, <3>1, <3>2, <3>3 DEF Second, address
  <2>8. Sound(s)'
    <3>1. Successor(s)' = Successor(s)
      BY <1>2 DEF Successor, sockets
    <3>2. \A j \in Socket : j # socketClient'[s] => peer'[s][j] \notin alive'
      BY <1>1, <1>2 DEF Sound, sockets
    <3>3. clientAddr'[s] # 0 => \A u \in alive' : Dist(s, clientAddr'[s]) <= Dist(s, u)
      BY <1>1, <1>2 DEF Sound, Nearest, address
    <3>4. \A k \in Thread \ {1} : connector'[s][k] # "off" => Second(s, k)'
      BY <2>7
    <3>5. socketClient' = socketClient /\ clientAddr' = clientAddr
      BY <1>2 DEF sockets, address
    <3>6. /\ connector'[s][1] = "off" => clientAddr'[s] = 0
          /\ connector'[s][1] = "start" => clientAddr'[s] \notin alive'
          /\ connector'[s][1] \in {"off", "start"} => Successor(s)' \notin alive'
          /\ connector'[s][1] = "connect" => Successor(s)' = 0
          /\ connector'[s][1] = "connected" => /\ Successor(s)' = clientAddr'[s]
                                               /\ clientAddr'[s] \in alive'
          /\ connector'[s][1] = "watch" => /\ watched'[s][1] = socketClient'[s]
                                           /\ Successor(s)' = clientAddr'[s] /\ ~canStart'[s][1]
      BY <1>1, <1>2, <2>1, <3>1, <3>5 DEF Sound
    <3>7. QED
      BY <2>6, <3>2, <3>3, <3>4, <3>6 DEF Sound, Nearest
  <2>9. /\ \A x \in alive' : Sound(x)'
        /\ \A x \in alive \ {s} : Kept(x) /\ (Up(x) => Up(x)') /\ (Busy(x) => Busy(x)')
    BY <2>8, RestSound DEF RingInv, ListenerStep
  <2>10. \A x \in alive : /\ connector'[x][1] = connector[x][1]
                          /\ (Up(x) => Up(x)') /\ (Busy(x) => Busy(x)')
    BY <2>1, <2>5, <2>9 DEF Kept
  <2>11. UNCHANGED <<elected, chan, clientAddr, socketClient, canStart>>
    BY <1>2 DEF address, sockets
  <2>12. (Quiet => Quiet') /\ (Election => Election')
    BY <1>2, <2>2, <2>10, <2>11, StillThere DEF Quiet
  <2>13. QED
    BY <1>2, <1>3, <2>9, <2>12 DEF RInv, RingInv
<1>7. QED
  BY <1>5, <1>6

(* The connectors of s, when only its listener moves.                        *)
LEMMA SameConnectors ==
    ASSUME NEW s \in Server, Sound(s), alive' = alive, UNCHANGED <<address, sockets, connectors>>,
           \A k \in Thread : Second(s, k) => Second(s, k)'
    PROVE  Sound(s)'
<1>1. /\ Successor(s)' = Successor(s) /\ clientAddr' = clientAddr /\ socketClient' = socketClient
      /\ peer' = peer /\ connector' = connector /\ watched' = watched /\ canStart' = canStart
  BY DEF Successor, address, sockets, connectors
<1>2. \A u \in alive' : clientAddr[s] # 0 => Dist(s, clientAddr[s]) <= Dist(s, u)
  BY DEF Sound, Nearest
<1>3. QED
  BY <1>1, <1>2 DEF Sound, Nearest

(* A listener accepts the next predecessor.                                  *)
LEMMA RingAccept ==
    ASSUME TInv, TInv', RingInv, NEW s \in alive, Accept(s)
    PROVE  RInv'
<1>1. TypeOK /\ Wires /\ s \in Server /\ alive \subseteq Server /\ Sound(s)
  BY DEF TInv, TypeOK, RingInv
<1>2. /\ listener[s] = "accept" /\ listener'[s] = "listen" /\ backlog[s] # <<>>
      /\ from'[s] = Head(backlog[s]) /\ backlog'[s] = Tail(backlog[s])
      /\ \A x \in Server \ {s} :
            backlog'[x] = backlog[x] /\ listener'[x] = listener[x] /\ from'[x] = from[x]
      /\ UNCHANGED <<alive, elected, disconnected, address, sockets, chan, connectors>>
  <2>1. listener'[s] = "listen" /\ \A x \in Server \ {s} : listener'[x] = listener[x]
    BY <1>1 DEF Accept, TypeOK
  <2>2. from'[s] = Head(backlog[s]) /\ \A x \in Server \ {s} : from'[x] = from[x]
    BY <1>1 DEF Accept, TypeOK
  <2>3. backlog'[s] = Tail(backlog[s]) /\ \A x \in Server \ {s} : backlog'[x] = backlog[x]
    BY <1>1 DEF Accept, TypeOK
  <2>4. QED
    BY <2>1, <2>2, <2>3 DEF Accept
<1>3. from'[s][1] \in alive /\ backlog'[s] = <<>>
  <2>1. backlog[s] \in Seq(Server \X Socket) /\ Len(backlog[s]) <= 1
    BY <1>1 DEF TypeOK, RingInv, Queues
  <2>2. Len(backlog[s]) = 1 /\ Head(backlog[s]) = backlog[s][1]
    <3>1. Len(backlog[s]) \in Nat /\ Len(backlog[s]) # 0
      BY <1>2, <2>1, EmptySeq, LenProperties
    <3>2. Head(backlog[s]) = backlog[s][1]
      BY <1>2, <2>1, HeadTailProperties
    <3>3. Len(backlog[s]) <= 1
      BY <2>1
    <3>4. Len(backlog[s]) = 1
      <4>1. PICK n \in Nat : n = Len(backlog[s])
        BY <3>1
      <4>2. n # 0 /\ n <= 1
        BY <3>1, <3>3, <4>1
      <4>3. n = 1
        BY <4>2
      <4>4. QED
        BY <4>1, <4>3
    <3>5. QED
      BY <3>2, <3>4
  <2>3. Tail(backlog[s]) \in Seq(Server \X Socket) /\ Len(Tail(backlog[s])) = 0
    BY <1>2, <2>1, <2>2, HeadTailProperties
  <2>4. backlog[s][1][1] \in alive
    BY <2>2 DEF RingInv, Queues
  <2>5. QED
    BY <1>2, <2>2, <2>3, <2>4, EmptySeq
<1>4. Queues'
  <2>1. ASSUME NEW x \in alive
        PROVE  /\ Len(backlog'[x]) <= 1
               /\ \A n \in 1 .. Len(backlog'[x]) : backlog'[x][n][1] \in alive
               /\ backlog'[x] # <<>> => listener'[x] # "listen" \/ from'[x][1] \notin alive
    <3>1. CASE x = s
      <4>1. Len(backlog'[x]) = 0
        BY <1>3, <3>1
      <4>2. QED
        BY <1>3, <3>1, <4>1
    <3>2. CASE x # s
      <4>1. backlog'[x] = backlog[x] /\ listener'[x] = listener[x] /\ from'[x] = from[x]
        BY <1>1, <1>2, <3>2
      <4>2. QED
        BY <4>1 DEF RingInv, Queues
    <3>3. QED
      BY <3>1, <3>2
  <2>2. QED
    BY <1>2, <2>1 DEF Queues
<1>5. Sound(s)'
  <2>1. \A k \in Thread : Second(s, k) => Second(s, k)'
    BY <1>2, <1>3 DEF Second, address, connectors
  <2>2. QED
    BY <1>1, <1>2, <2>1, SameConnectors
<1>6. /\ \A x \in alive' : Sound(x)'
      /\ \A x \in alive \ {s} : Kept(x) /\ (Up(x) => Up(x)') /\ (Busy(x) => Busy(x)')
  BY <1>5, RestSound DEF RingInv, ListenerStep
<1>7. (Up(s) => Up(s)') /\ (Busy(s) => Busy(s)')
  <2>1. Up(s) => Up(s)'
    BY <1>2 DEF Up, address, connectors
  <2>2. Busy(s) => Busy(s)'
    BY <1>2, <1>3 DEF Busy, address, connectors
  <2>3. QED
    BY <2>1, <2>2
<1>8. /\ NoneParticipates => NoneParticipates'
      /\ NoMessages => NoMessages'
      /\ \A p \in alive : Mending(p) => Mending(p)'
      /\ Election => Election'
  <2>1. \A x \in alive : /\ connector'[x][1] = connector[x][1]
                         /\ (Up(x) => Up(x)') /\ (Busy(x) => Busy(x)')
    BY <1>2, <1>6, <1>7 DEF connectors
  <2>2. UNCHANGED <<elected, chan, clientAddr, socketClient, canStart>>
    BY <1>2 DEF address, sockets, connectors
  <2>3. QED
    BY <1>2, <2>1, <2>2, StillThere
<1>9. Forming => Forming'
  <2>1. \A x \in Server : (listener'[x] = "spawn") <=> (listener[x] = "spawn")
    BY <1>2
  <2>2. QED
    BY <1>2, <2>1 DEF Forming, elected, connectors
<1>10. QED
  BY <1>2, <1>4, <1>6, <1>8, <1>9 DEF RInv, RingInv, Quiet

(* A listener sees that its predecessor is gone.                             *)
LEMMA RingGone ==
    ASSUME TInv, TInv', RingInv, NEW s \in alive, PredecessorGone(s)
    PROVE  RInv'
<1>1. TypeOK /\ Wires /\ s \in Server /\ alive \subseteq Server /\ Sound(s)
  BY DEF TInv, TypeOK, RingInv
<1>2. /\ listener[s] = "listen" /\ from[s][1] \notin alive
      /\ listener'[s] = "spawn" /\ disconnected'[s]
      /\ \A x \in Server \ {s} : listener'[x] = listener[x] /\ from'[x] = from[x]
      /\ UNCHANGED <<alive, elected, address, sockets, chan, backlog, connectors>>
  BY <1>1 DEF PredecessorGone, TypeOK
<1>3. Queues'
  <2>1. \A t \in alive : listener'[t] = "listen" => listener[t] = "listen" /\ from'[t] = from[t]
    BY <1>1, <1>2
  <2>2. QED
    BY <1>2, <2>1, StillQueues DEF RingInv
<1>4. Sound(s)'
  <2>1. \A k \in Thread : ~Second(s, k)
    BY <1>2 DEF Second
  <2>2. QED
    BY <1>1, <1>2, <2>1, SameConnectors
<1>5. /\ \A x \in alive' : Sound(x)'
      /\ \A x \in alive \ {s} : Kept(x) /\ (Up(x) => Up(x)') /\ (Busy(x) => Busy(x)')
  BY <1>4, RestSound DEF RingInv, ListenerStep
<1>6. (Up(s) => Up(s)') /\ (Busy(s) => Busy(s)')
  <2>1. Up(s) => Up(s)'
    BY <1>2 DEF Up, address, connectors
  <2>2. Busy(s) => Busy(s)'
    BY <1>2 DEF Busy, address, connectors
  <2>3. QED
    BY <2>1, <2>2
<1>7. /\ NoneParticipates => NoneParticipates'
      /\ NoMessages => NoMessages'
      /\ \A p \in alive : Mending(p) => Mending(p)'
      /\ Election => Election'
  <2>1. \A x \in alive : /\ connector'[x][1] = connector[x][1]
                         /\ (Up(x) => Up(x)') /\ (Busy(x) => Busy(x)')
    BY <1>2, <1>5, <1>6 DEF connectors
  <2>2. UNCHANGED <<elected, chan, clientAddr, socketClient, canStart>>
    BY <1>2 DEF address, sockets, connectors
  <2>3. QED
    BY <1>2, <2>1, <2>2, StillThere
<1>8. ~Forming
  <2>1. from[s] \in Server \X Socket
    BY <1>1, <1>2 DEF Wires
  <2>2. from[s][1] \in Server
    BY <2>1
  <2>3. QED
    BY <1>2, <2>2 DEF Forming
<1>9. QED
  BY <1>2, <1>3, <1>5, <1>7, <1>8 DEF RInv, RingInv, Quiet

-----------------------------------------------------------------------------
(* A server that reads a message is the one after the token's owner.         *)
LEMMA Reader ==
    ASSUME TInv, RingInv, NEW s \in alive, Inbox(s) # <<>>
    PROVE  /\ Election
           /\ \A x \in alive, m \in Message : Token(x, m) =>
                 /\ Inbox(s) = <<m>> /\ Head(Inbox(s)) = m
                 /\ from[s][1] = x /\ from[s][2] = socketClient[x] /\ Nearest(x, s)
<1>1. TypeOK /\ Wires /\ s \in Server /\ alive \subseteq Server
  BY DEF TInv, TypeOK
<1>2. /\ listener[s] = "listen" /\ from[s][1] \in Server /\ from[s][2] \in Socket
      /\ Inbox(s) = chan[from[s][1]][from[s][2]] /\ peer[from[s][1]][from[s][2]] = s
  BY <1>1, InboxFull
<1>3. Election
  BY <1>2 DEF RingInv, Quiet, NoMessages
<1>4. ASSUME NEW x \in alive, NEW m \in Message, Token(x, m)
      PROVE  /\ Inbox(s) = <<m>> /\ Head(Inbox(s)) = m
             /\ from[s][1] = x /\ from[s][2] = socketClient[x] /\ Nearest(x, s)
  <2>1. from[s][1] = x /\ from[s][2] = socketClient[x] /\ Inbox(s) = <<m>>
    BY <1>2, <1>4 DEF Token
  <2>2. Nearest(x, s)
    BY <1>2, <2>1, Wired DEF RingInv
  <2>3. Head(<<m>>) = m
    OBVIOUS
  <2>4. QED
    BY <2>1, <2>2, <2>3
<1>5. QED
  BY <1>3, <1>4

(* What it does to the token.                                                *)
LEMMA TokenMoves ==
    ASSUME TInv, NEW s \in alive, NEW x \in alive, NEW m, Token(x, m), Sound(s), Up(s),
           from[s][1] = x, from[s][2] = socketClient[x], socketClient[x] \in Socket,
           socketClient' = socketClient
    PROVE  /\ \A v : chan' = ReadAndSend(s, <<v>>) => Token(s, v)'
           /\ chan' = ReadAndSend(s, <<>>) => NoMessages'
<1> DEFINE i == socketClient[s]
           h == socketClient[x]
           read == [chan EXCEPT ![x][h] = Tail(@)]
<1>1. TypeOK /\ s \in Server /\ x \in Server
  BY DEF TInv, TypeOK
<1>2. i \in Socket /\ peer[s][i] \in alive
  <2>1. Successor(s) \in alive /\ \A y \in alive : y # 0
    BY <1>1, ConstantsAssumption DEF Sound, Up, TypeOK, Server
  <2>2. i # 0 /\ peer[s][i] \in alive /\ i \in 0 .. MaxSockets
    BY <1>1, <2>1 DEF Successor, TypeOK
  <2>3. QED
    BY <2>2, ConstantsAssumption DEF Socket
<1>3. \A y \in Server, j \in Socket : read[y][j] = <<>>
  <2>1. Tail(<<m>>) = <<>>
    OBVIOUS
  <2>2. chan[x][h] = <<m>>
    BY <1>1 DEF Token
  <2>3. \A y \in Server, j \in Socket :
           read[y][j] = IF y = x /\ j = h THEN Tail(chan[x][h]) ELSE chan[y][j]
    BY <1>1 DEF TypeOK
  <2>4. QED
    BY <2>1, <2>2, <2>3 DEF Token
<1>4. read \in [Server -> [Socket -> Seq(Message)]]
  <2>1. Tail(<<m>>) = <<>> /\ <<>> \in Seq(Message)
    OBVIOUS
  <2>2. chan[x][h] = <<m>> /\ chan \in [Server -> [Socket -> Seq(Message)]]
    BY <1>1 DEF Token, TypeOK
  <2>3. read = [chan EXCEPT ![x][h] = <<>>]
    BY <2>1, <2>2
  <2>4. QED
    BY <1>1, <2>1, <2>2, <2>3
<1> HIDE DEF read
<1>5. ASSUME NEW v, chan' = ReadAndSend(s, <<v>>) PROVE Token(s, v)'
  <2>1. <<v>> # <<>> /\ <<>> \o <<v>> = <<v>> /\ i # 0
    BY <1>2, ConstantsAssumption DEF Socket
  <2>2. chan' = [read EXCEPT ![s][i] = @ \o <<v>>]
    BY <1>2, <1>5, <2>1 DEF ReadAndSend, read
  <2>3. \A y \in Server, j \in Socket :
           chan'[y][j] = IF y = s /\ j = i THEN read[s][i] \o <<v>> ELSE read[y][j]
    BY <1>1, <1>2, <1>4, <2>2
  <2>4. read[s][i] \o <<v>> = <<v>>
    BY <1>1, <1>2, <1>3, <2>1
  <2>5. \A y \in Server, j \in Socket :
           chan'[y][j] = IF y = s /\ j = i THEN <<v>> ELSE <<>>
    <3>1. ASSUME NEW y \in Server, NEW j \in Socket
          PROVE  chan'[y][j] = IF y = s /\ j = i THEN <<v>> ELSE <<>>
      <4>1. CASE y = s /\ j = i
        <5>1. chan'[y][j] = read[s][i] \o <<v>>
          BY <2>3, <4>1
        <5>2. QED
          BY <2>4, <4>1, <5>1
      <4>2. CASE ~(y = s /\ j = i)
        <5>1. chan'[y][j] = read[y][j]
          BY <2>3, <4>2
        <5>2. QED
          BY <1>3, <4>2, <5>1
      <4>3. QED
        BY <4>1, <4>2
    <3>2. QED
      BY <3>1
  <2>6. QED
    BY <2>5 DEF Token
<1>6. ASSUME chan' = ReadAndSend(s, <<>>) PROVE NoMessages'
  <2>1. chan' = read
    BY <1>6 DEF ReadAndSend, read
  <2>2. QED
    BY <1>3, <2>1 DEF NoMessages
<1>7. QED
  BY <1>5, <1>6

(* The servers up to s, counted from p, are those up to x, its predecessor,  *)
(* and s.                                                                    *)
LEMMA RingOrder ==
    ASSUME TInv, NEW p \in alive, NEW x \in alive, NEW s \in alive, Nearest(x, s), NEW u \in alive
    PROVE  /\ x = p /\ s # p => (Dist(p, u) <= Dist(p, s) <=> u = s)
           /\ x # p /\ s # p =>
                 /\ Dist(p, x) < Dist(p, s)
                 /\ Dist(p, u) <= Dist(p, s) <=> (u = s \/ Dist(p, u) <= Dist(p, x))
           /\ x # p /\ s = p => (Dist(p, u) <= Dist(p, x) <=> u # p)
           /\ x = p /\ s = p => u = p
           /\ Dist(p, u) \in 1 .. N /\ Dist(p, s) \in 1 .. N /\ Dist(p, x) \in 1 .. N
           /\ Dist(p, p) = N
<1>1. p \in Server /\ x \in Server /\ s \in Server /\ u \in Server
  BY DEF TInv, TypeOK
<1>2. Dist(x, s) <= Dist(x, u) /\ Dist(x, s) <= Dist(x, p)
  BY DEF Nearest
<1>3. Dist(p, u) \in 1 .. N /\ Dist(p, s) \in 1 .. N /\ Dist(p, x) \in 1 .. N /\ Dist(p, p) = N
  BY <1>1, DistType
<1>4. x = p /\ s = p => u = p
  <2>1. u # p => Dist(p, u) < N
    BY <1>1, DistType
  <2>2. QED
    BY <1>2, <1>3, <2>1, ConstantsAssumption
<1>5. QED
  BY <1>1, <1>2, <1>3, <1>4, DistStep

(* A message changes nothing of the connections.                             *)
LEMMA MessageRest ==
    ASSUME TInv, RingInv,
           UNCHANGED <<alive, disconnected, address, sockets, backlog, listeners, connectors>>
    PROVE  /\ \A x \in alive' : Sound(x)'
           /\ \A x \in alive' : Up(x) => Up(x)'
           /\ Queues'
<1>1. Queues'
  BY StillQueues DEF RingInv, listeners
<1>2. ASSUME NEW x \in alive PROVE Sound(x)' /\ (Up(x) => Up(x)')
  <2>1. \A k \in Thread : Second(x, k) => Second(x, k)'
    BY DEF Second, address, listeners, connectors
  <2>2. x \in Server
    BY DEF TInv, TypeOK
  <2>3. Sound(x)'
    BY <2>1, <2>2, SameConnectors DEF RingInv
  <2>4. Up(x) => Up(x)'
    BY DEF Up, address, listeners, connectors
  <2>5. QED
    BY <2>3, <2>4
<1>3. QED
  BY <1>1, <1>2

(* A server joins the election: the first round goes on, or it is complete.  *)
LEMMA RingJoin ==
    ASSUME TInv, TInv', RingInv, NEW s \in alive, JoinElection(s)
    PROVE  RInv'
<1>1. TypeOK /\ Wires /\ s \in Server /\ alive \subseteq Server /\ Sound(s)
  BY DEF TInv, TypeOK, RingInv
<1>2. /\ Inbox(s) # <<>> /\ ~participating[s] /\ participating'[s]
      /\ \A u \in Server \ {s} : participating'[u] = participating[u]
      /\ UNCHANGED <<alive, primary, isPrimary, disconnected, address, sockets, backlog,
                     listeners, connectors>>
  BY <1>1 DEF JoinElection, TypeOK
<1>3. Election
  BY <1>2, Reader
<1>4. PICK x \in alive, m \in Message :
           /\ Token(x, m)
           /\ \/ \E p \in alive : FirstRound(p, x, m)
              \/ SecondRound(m)
              \/ \E w \in alive : Result(w, x, m)
  BY <1>3 DEF Election
<1>5. /\ Head(Inbox(s)) = m /\ Nearest(x, s)
      /\ from[s][1] = x /\ from[s][2] = socketClient[x] /\ socketClient[x] \in Socket
  <2>1. /\ Head(Inbox(s)) = m /\ Nearest(x, s)
        /\ from[s][1] = x /\ from[s][2] = socketClient[x]
    BY <1>2, <1>4, Reader
  <2>2. QED
    BY <1>1, <1>2, <2>1, InboxFull
<1> DEFINE v == [status |-> "ELECTION", id |-> Larger(m.id, Id[s])]
<1>6. v \in Message /\ Token(s, v)'
  <2>1. v \in Message
    BY <1>1, <1>2, <1>5, LargerId DEF Message
  <2>2. Up(s) /\ socketClient' = socketClient
    BY <1>2, <1>3 DEF Election, sockets
  <2>3. chan' = ReadAndSend(s, <<v>>)
    BY <1>5 DEF JoinElection
  <2>4. QED
    BY <1>1, <1>4, <1>5, <2>1, <2>2, <2>3, TokenMoves
<1>7. \A u \in alive : Id[u] \in Nat
  BY <1>1, ConstantsAssumption
<1>8. /\ \A u \in alive' : Sound(u)' /\ Up(u)' /\ ~isPrimary'[u]
      /\ Queues' /\ alive' = alive /\ alive' # Server
  BY <1>2, <1>3, MessageRest DEF Election
<1>9. (\E p \in alive : FirstRound(p, s, v)') \/ SecondRound(v)'
  <2>1. ASSUME NEW p \in alive, FirstRound(p, x, m) PROVE FirstRound(p, s, v)' \/ SecondRound(v)'
    <3>1. PICK b \in alive : m.id = Id[b]
      BY <2>1 DEF FirstRound
    <3>2. /\ m.id \in Nat /\ m.id >= Id[p]
          /\ \A u \in alive : /\ participating[u] <=> (x # p /\ Dist(p, u) <= Dist(p, x))
                              /\ participating[u] => m.id >= Id[u]
      BY <1>7, <2>1, <3>1 DEF FirstRound
    <3>3. /\ v.status = "ELECTION" /\ v.id >= m.id /\ v.id >= Id[s] /\ v.id \in Nat
          /\ v.id = m.id \/ v.id = Id[s]
      BY <1>7, <3>2 DEF Larger
    <3>4. \E c \in alive : v.id = Id[c]
      BY <3>1, <3>3
    <3>5. \A u \in alive : participating'[u] => v.id >= Id[u]
      <4>1. ASSUME NEW u \in alive, participating'[u] PROVE v.id >= Id[u]
        <5>1. u = s \/ m.id >= Id[u]
          BY <1>1, <1>2, <3>2, <4>1
        <5>2. QED
          BY <1>7, <3>2, <3>3, <5>1
      <4>2. QED
        BY <4>1
    <3>6. CASE s # p
      <4>1. \A u \in alive : participating'[u] <=> (s # p /\ Dist(p, u) <= Dist(p, s))
        <5>1. ASSUME NEW u \in alive PROVE participating'[u] <=> Dist(p, u) <= Dist(p, s)
          <6>1. CASE x = p
            BY <1>1, <1>2, <1>5, <3>2, <3>6, <6>1, RingOrder
          <6>2. CASE x # p
            <7>1. Dist(p, u) <= Dist(p, s) <=> (u = s \/ Dist(p, u) <= Dist(p, x))
              BY <1>5, <3>6, <6>2, RingOrder
            <7>2. CASE u = s
              BY <1>2, <7>1, <7>2
            <7>3. CASE u # s
              <8>1. participating'[u] = participating[u]
                BY <1>1, <1>2, <7>3
              <8>2. participating[u] <=> Dist(p, u) <= Dist(p, x)
                BY <3>2, <6>2
              <8>3. QED
                BY <7>1, <7>3, <8>1, <8>2
            <7>4. QED
              BY <7>2, <7>3
          <6>3. QED
            BY <6>1, <6>2
        <5>2. QED
          BY <3>6, <5>1
      <4>2. v.id >= Id[p]
        BY <1>7, <3>2, <3>3
      <4>3. QED
        BY <1>2, <3>3, <3>4, <3>5, <4>1, <4>2 DEF FirstRound
    <3>7. CASE s = p
      <4>1. \A u \in alive : participating'[u]
        <5>1. ASSUME NEW u \in alive PROVE participating'[u]
          <6>1. CASE x = p
            BY <1>1, <1>2, <1>5, <3>7, <6>1, RingOrder
          <6>2. CASE x # p
            BY <1>1, <1>2, <1>5, <3>2, <3>7, <6>2, RingOrder
          <6>3. QED
            BY <6>1, <6>2
        <5>2. QED
          BY <5>1
      <4>2. PICK c \in alive : v.id = Id[c]
        BY <3>4
      <4>3. \A u \in alive : Id[u] <= Id[c]
        BY <1>7, <3>5, <4>1, <4>2
      <4>4. QED
        BY <1>2, <3>3, <4>1, <4>2, <4>3 DEF SecondRound, Highest
    <3>8. QED
      BY <3>6, <3>7
  <2>2. ~SecondRound(m)
    BY <1>2 DEF SecondRound
  <2>3. ASSUME NEW w \in alive, Result(w, x, m) PROVE FALSE
    <3>1. x # w /\ ~(Dist(w, x) < Dist(w, s))
      BY <1>2, <2>3 DEF Result
    <3>2. CASE s # w
      BY <1>5, <3>1, <3>2, RingOrder
    <3>3. CASE s = w
      <4>1. Dist(w, s) = N /\ Dist(w, x) < N
        BY <1>1, <3>1, <3>3, DistType
      <4>2. QED
        BY <3>1, <4>1
    <3>4. QED
      BY <3>2, <3>3
  <2>4. QED
    BY <1>4, <2>1, <2>2, <2>3
<1>10. Election'
  <2>1. \E p \in alive' : FirstRound(p, s, v)' \/ SecondRound(v)'
    BY <1>8, <1>9
  <2>2. s \in alive'
    BY <1>8
  <2>3. QED
    BY <1>6, <1>8, <2>1, <2>2 DEF Election
<1>11. QED
  BY <1>8, <1>10 DEF RInv, RingInv

(* The candidate is passed on, or has won.                                   *)
LEMMA RingPass ==
    ASSUME TInv, TInv', RingInv, NEW s \in alive, PassCandidate(s)
    PROVE  RInv'
<1>1. TypeOK /\ Wires /\ s \in Server /\ alive \subseteq Server /\ Sound(s)
  BY DEF TInv, TypeOK, RingInv
<1>2. /\ Inbox(s) # <<>> /\ participating[s] /\ Head(Inbox(s)).status = "ELECTION"
      /\ UNCHANGED <<alive, elected, disconnected, address, sockets, backlog,
                     listeners, connectors>>
  BY <1>1 DEF PassCandidate
<1>3. Election
  BY <1>2, Reader
<1>4. PICK x \in alive, m \in Message :
           /\ Token(x, m)
           /\ \/ \E p \in alive : FirstRound(p, x, m)
              \/ SecondRound(m)
              \/ \E w \in alive : Result(w, x, m)
  BY <1>3 DEF Election
<1>5. /\ Head(Inbox(s)) = m /\ Nearest(x, s)
      /\ from[s][1] = x /\ from[s][2] = socketClient[x] /\ socketClient[x] \in Socket
  <2>1. /\ Head(Inbox(s)) = m /\ Nearest(x, s)
        /\ from[s][1] = x /\ from[s][2] = socketClient[x]
    BY <1>2, <1>4, Reader
  <2>2. QED
    BY <1>1, <1>2, <2>1, InboxFull
<1> DEFINE v == IF m.id = Id[s] THEN [status |-> "ELECTED", id |-> m.id] ELSE m
<1>6. v \in Message /\ Token(s, v)'
  <2>1. v \in Message
    BY DEF Message
  <2>2. Up(s) /\ socketClient' = socketClient
    BY <1>2, <1>3 DEF Election, sockets
  <2>3. chan' = ReadAndSend(s, <<v>>)
    BY <1>5 DEF PassCandidate
  <2>4. QED
    BY <1>1, <1>4, <1>5, <2>1, <2>2, <2>3, TokenMoves
<1>7. SecondRound(m)
  <2>1. ASSUME NEW p \in alive, FirstRound(p, x, m) PROVE FALSE
    <3>1. x # p /\ Dist(p, s) <= Dist(p, x)
      BY <1>2, <2>1 DEF FirstRound
    <3>2. CASE s # p
      <4>1. Dist(p, x) < Dist(p, s) /\ Dist(p, s) \in 1 .. N /\ Dist(p, x) \in 1 .. N
        BY <1>5, <3>1, <3>2, RingOrder
      <4>2. QED
        BY <3>1, <4>1, ConstantsAssumption
    <3>3. CASE s = p
      BY <1>5, <3>1, <3>3, RingOrder
    <3>4. QED
      BY <3>2, <3>3
  <2>2. ~ \E w \in alive : Result(w, x, m)
    BY <1>2, <1>5 DEF Result
  <2>3. QED
    BY <1>4, <2>1, <2>2
<1>8. /\ \A u \in alive' : Sound(u)' /\ Up(u)' /\ ~isPrimary'[u] /\ participating'[u]
      /\ Queues' /\ alive' = alive /\ alive' # Server
  BY <1>2, <1>3, <1>7, MessageRest DEF Election, SecondRound, elected
<1>9. PICK w \in alive : m.id = Id[w] /\ Highest(w)
  BY <1>7 DEF SecondRound
<1>10. CASE m.id = Id[s]
  <2>1. s = w /\ v.status = "ELECTED" /\ v.id = Id[w]
    BY <1>1, <1>9, <1>10, ConstantsAssumption
  <2>2. Result(s, s, v)'
    BY <1>8, <1>9, <2>1 DEF Result, Highest
  <2>3. Election'
    BY <1>6, <1>8, <2>2 DEF Election
  <2>4. QED
    BY <1>8, <2>3 DEF RInv, RingInv
<1>11. CASE m.id # Id[s]
  <2>1. SecondRound(v)'
    BY <1>7, <1>8, <1>11 DEF SecondRound, Highest
  <2>2. Election'
    BY <1>6, <1>8, <2>1 DEF Election
  <2>3. QED
    BY <1>8, <2>2 DEF RInv, RingInv
<1>12. QED
  BY <1>10, <1>11

(* The result is accepted and passed on, or it is back at the winner, who     *)
(* leads the ring.                                                            *)
LEMMA RingResult ==
    ASSUME TInv, TInv', RingInv, NEW s \in alive, AcceptResult(s)
    PROVE  /\ RInv'
           /\ isPrimary'[s] /\ ~isPrimary[s] => Highest(s)
<1>1. TypeOK /\ Wires /\ s \in Server /\ alive \subseteq Server /\ Sound(s)
  BY DEF TInv, TypeOK, RingInv
<1>2. /\ Inbox(s) # <<>> /\ participating[s] /\ Head(Inbox(s)).status = "ELECTED"
      /\ ~participating'[s] /\ primary'[s] = Head(Inbox(s)).id
      /\ isPrimary'[s] <=> (isPrimary[s] \/ Head(Inbox(s)).id = Id[s])
      /\ \A u \in Server \ {s} : /\ participating'[u] = participating[u]
                                 /\ primary'[u] = primary[u] /\ isPrimary'[u] = isPrimary[u]
      /\ UNCHANGED <<alive, disconnected, address, sockets, backlog, listeners, connectors>>
  <2>1. ~participating'[s] /\ \A u \in Server \ {s} : participating'[u] = participating[u]
    BY <1>1 DEF AcceptResult, TypeOK
  <2>2. /\ primary'[s] = Head(Inbox(s)).id
        /\ \A u \in Server \ {s} : primary'[u] = primary[u]
    BY <1>1 DEF AcceptResult, TypeOK
  <2>3. /\ isPrimary'[s] <=> (isPrimary[s] \/ Head(Inbox(s)).id = Id[s])
        /\ \A u \in Server \ {s} : isPrimary'[u] = isPrimary[u]
    BY <1>1 DEF AcceptResult, TypeOK
  <2>4. QED
    BY <2>1, <2>2, <2>3 DEF AcceptResult
<1>3. Election
  BY <1>2, Reader
<1>4. PICK x \in alive, m \in Message :
           /\ Token(x, m)
           /\ \/ \E p \in alive : FirstRound(p, x, m)
              \/ SecondRound(m)
              \/ \E w \in alive : Result(w, x, m)
  BY <1>3 DEF Election
<1>5. /\ Head(Inbox(s)) = m /\ Nearest(x, s)
      /\ from[s][1] = x /\ from[s][2] = socketClient[x] /\ socketClient[x] \in Socket
  <2>1. /\ Head(Inbox(s)) = m /\ Nearest(x, s)
        /\ from[s][1] = x /\ from[s][2] = socketClient[x]
    BY <1>2, <1>4, Reader
  <2>2. QED
    BY <1>1, <1>2, <2>1, InboxFull
<1>6. PICK w \in alive : Result(w, x, m)
  BY <1>2, <1>4, <1>5 DEF FirstRound, SecondRound
<1>7. /\ m.status = "ELECTED" /\ m.id = Id[w] /\ Highest(w)
      /\ \A u \in alive : /\ participating[u] <=> (x = w \/ Dist(w, x) < Dist(w, u))
                          /\ ~participating[u] => primary[u] = Id[w]
  BY <1>6 DEF Result
<1>8. /\ \A u \in alive' : Sound(u)' /\ Up(u)'
      /\ Queues' /\ alive' = alive /\ alive' # Server
      /\ \A u \in alive : ~isPrimary[u]
  BY <1>2, <1>3, MessageRest DEF Election
<1>9. Up(s) /\ socketClient' = socketClient
  BY <1>2, <1>3 DEF Election, sockets
<1>10. m.id = Id[s] <=> s = w
  BY <1>1, <1>7, ConstantsAssumption
<1>11. CASE s = w
  <2>1. NoMessages'
    <3>1. chan' = ReadAndSend(s, <<>>)
      BY <1>5, <1>10, <1>11 DEF AcceptResult
    <3>2. QED
      BY <1>1, <1>4, <1>5, <1>9, <3>1, TokenMoves
  <2>2. ASSUME NEW u \in alive
        PROVE  ~participating'[u] /\ (isPrimary'[u] <=> (u = w)) /\ primary'[u] = Id[w]
    <3>1. CASE u = s
      BY <1>2, <1>5, <1>7, <1>10, <1>11, <3>1
    <3>2. CASE u # s
      <4>1. ~participating[u]
        <5>1. CASE x = w
          BY <1>5, <1>11, <3>2, <5>1, RingOrder
        <5>2. CASE x # w
          <6>1. Dist(w, u) <= Dist(w, x) /\ Dist(w, u) \in 1 .. N /\ Dist(w, x) \in 1 .. N
            BY <1>5, <1>11, <3>2, <5>2, RingOrder
          <6>2. ~(Dist(w, x) < Dist(w, u))
            BY <6>1, ConstantsAssumption
          <6>3. QED
            BY <1>7, <5>2, <6>2
        <5>3. QED
          BY <5>1, <5>2
      <4>2. QED
        BY <1>1, <1>2, <1>7, <1>8, <1>11, <3>2, <4>1
    <3>3. QED
      BY <3>1, <3>2
  <2>3. Led' /\ NoneParticipates'
    BY <1>8, <2>2 DEF Led, NoneParticipates
  <2>4. Mending(w)'
    BY <1>8, <2>3 DEF Mending
  <2>5. RInv'
    BY <1>8, <2>1, <2>3, <2>4 DEF RInv, RingInv, Quiet
  <2>6. QED
    BY <1>7, <1>11, <2>5
<1>12. CASE s # w
  <2>1. Token(s, m)'
    <3>1. chan' = ReadAndSend(s, <<m>>)
      BY <1>5, <1>10, <1>12 DEF AcceptResult
    <3>2. QED
      BY <1>1, <1>4, <1>5, <1>9, <3>1, TokenMoves
  <2>2. ~isPrimary'[s] /\ primary'[s] = Id[w]
    BY <1>2, <1>5, <1>7, <1>8, <1>10, <1>12
  <2>3. ASSUME NEW u \in alive
        PROVE  /\ ~isPrimary'[u] /\ (participating'[u] <=> Dist(w, s) < Dist(w, u))
               /\ ~participating'[u] => primary'[u] = Id[w]
    <3>1. Dist(w, u) \in 1 .. N /\ Dist(w, s) \in 1 .. N /\ Dist(w, x) \in 1 .. N
      BY <1>5, RingOrder
    <3>2. CASE u = s
      <4>1. ~(Dist(w, s) < Dist(w, u))
        BY <3>1, <3>2, ConstantsAssumption
      <4>2. QED
        BY <1>2, <2>2, <3>2, <4>1
    <3>3. CASE u # s
      <4>1. /\ participating'[u] = participating[u] /\ primary'[u] = primary[u]
            /\ isPrimary'[u] = isPrimary[u]
        BY <1>1, <1>2, <3>3
      <4>2. CASE x = w
        <5>1. ~(Dist(w, u) <= Dist(w, s))
          BY <1>5, <1>12, <3>3, <4>2, RingOrder
        <5>2. Dist(w, s) < Dist(w, u)
          BY <3>1, <5>1, ConstantsAssumption
        <5>3. QED
          BY <1>7, <1>8, <4>1, <4>2, <5>2
      <4>3. CASE x # w
        <5>1. Dist(w, u) <= Dist(w, s) <=> Dist(w, u) <= Dist(w, x)
          BY <1>5, <1>12, <3>3, <4>3, RingOrder
        <5>2. Dist(w, s) < Dist(w, u) <=> Dist(w, x) < Dist(w, u)
          BY <3>1, <5>1, ConstantsAssumption
        <5>3. QED
          BY <1>7, <1>8, <4>1, <4>3, <5>2
      <4>4. QED
        BY <4>2, <4>3
    <3>4. QED
      BY <3>2, <3>3
  <2>4. Result(w, s, m)'
    <3>1. Highest(w)'
      BY <1>7, <1>8 DEF Highest
    <3>2. QED
      BY <1>7, <1>8, <1>12, <2>3, <3>1 DEF Result
  <2>5. Election'
    BY <1>8, <2>1, <2>3, <2>4 DEF Election
  <2>6. QED
    BY <1>8, <2>2, <2>5 DEF RInv, RingInv
<1>13. QED
  BY <1>11, <1>12

-----------------------------------------------------------------------------
(* Once the ring has settled, every server has its two neighbours and all    *)
(* know who leads.                                                           *)
LEMMA SettledRing ==
    ASSUME TInv, RingInv, Settled
    PROVE  /\ Led /\ NoneParticipates /\ NoMessages
           /\ \A s \in alive :
                 /\ connector[s][1] = "watch" /\ clientAddr[s] \in alive
                 /\ listener[s] = "listen" /\ from[s][1] \in alive
<1>1. TypeOK /\ Wires /\ alive \subseteq Server
  BY DEF TInv, TypeOK
<1>2. ASSUME NEW s \in alive
      PROVE  /\ connector[s][1] = "watch" /\ clientAddr[s] \in alive
             /\ listener[s] = "listen" /\ from[s][1] \in alive /\ socketClient[s] \in Socket
             /\ \A i \in Socket : chan[s][i] = <<>>
  <2>1. /\ \E k \in Thread : connector[s][k] = "watch"
        /\ Successor(s) \in alive /\ listener[s] = "listen" /\ from[s][1] \in alive
        /\ \A i \in Socket : chan[s][i] = <<>>
    BY DEF Settled
  <2>2. PICK k \in Thread : connector[s][k] = "watch"
    BY <2>1
  <2>3. k = 1
    <3>1. connector[s][k] # "off" /\ (k # 1 => ~Second(s, k))
      BY <2>2 DEF Second
    <3>2. QED
      BY <3>1 DEF RingInv, Sound
  <2>4. clientAddr[s] = Successor(s)
    BY <2>2, <2>3 DEF RingInv, Sound
  <2>5. socketClient[s] \in Socket
    <3>1. socketClient[s] \in 0 .. MaxSockets /\ socketClient[s] # 0
      BY <1>1, <2>1, ConstantsAssumption DEF TypeOK, Successor, Server
    <3>2. QED
      BY <3>1, ConstantsAssumption DEF Socket
  <2>6. QED
    BY <2>1, <2>2, <2>3, <2>4, <2>5
<1>3. ~Election
  <2>1. ASSUME Election PROVE FALSE
    <3>1. PICK x \in alive, m \in Message : Token(x, m)
      BY <2>1 DEF Election
    <3>2. chan[x][socketClient[x]] = <<m>>
      BY <1>1, <1>2, <3>1 DEF Token
    <3>3. chan[x][socketClient[x]] = <<>> /\ <<m>> # <<>>
      BY <1>2
    <3>4. QED
      BY <3>2, <3>3
  <2>2. QED
    BY <2>1
<1>4. NoneParticipates /\ NoMessages
  BY <1>3 DEF RingInv, Quiet
<1>5. Led
  <2>1. CASE Forming
    <3>1. 1 \in alive
      BY <2>1, ConstantsAssumption DEF Forming, Server
    <3>2. QED
      BY <1>1, <2>1, <3>1 DEF Forming, Led
  <2>2. ASSUME NEW p \in alive, Mending(p) PROVE Led
    <3>1. ~Busy(p)
      BY <1>2 DEF Busy
    <3>2. QED
      BY <2>2, <3>1 DEF Mending
  <2>3. QED
    BY <1>3, <2>1, <2>2 DEF RingInv, Quiet
<1>6. QED
  BY <1>2, <1>4, <1>5

(* A crash of a settled ring leaves the predecessor of the dead server to     *)
(* mend it, and to start an election if the primary is dead.                 *)
LEMMA RingCrash ==
    ASSUME TInv, TInv', RingInv, NEW d \in Server, Crash(d), ~Overlap
    PROVE  RInv'
<1>1. TypeOK /\ Wires /\ alive \subseteq Server /\ d \in alive
  BY DEF TInv, TypeOK, Crash
<1>2. /\ alive' = alive \ {d} /\ Settled
      /\ UNCHANGED <<elected, disconnected, address, sockets, chan, backlog,
                     listeners, connectors>>
  BY DEF Crash
<1>3. /\ Led /\ NoneParticipates /\ NoMessages
      /\ \A s \in alive :
            /\ connector[s][1] = "watch" /\ clientAddr[s] \in alive
            /\ listener[s] = "listen" /\ from[s][1] \in alive
  BY <1>2, SettledRing
<1>4. \A s \in alive : Nearest(s, clientAddr[s])
  BY <1>1, <1>3, ConstantsAssumption DEF RingInv, Sound, Server
<1>5. CASE alive' = {}
  BY <1>5 DEF RInv
<1>6. CASE alive' # {}
  <2>1. PICK p \in alive : clientAddr[p] = d
    <3>1. from[d][1] \in alive /\ clientAddr[from[d][1]] = d
      BY <1>1, <1>3, Listened DEF RingInv
    <3>2. QED
      BY <3>1
  <2>2. PICK e \in alive : e # d
    BY <1>2, <1>6
  <2>3. ASSUME NEW s \in alive, clientAddr[s] = d PROVE s = p
    BY <1>1, <1>4, <2>1, <2>3, OnePredecessor
  <2>4. p # d
    <3>1. p = d => Nearest(d, d)
      BY <1>4, <2>1
    <3>2. Dist(d, d) = N /\ Dist(d, e) < N /\ Dist(d, e) \in 1 .. N
      BY <1>1, <2>2, DistType
    <3>3. QED
      BY <2>2, <3>1, <3>2, ConstantsAssumption DEF Nearest
  <2>5. alive' # {p} => from[p][1] \in alive'
    <3>1. ASSUME NEW u \in alive', u # p, from[p][1] = d PROVE FALSE
      <4>1. clientAddr[d] = p /\ Nearest(d, p)
        BY <1>1, <1>3, <1>4, <2>1, <3>1, Listened DEF RingInv
      <4>2. u \in alive /\ u # d
        BY <1>2
      <4>3. Dist(p, u) <= Dist(p, d)
        <5>1. Dist(p, u) <= Dist(p, d) <=> u # p
          BY <1>1, <2>1, <2>4, <4>1, <4>2, RingOrder
        <5>2. QED
          BY <3>1, <5>1
      <4>4. Dist(p, d) <= Dist(p, u)
        BY <1>4, <2>1, <4>2 DEF Nearest
      <4>5. Dist(p, u) \in 1 .. N /\ Dist(p, d) \in 1 .. N /\ u \in Server /\ p \in Server
        BY <1>1, <2>1, <4>2, DistType
      <4>6. Dist(p, u) = Dist(p, d)
        BY <4>3, <4>4, <4>5, ConstantsAssumption
      <4>7. QED
        BY <1>1, <4>2, <4>5, <4>6, DistUnique
    <3>2. p \in alive' /\ from[p][1] \in alive
      BY <1>2, <1>3, <2>1, <2>4
    <3>3. QED
      BY <1>2, <3>1, <3>2
  <2>6. ASSUME NEW s \in alive' PROVE Sound(s)'
    <3>1. s \in alive /\ alive # {s}
      BY <1>1, <1>2
    <3>2. Sound(s)
      BY <3>1 DEF RingInv
    <3>3. \A k \in Thread \ {1} : connector[s][k] = "off"
      BY <3>1, <3>2 DEF Sound, Second
    <3>4. /\ Successor(s)' = Successor(s) /\ clientAddr' = clientAddr
          /\ socketClient' = socketClient /\ peer' = peer /\ connector' = connector
          /\ watched' = watched /\ canStart' = canStart
      BY <1>2 DEF Successor, address, sockets, connectors
    <3>5. \A u \in alive' : Dist(s, clientAddr[s]) <= Dist(s, u)
      BY <1>2, <1>4, <3>1 DEF Nearest
    <3>6. \A i \in Socket : i # socketClient[s] => peer[s][i] \notin alive'
      BY <1>2, <3>2 DEF Sound
    <3>7. connector[s][1] = "watch" /\ watched[s][1] = socketClient[s]
          /\ Successor(s) = clientAddr[s] /\ ~canStart[s][1]
      BY <1>3, <3>1, <3>2 DEF Sound
    <3>8. QED
      BY <3>3, <3>4, <3>5, <3>6, <3>7 DEF Sound, Nearest
  <2>7. Queues'
    <3>1. \A t \in alive : backlog[t] = <<>>
      BY <1>3 DEF RingInv, Queues
    <3>2. \A t \in alive : backlog'[t] = <<>> /\ Len(backlog'[t]) = 0
      BY <1>2, <3>1
    <3>3. QED
      BY <1>2, <3>2 DEF Queues
  <2>8. NoneParticipates' /\ NoMessages'
    BY <1>2, <1>3 DEF NoneParticipates, NoMessages, elected
  <2>9. Mending(p)'
    <3>1. alive' # Server /\ p \in alive'
      BY <1>1, <1>2, <2>1, <2>4
    <3>2. ASSUME NEW s \in alive' \ {p} PROVE Up(s)'
      <4>1. s \in alive /\ clientAddr[s] # d
        BY <1>2, <2>3
      <4>2. QED
        BY <1>2, <1>3, <4>1 DEF Up, address, listeners, connectors
    <3>3. clientAddr[p] # 0
      BY <1>1, <2>1, ConstantsAssumption DEF Server
    <3>4. Busy(p)'
      BY <1>2, <1>3, <2>1, <2>5, <3>3 DEF Busy, address, listeners, connectors
    <3>5. PICK l \in alive : \A s \in alive : (isPrimary[s] <=> (s = l)) /\ primary[s] = Id[l]
      BY <1>3 DEF Led
    <3>6. CASE l # d
      <4>1. Led'
        BY <1>2, <3>5, <3>6 DEF Led, elected
      <4>2. connector'[p][1] = "watch"
        BY <1>2, <1>3, <2>1 DEF connectors
      <4>3. QED
        BY <3>1, <3>2, <3>4, <4>1, <4>2 DEF Mending
    <3>7. CASE l = d
      <4>1. d \in Server \ alive' /\ \A s \in alive' : ~isPrimary'[s] /\ primary'[s] = Id[d]
        BY <1>1, <1>2, <3>5, <3>7 DEF elected
      <4>2. connector'[p][1] = "watch" /\ clientAddr'[p] = d
        BY <1>2, <1>3, <2>1 DEF address, connectors
      <4>3. Leaderless(p)'
        BY <4>1, <4>2 DEF Leaderless
      <4>4. QED
        BY <3>1, <3>2, <3>4, <4>3 DEF Mending
    <3>8. QED
      BY <3>6, <3>7
  <2>10. p \in alive'
    BY <1>2, <2>1, <2>4
  <2>11. QED
    BY <2>6, <2>7, <2>8, <2>9, <2>10 DEF RInv, RingInv, Quiet
<1>7. QED
  BY <1>5, <1>6

-----------------------------------------------------------------------------
(* The last server.                                                          *)

(* A thread of the last server that waits for a dead one stays so, whatever   *)
(* it does.                                                                   *)
LEMMA StuckStep ==
    ASSUME TInv, TInv', NEW s \in alive, Stuck(s),
           ListenerStep(s) \/ \E k \in Thread : ConnectorStep(s, k)
    PROVE  Stuck(s)'
<1>1. /\ TypeOK /\ Wires /\ Wires' /\ s \in Server /\ alive = {s} /\ N > 2
      /\ connector[s][1] = "connect" /\ Successor(s) = 0
      /\ \A i \in Socket : peer[s][i] # s
      /\ clientAddr[s] # s /\ backlog[s] = <<>>
      /\ \A k \in Thread \ {1} :
            /\ connector[s][k] \in {"off", "start", "connect"}
            /\ connector[s][k] # "off" => listener[s] = "accept"
            /\ connector[s][k] = "start" => ~disconnected[s] /\ clientAddr[s] = NextLine(s)
      /\ \A j, k \in Thread \ {1} : connector[s][j] # "off" /\ connector[s][k] # "off" => j = k
      /\ listener[s] = "spawn" /\ ~disconnected[s] => clientAddr[s] = NextLine(s)
  BY DEF TInv, TypeOK, Stuck
<1>2. NextLine(s) # s /\ NextLine(NextLine(s)) # s
  BY <1>1, ConstantsAssumption DEF NextLine, Server
<1>t. 1 \in Thread
  BY ConstantsAssumption DEF Thread
<1>3. ASSUME NEW k \in Thread, StartConnector(s, k) PROVE Stuck(s)'
  <2>1. k # 1 /\ connector[s][k] = "start"
    BY <1>1, <1>3 DEF StartConnector
  <2>2. ~disconnected[s] /\ clientAddr[s] = NextLine(s) /\ listener[s] = "accept"
    BY <1>1, <2>1
  <2>3. filePos[s] = NextLine(s)
    <3>1. clientAddr[s] # 0
      BY <1>1, <2>2, ConstantsAssumption DEF NextLine, Server
    <3>2. QED
      BY <1>1, <2>2, <3>1 DEF Wires
  <2>4. /\ clientAddr'[s] = NextLine(NextLine(s)) /\ socketClient'[s] = created[s] + 1
        /\ connector'[s][k] = "connect"
        /\ \A j \in Thread \ {k} : connector'[s][j] = connector[s][j]
        /\ UNCHANGED <<alive, disconnected, peer, backlog, listeners>>
    <3>1. /\ connector'[s][k] = "connect"
          /\ \A j \in Thread \ {k} : connector'[s][j] = connector[s][j]
      BY <1>1, <1>3 DEF StartConnector, TypeOK
    <3>2. QED
      BY <1>1, <1>3, <2>3, <3>1 DEF StartConnector, TypeOK
  <2>5. Successor(s)' = 0
    <3>1. created[s] + 1 \in Socket /\ created[s] + 1 > created[s]
      <4>1. created[s] \in 0 .. MaxSockets /\ created[s] < MaxSockets
        BY <1>1, <1>3 DEF StartConnector, TypeOK
      <4>2. QED
        BY <4>1, ConstantsAssumption DEF Socket
    <3>2. peer[s][created[s] + 1] = 0
      BY <1>1, <3>1 DEF Wires
    <3>3. QED
      BY <2>4, <3>2 DEF Successor
  <2>6. QED
    BY <1>1, <1>2, <1>t, <2>1, <2>2, <2>4, <2>5 DEF Stuck, listeners
<1>4. ASSUME NEW k \in Thread, Connect(s, k) PROVE FALSE
  BY <1>1, <1>4 DEF Connect, CanConnect
<1>5. ASSUME NEW k \in Thread, TryNextPort(s, k) \/ OnlyServerLeft(s, k) PROVE Stuck(s)'
  <2>1. /\ disconnected[s] /\ clientAddr'[s] # s
        /\ disconnected'[s] \/ clientAddr'[s] = NextLine(s)
        /\ UNCHANGED <<alive, sockets, backlog, listeners, connectors>>
    <3>1. CASE TryNextPort(s, k)
      <4>1. clientAddr'[s] = NextLine(filePos[s]) /\ NextLine(filePos[s]) # s
        BY <1>1, <3>1 DEF TryNextPort, TypeOK
      <4>2. QED
        BY <3>1, <4>1 DEF TryNextPort
    <3>2. CASE OnlyServerLeft(s, k)
      <4>1. clientAddr'[s] = NextLine(s)
        BY <1>1, <3>2 DEF OnlyServerLeft, TypeOK
      <4>2. QED
        BY <1>2, <3>2, <4>1 DEF OnlyServerLeft
    <3>3. QED
      BY <1>5, <3>1, <3>2
  <2>2. \A j \in Thread \ {1} : connector[s][j] # "start"
    BY <1>1, <2>1
  <2>3. Successor(s)' = 0
    BY <1>1, <2>1 DEF Successor, sockets
  <2>4. QED
    BY <1>1, <2>1, <2>2, <2>3 DEF Stuck, sockets, listeners, connectors
<1>6. ASSUME NEW k \in Thread, Connected(s, k) \/ ConnectionFailed(s, k) PROVE FALSE
  <2>1. connector[s][k] \in {"connected", "watch"}
    BY <1>6 DEF Connected, ConnectionFailed
  <2>2. QED
    BY <1>1, <2>1
<1>7. ASSUME SpawnConnector(s) PROVE Stuck(s)'
  <2>1. /\ listener[s] = "spawn" /\ listener'[s] = "accept"
        /\ UNCHANGED <<alive, elected, disconnected, address, sockets, chan, backlog,
                       from, canStart, watched>>
    BY <1>1, <1>7 DEF SpawnConnector, TypeOK
  <2>2. \A j \in Thread \ {1} : connector[s][j] = "off"
    BY <1>1, <2>1
  <2>3. Successor(s)' = 0
    BY <1>1, <2>1 DEF Successor, sockets
  <2>4. CASE disconnected[s]
    <3>1. connector' = connector
      BY <1>7, <2>4 DEF SpawnConnector
    <3>2. QED
      BY <1>1, <2>1, <2>2, <2>3, <3>1 DEF Stuck, sockets, address
  <2>5. CASE ~disconnected[s]
    <3>1. PICK k \in Thread : /\ connector[s][k] = "off"
                              /\ connector' = [connector EXCEPT ![s][k] = "start"]
      BY <1>7, <2>5 DEF SpawnConnector
    <3>2. k # 1 /\ \A j \in Thread : connector'[s][j] = IF j = k THEN "start" ELSE connector[s][j]
      BY <1>1, <3>1 DEF TypeOK
    <3>3. QED
      BY <1>1, <1>t, <2>1, <2>2, <2>3, <2>5, <3>2 DEF Stuck, sockets, address
  <2>6. QED
    BY <2>4, <2>5
<1>8. ASSUME Accept(s) PROVE FALSE
  BY <1>1, <1>8 DEF Accept
<1>9. ASSUME JoinElection(s) \/ PassCandidate(s) \/ AcceptResult(s) PROVE Stuck(s)'
  <2>1. UNCHANGED <<alive, disconnected, address, sockets, backlog, listeners, connectors>>
    BY <1>9 DEF JoinElection, PassCandidate, AcceptResult, elected
  <2>2. Successor(s)' = 0
    BY <1>1, <2>1 DEF Successor, sockets
  <2>3. QED
    BY <1>1, <2>1, <2>2 DEF Stuck, address, sockets, listeners, connectors
<1>10. ASSUME PredecessorGone(s) PROVE Stuck(s)'
  <2>1. /\ listener[s] = "listen" /\ listener'[s] = "spawn" /\ disconnected'[s]
        /\ UNCHANGED <<alive, elected, address, sockets, chan, backlog, connectors>>
    BY <1>1, <1>10 DEF PredecessorGone, TypeOK
  <2>2. \A j \in Thread \ {1} : connector[s][j] = "off"
    BY <1>1, <2>1
  <2>3. Successor(s)' = 0
    BY <1>1, <2>1 DEF Successor, sockets
  <2>4. QED
    BY <1>1, <2>1, <2>2, <2>3 DEF Stuck, address, sockets, connectors
<1>11. QED
  BY <1>3, <1>4, <1>5, <1>6, <1>7, <1>8, <1>9, <1>10 DEF ListenerStep, ConnectorStep

(* A server that is deaf stays so, whatever its threads do.                  *)
LEMMA DeafStep ==
    ASSUME TInv, TInv', NEW s \in alive, Deaf(s),
           ListenerStep(s) \/ \E k \in Thread : ConnectorStep(s, k)
    PROVE  Deaf(s)'
<1>1. /\ TypeOK /\ Wires /\ s \in Server /\ alive = {s} /\ N > 1
      /\ Successor(s) = 0 /\ clientAddr[s] # s
      /\ \A k \in Thread :
            \/ connector[s][k] \in {"off", "connect"}
            \/ connector[s][k] = "watch" /\ peer[s][watched[s][k]] = s
      /\ listener[s] \in {"accept", "listen"}
      /\ listener[s] = "listen" => from[s][1] = s
      /\ \A n \in 1 .. Len(backlog[s]) : backlog[s][n][1] = s
  BY DEF TInv, TypeOK, Deaf
<1>2. NextLine(s) # s
  BY <1>1, ConstantsAssumption DEF NextLine, Server
<1>3. ASSUME NEW k \in Thread, StartConnector(s, k) \/ Connected(s, k) PROVE FALSE
  <2>1. connector[s][k] \in {"start", "connected"}
    BY <1>3 DEF StartConnector, Connected
  <2>2. QED
    BY <1>1, <2>1
<1>4. ASSUME NEW k \in Thread, Connect(s, k) PROVE FALSE
  BY <1>1, <1>4 DEF Connect, CanConnect
<1>5. ASSUME NEW k \in Thread, TryNextPort(s, k) \/ OnlyServerLeft(s, k) PROVE Deaf(s)'
  <2>1. clientAddr'[s] # s /\ UNCHANGED <<alive, sockets, backlog, listeners, connectors>>
    <3>1. CASE TryNextPort(s, k)
      <4>1. clientAddr'[s] = NextLine(filePos[s]) /\ NextLine(filePos[s]) # s
        BY <1>1, <3>1 DEF TryNextPort, TypeOK
      <4>2. QED
        BY <3>1, <4>1 DEF TryNextPort
    <3>2. CASE OnlyServerLeft(s, k)
      <4>1. clientAddr'[s] = NextLine(s)
        BY <1>1, <3>2 DEF OnlyServerLeft, TypeOK
      <4>2. QED
        BY <1>2, <3>2, <4>1 DEF OnlyServerLeft
    <3>3. QED
      BY <1>5, <3>1, <3>2
  <2>2. Successor(s)' = 0
    BY <1>1, <2>1 DEF Successor, sockets
  <2>3. QED
    BY <1>1, <2>1, <2>2 DEF Deaf, sockets, listeners, connectors
<1>6. ASSUME NEW k \in Thread, ConnectionFailed(s, k) PROVE FALSE
  <2>1. connector[s][k] = "watch" /\ peer[s][watched[s][k]] \notin alive
    BY <1>6 DEF ConnectionFailed
  <2>2. QED
    BY <1>1, <2>1
<1>7. ASSUME SpawnConnector(s) PROVE FALSE
  BY <1>1, <1>7 DEF SpawnConnector
<1>8. ASSUME Accept(s) PROVE Deaf(s)'
  <2>1. /\ backlog[s] # <<>> /\ from'[s] = Head(backlog[s]) /\ backlog'[s] = Tail(backlog[s])
        /\ listener'[s] = "listen"
        /\ UNCHANGED <<alive, elected, disconnected, address, sockets, chan, connectors>>
    BY <1>1, <1>8 DEF Accept, TypeOK
  <2>2. backlog[s] \in Seq(Server \X Socket)
    BY <1>1 DEF TypeOK
  <2>3. /\ Len(backlog[s]) \in Nat \ {0} /\ Head(backlog[s]) = backlog[s][1]
        /\ Len(Tail(backlog[s])) = Len(backlog[s]) - 1
        /\ \A n \in 1 .. Len(Tail(backlog[s])) : Tail(backlog[s])[n] = backlog[s][n + 1]
    BY <2>1, <2>2, HeadTailProperties, EmptySeq, LenProperties
  <2>4. PICK l \in Nat \ {0} : l = Len(backlog[s])
    BY <2>3
  <2>5. from'[s][1] = s
    BY <1>1, <2>1, <2>3, <2>4
  <2>6. ASSUME NEW n \in 1 .. Len(backlog'[s]) PROVE backlog'[s][n][1] = s
    <3>1. n \in 1 .. l - 1 /\ backlog'[s][n] = backlog[s][n + 1]
      BY <2>1, <2>3, <2>4, <2>6
    <3>2. n + 1 \in 1 .. l
      BY <3>1
    <3>3. QED
      BY <1>1, <2>4, <3>1, <3>2
  <2>7. Successor(s)' = 0
    BY <1>1, <2>1 DEF Successor, sockets
  <2>8. QED
    BY <1>1, <2>1, <2>5, <2>6, <2>7 DEF Deaf, address, sockets, connectors
<1>9. ASSUME JoinElection(s) \/ PassCandidate(s) \/ AcceptResult(s) PROVE Deaf(s)'
  <2>1. UNCHANGED <<alive, disconnected, address, sockets, backlog, listeners, connectors>>
    BY <1>9 DEF JoinElection, PassCandidate, AcceptResult, elected
  <2>2. Successor(s)' = 0
    BY <1>1, <2>1 DEF Successor, sockets
  <2>3. QED
    BY <1>1, <2>1, <2>2 DEF Deaf, address, sockets, listeners, connectors
<1>10. ASSUME PredecessorGone(s) PROVE FALSE
  BY <1>1, <1>10 DEF PredecessorGone
<1>11. QED
  BY <1>3, <1>4, <1>5, <1>6, <1>7, <1>8, <1>9, <1>10 DEF ListenerStep, ConnectorStep

-----------------------------------------------------------------------------
(* The invariant and what follows from it.  It holds at the start.           *)
LEMMA RingInit == TInv /\ Init => RInv
<1> SUFFICES ASSUME TInv, Init PROVE RInv
  OBVIOUS
<1>t. 1 \in Thread /\ 0 \notin Server
  BY ConstantsAssumption DEF Thread, Server
<1>1. ASSUME NEW s \in alive PROVE Sound(s)
  BY <1>t DEF Init, Sound, Successor
<1>2. Queues
  BY DEF Init, Queues
<1>3. NoneParticipates /\ NoMessages
  BY DEF Init, NoneParticipates, NoMessages
<1>4. Forming
  BY <1>t DEF Init, Forming
<1>5. QED
  BY <1>1, <1>2, <1>3, <1>4 DEF RInv, RingInv, Quiet

(* Every step keeps it, and makes only the highest server the primary.       *)
LEMMA RingStep ==
    ASSUME TInv, TInv', RInv, Next, ~Overlap
    PROVE  /\ RInv'
           /\ \A s \in alive : isPrimary'[s] /\ ~isPrimary[s] => Highest(s)
<1>1. TypeOK /\ alive \subseteq Server
  BY DEF TInv, TypeOK
<1>2. ASSUME NEW d \in Server, Crash(d) PROVE RInv' /\ isPrimary' = isPrimary
  <2>1. alive' = alive \ {d} /\ d \in alive /\ isPrimary' = isPrimary
    BY <1>2 DEF Crash, elected
  <2>2. CASE RingInv
    BY <1>2, <2>1, <2>2, RingCrash
  <2>3. CASE \E s \in alive : Stuck(s) \/ Deaf(s)
    <3>1. alive' = {}
      BY <2>1, <2>3 DEF Stuck, Deaf
    <3>2. QED
      BY <2>1, <3>1 DEF RInv
  <2>4. QED
    BY <2>1, <2>2, <2>3 DEF RInv
<1>3. ASSUME NEW s \in Server, ListenerStep(s) \/ \E k \in Thread : ConnectorStep(s, k)
      PROVE  RInv' /\ \A u \in alive : isPrimary'[u] /\ ~isPrimary[u] => Highest(u)
  <2>1. s \in alive
    BY <1>3 DEF ListenerStep, ConnectorStep, StartConnector, Connect, TryNextPort,
       OnlyServerLeft, Connected, ConnectionFailed, SpawnConnector, Accept, JoinElection,
       PassCandidate, AcceptResult, PredecessorGone
  <2>2. ASSUME NEW u \in alive, u # s PROVE isPrimary'[u] = isPrimary[u] /\ alive' = alive
    BY <1>1, <1>3, <2>2, Locality DEF Kept
  <2>3. ASSUME alive = {s} PROVE Highest(s)
    BY <1>1, <2>3, ConstantsAssumption DEF Highest
  <2>4. CASE RingInv
    <3>1. CASE ListenerStep(s)
      <4>1. CASE AcceptResult(s)
        BY <2>1, <2>2, <2>4, <4>1, RingResult
      <4>2. CASE ~AcceptResult(s)
        <5>1. isPrimary' = isPrimary
          BY <3>1, <4>2 DEF ListenerStep, SpawnConnector, Accept, JoinElection, PassCandidate,
             PredecessorGone, elected
        <5>2. RInv'
          BY <2>1, <2>4, <3>1, <4>2, RingSpawn, RingAccept, RingJoin, RingPass, RingGone
             DEF ListenerStep
        <5>3. QED
          BY <5>1, <5>2
      <4>3. QED
        BY <4>1, <4>2
    <3>2. ASSUME NEW k \in Thread, ConnectorStep(s, k)
          PROVE  RInv' /\ \A u \in alive : isPrimary'[u] /\ ~isPrimary[u] => Highest(u)
      <4>1. CASE OnlyServerLeft(s, k)
        BY <2>1, <2>2, <2>3, <2>4, <4>1, RingTryNext
      <4>2. CASE ~OnlyServerLeft(s, k)
        <5>1. isPrimary' = isPrimary
          BY <3>2, <4>2 DEF ConnectorStep, StartConnector, Connect, TryNextPort, Connected,
             ConnectionFailed, elected
        <5>2. RInv'
          BY <2>1, <2>4, <3>2, <4>2, RingStart, RingConnect, RingTryNext, RingConnected,
             RingFailed DEF ConnectorStep
        <5>3. QED
          BY <5>1, <5>2
      <4>3. QED
        BY <4>1, <4>2
    <3>3. QED
      BY <1>3, <3>1, <3>2
  <2>5. CASE \E u \in alive : Stuck(u) \/ Deaf(u)
    <3>1. alive = {s} /\ (Stuck(s) \/ Deaf(s))
      BY <2>1, <2>5 DEF Stuck, Deaf
    <3>2. Stuck(s)' \/ Deaf(s)'
      BY <1>3, <2>1, <3>1, StuckStep, DeafStep
    <3>3. s \in alive'
      BY <3>2 DEF Stuck, Deaf
    <3>4. QED
      BY <2>3, <3>1, <3>2, <3>3 DEF RInv
  <2>6. QED
    BY <2>1, <2>4, <2>5 DEF RInv
<1>4. QED
  BY <1>2, <1>3 DEF Next

(* It says nothing of what changes in a stuttering step.                     *)
LEMMA RingStutter == RInv /\ UNCHANGED vars => RInv'
<1> SUFFICES ASSUME RInv, UNCHANGED vars PROVE RInv'
  OBVIOUS
<1> USE DEF vars
<1>1. \A s \in alive : Sound(s) => Sound(s)'
  BY DEF Sound, Second, Successor, Nearest
<1>2. Queues => Queues'
  BY DEF Queues
<1>3. NoneParticipates => NoneParticipates'
  BY DEF NoneParticipates
<1>4. NoMessages => NoMessages'
  BY DEF NoMessages
<1>5. Forming => Forming'
  BY DEF Forming
<1>6. /\ \A p \in alive : Mending(p) => Mending(p)'
      /\ Election => Election'
  <2>1. \A x \in alive : /\ connector'[x][1] = connector[x][1]
                         /\ (Up(x) => Up(x)') /\ (Busy(x) => Busy(x)')
    BY DEF Up, Busy
  <2>2. UNCHANGED <<elected, chan, clientAddr, socketClient, canStart>> /\ alive' = alive
    BY DEF elected
  <2>3. QED
    BY <2>1, <2>2, StillThere
<1>7. \A s \in alive : (Stuck(s) => Stuck(s)') /\ (Deaf(s) => Deaf(s)')
  BY DEF Stuck, Deaf, Successor
<1>8. QED
  BY <1>1, <1>2, <1>3, <1>4, <1>5, <1>6, <1>7 DEF RInv, RingInv, Quiet

(* It holds always, when no server crashes before the ring has recovered from *)
(* the last crash.                                                           *)
LEMMA RingInvariant == ~Overlap => (Spec => [](TInv /\ RInv))
<1> SUFFICES ASSUME ~Overlap PROVE Spec => [](TInv /\ RInv)
  OBVIOUS
<1>1. Init => TInv /\ RInv
  BY TInvInit, RingInit
<1>2. ASSUME TInv, RInv, [Next]_vars PROVE TInv' /\ RInv'
  <2>1. TInv'
    <3>1. CASE Next
      BY <1>2, <3>1, TInvConnector, TInvListener DEF Next
    <3>2. QED
      BY <1>2, <3>1, TInvStutter
  <2>2. RInv'
    BY <1>2, <2>1, RingStep, RingStutter
  <2>3. QED
    BY <2>1, <2>2
<1>3. QED
  BY <1>1, <1>2, PTL DEF Spec

(* When no server crashes before the ring has settled again, no two live     *)
(* servers take themselves for the primary, at no moment of an election      *)
(* (ServersRing::isPrimary).                                                 *)
THEOREM OnePrimary == ~Overlap => (Spec => []AtMostOnePrimary)
<1>1. ASSUME TInv, RInv PROVE AtMostOnePrimary
  <2>1. CASE RingInv
    <3>1. CASE Forming
      BY <1>1, <3>1 DEF AtMostOnePrimary, Forming
    <3>2. CASE Led \/ \E p \in alive : Leaderless(p)
      BY <3>2 DEF AtMostOnePrimary, Led, Leaderless
    <3>3. CASE Election
      BY <3>3 DEF AtMostOnePrimary, Election
    <3>4. QED
      BY <2>1, <3>1, <3>2, <3>3 DEF RingInv, Quiet, Mending
  <2>2. CASE alive = {} \/ \E s \in alive : Stuck(s) \/ Deaf(s)
    BY <2>2 DEF AtMostOnePrimary, Stuck, Deaf
  <2>3. QED
    BY <1>1, <2>1, <2>2 DEF RInv
<1>2. QED
  BY <1>1, RingInvariant, PTL

(* And every election makes the live server with the highest port the        *)
(* primary (processElectionInfo).                                            *)
THEOREM HighestElected == ~Overlap => (Spec => HighestWins)
<1> SUFFICES ASSUME ~Overlap PROVE Spec => HighestWins
  OBVIOUS
<1>1. ASSUME TInv, RInv, TInv', [Next]_vars
      PROVE  [\A s \in alive : isPrimary'[s] /\ ~isPrimary[s] =>
                 \A t \in alive : Id[t] <= Id[s]]_vars
  <2>1. CASE Next
    BY <1>1, <2>1, RingStep DEF Highest
  <2>2. QED
    BY <1>1, <2>1
<1>2. QED
  BY <1>1, RingInvariant, PTL DEF Spec, HighestWins

(* And once the ring has settled, every server knows the primary and is      *)
(* ready for the next election (ServersRing::primary, isParticipating).      *)
THEOREM AllAgree == ~Overlap => (Spec => []Agreement)
<1>1. ASSUME TInv, RInv PROVE Agreement
  <2>1. SUFFICES ASSUME Settled
                 PROVE  \A s \in alive : /\ ~participating[s]
                                         /\ \A t \in alive : isPrimary[t] => primary[s] = Id[t]
    BY DEF Agreement
  <2>2. \A s \in alive : Successor(s) # 0
    <3>1. alive \subseteq Server /\ 0 \notin Server
      BY <1>1, ConstantsAssumption DEF TInv, TypeOK, Server
    <3>2. \A s \in alive : Successor(s) \in alive
      BY <2>1 DEF Settled
    <3>3. QED
      BY <3>1, <3>2
  <2>3. RingInv \/ alive = {}
    BY <1>1, <2>2 DEF RInv, Stuck, Deaf
  <2>4. CASE RingInv
    BY <1>1, <2>1, <2>4, SettledRing DEF Led, NoneParticipates
  <2>5. QED
    BY <2>3, <2>4
<1>2. QED
  BY <1>1, RingInvariant, PTL
=============================================================================
