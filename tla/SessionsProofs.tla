--------------------------- MODULE SessionsProofs ---------------------------
(***************************************************************************)
(* The session counter is exact and bounds the sessions of a user, for any *)
(* number of clients, users, groups and front ends.                        *)
(***************************************************************************)
EXTENDS Sessions, FiniteSetTheorems, TLAPS

(* The inductive invariant.  CountExact alone is not inductive: a step of a *)
(* listener changes the slots of the client in its packet, so the packet    *)
(* must be a joining client without an entry.                               *)
IInv ==
    /\ TypeOK
    /\ PacketsMatch
    /\ EntriesAnswered
    /\ CountExact
    /\ CountWithinLimit
    /\ AcceptMeansEntry

(* A client's slot exists iff it has an entry or its listener is registering *)
(* it; what leaves both alone leaves every slot alone.                       *)
LEMMA SlotsStable ==
    ASSUME UNCHANGED <<sessions, connectionsCount>>,
           \A c \in Client : IsRegistering(c)' <=> IsRegistering(c)
    PROVE  (CountExact => CountExact') /\ (CountWithinLimit => CountWithinLimit')
<1>1. \A u \in User : SlotsOf(u)' = SlotsOf(u)
  BY DEF SlotsOf
<1>2. QED
  BY <1>1 DEF CountExact, CountWithinLimit

(* The slots of a user form a finite set.                                   *)
LEMMA SlotsFinite ==
    ASSUME NEW u \in User
    PROVE  /\ IsFiniteSet(SlotsOf(u))
           /\ Cardinality(SlotsOf(u)) \in Nat
<1>1. SlotsOf(u) \subseteq Client
  BY DEF SlotsOf
<1>2. QED
  BY <1>1, ConstantsAssumption, FS_Subset, FS_CardinalityType

(* Releasing entries lowers each user's count by the slots it loses.        *)
LEMMA ReleaseKeepsCount ==
    ASSUME IInv, NEW STATE S, S \subseteq sessions, Release(S),
           \A c \in Client : IsRegistering(c)' <=> IsRegistering(c)
    PROVE  /\ connectionsCount' \in [User -> Nat]
           /\ CountExact'
           /\ CountWithinLimit'
<1> DEFINE Lost(u) == {c \in S : UserOf[c] = u}
<1>1. ASSUME NEW u \in User
      PROVE  /\ connectionsCount[u] - Cardinality(Lost(u)) \in Nat
             /\ connectionsCount[u] - Cardinality(Lost(u)) = Cardinality(SlotsOf(u)')
             /\ connectionsCount[u] - Cardinality(Lost(u)) <= MaxSessions
  <2>1. \A c \in S : ~IsRegistering(c)
    BY ConstantsAssumption DEF IInv, PacketsMatch, EntriesAnswered, IsRegistering, TypeOK
  <2>2. SlotsOf(u)' = SlotsOf(u) \ Lost(u)
    BY <2>1 DEF SlotsOf, Release
  <2>3. Lost(u) \subseteq SlotsOf(u)
    BY DEF SlotsOf, IInv, TypeOK
  <2>4. IsFiniteSet(SlotsOf(u)) /\ Cardinality(SlotsOf(u)) \in Nat
    BY SlotsFinite
  <2>5. SlotsOf(u) \cap Lost(u) = Lost(u)
    BY <2>3
  <2>6. Cardinality(SlotsOf(u) \ Lost(u)) = Cardinality(SlotsOf(u)) - Cardinality(Lost(u))
    BY <2>4, <2>5, FS_Difference
  <2>7. /\ Cardinality(Lost(u)) \in Nat
        /\ Cardinality(Lost(u)) <= Cardinality(SlotsOf(u))
    BY <2>3, <2>4, FS_Subset, FS_CardinalityType
  <2>8. connectionsCount[u] = Cardinality(SlotsOf(u)) /\ connectionsCount[u] <= MaxSessions
    BY DEF IInv, CountExact, CountWithinLimit
  <2>9. MaxSessions \in Nat
    BY ConstantsAssumption
  <2>10. QED
    BY <2>2, <2>4, <2>6, <2>7, <2>8, <2>9
<1>2. connectionsCount' = [u \in User |-> connectionsCount[u] - Cardinality(Lost(u))]
  BY DEF Release
<1>3. QED
  BY <1>1, <1>2 DEF CountExact, CountWithinLimit

(* The server starts without sessions, with every listener at its loop top. *)
LEMMA IInvInit == Init => IInv
<1> SUFFICES ASSUME Init PROVE IInv
  OBVIOUS
<1> USE ConstantsAssumption
<1>1. TypeOK
  BY DEF Init, TypeOK, Object, Thread, ListenerSteps, ClosingSteps, Stages
<1>2. PacketsMatch /\ EntriesAnswered /\ AcceptMeansEntry
  BY DEF Init, PacketsMatch, EntriesAnswered, AcceptMeansEntry, Registering, Thread
<1>3. ASSUME NEW u \in User PROVE SlotsOf(u) = {}
  BY DEF Init, SlotsOf, IsRegistering, Registering, Thread
<1>4. Cardinality({}) = 0
  BY FS_EmptySet
<1>5. \A u \in User : connectionsCount[u] = 0
  BY DEF Init
<1>6. \A u \in User : Cardinality(SlotsOf(u)) = 0
  BY <1>3, <1>4, Zenon
<1>7. CountExact /\ CountWithinLimit
  BY <1>5, <1>6 DEF CountExact, CountWithinLimit
<1>8. QED
  BY <1>1, <1>2, <1>7 DEF IInv

(* What a change of one thread's program counter does to the others.        *)
LEMMA GotoEffect ==
    ASSUME TypeOK, NEW f \in FE, NEW t \in Thread,
           NEW l \in ListenerSteps \cup ClosingSteps \cup {"watching"}, Goto(f, t, l)
    PROVE  /\ pc' \in [FE -> [Thread -> ListenerSteps \cup ClosingSteps \cup {"watching"}]]
           /\ pc'[f][t] = l
           /\ \A g \in FE, s \in Thread : g # f \/ s # t => pc'[g][s] = pc[g][s]
  BY DEF Goto, TypeOK

(* No listener enters or leaves a registration.                             *)
SameRegistering ==
    \A f \in FE : /\ pc'[f]["listener"] \in Registering <=> pc[f]["listener"] \in Registering
                  /\ pc'[f]["listener"] = "count" => pc[f]["listener"] = "count"

(* Steps that leave counts, entries and packets alone and take a thread     *)
(* neither into nor out of a registration.                                  *)
LEMMA QuietStep ==
    ASSUME IInv, UNCHANGED <<connectionsCount, sessions, stage, packet>>,
           SameRegistering, TypeOK'
    PROVE  IInv'
<1> USE ConstantsAssumption
<1>1. PacketsMatch' /\ EntriesAnswered' /\ AcceptMeansEntry'
  BY DEF IInv, PacketsMatch, EntriesAnswered, AcceptMeansEntry, SameRegistering
<1>2. \A c \in Client : IsRegistering(c)' <=> IsRegistering(c)
  BY DEF IsRegistering, SameRegistering
<1>3. CountExact' /\ CountWithinLimit'
  BY <1>2, SlotsStable DEF IInv
<1>4. QED
  BY <1>1, <1>3 DEF IInv

(* The listener reads a JOIN: a joining client, not counted yet.            *)
LEMMA ReadJoinStep ==
    ASSUME IInv, NEW f \in FE, NEW c \in Client, ReadJoin(f, c)
    PROVE  IInv'
<1> USE ConstantsAssumption
<1>1. TypeOK /\ "listener" \in Thread /\ "count" \in ListenerSteps
  BY DEF IInv, Thread, ListenerSteps
<1>2. /\ pc' \in [FE -> [Thread -> ListenerSteps \cup ClosingSteps \cup {"watching"}]]
      /\ pc'[f]["listener"] = "count"
      /\ \A g \in FE : g # f => pc'[g]["listener"] = pc[g]["listener"]
  BY <1>1, GotoEffect DEF ReadJoin
<1>3. TypeOK'
  BY <1>1, <1>2 DEF ReadJoin, TypeOK, Stages
<1>4. PacketsMatch'
  BY <1>1, <1>2 DEF ReadJoin, IInv, PacketsMatch, TypeOK
<1>5. EntriesAnswered' /\ AcceptMeansEntry'
  BY <1>1 DEF ReadJoin, IInv, EntriesAnswered, AcceptMeansEntry, TypeOK
<1>6. \A d \in Client : IsRegistering(d)' <=> IsRegistering(d)
  BY <1>1, <1>2 DEF ReadJoin, IsRegistering, Registering, At, TypeOK
<1>7. CountExact' /\ CountWithinLimit'
  BY <1>6, SlotsStable DEF ReadJoin, IInv
<1>8. QED
  BY <1>3, <1>4, <1>5, <1>7 DEF IInv

(* The counter is raised together with the slot of the registering client.  *)
LEMMA IncrementStep ==
    ASSUME IInv, NEW f \in FE, IncrementNumberOfConnections(f)
    PROVE  IInv'
<1> USE ConstantsAssumption
<1>1. TypeOK /\ "listener" \in Thread /\ "lookup" \in ListenerSteps
  BY DEF IInv, Thread, ListenerSteps
<1>2. /\ pc' \in [FE -> [Thread -> ListenerSteps \cup ClosingSteps \cup {"watching"}]]
      /\ pc'[f]["listener"] = "lookup"
      /\ \A g \in FE : g # f => pc'[g]["listener"] = pc[g]["listener"]
  BY <1>1, GotoEffect DEF IncrementNumberOfConnections
<1>3. pc[f]["listener"] = "count"
  BY DEF IncrementNumberOfConnections, At
<1>4. PICK c \in Client : c = packet[f] /\ FeOf[c] = f /\ stage[c] = "joining" /\ UserOf[c] \in User
  BY <1>3 DEF IInv, PacketsMatch
<1>5. c \notin sessions
  BY <1>4 DEF IInv, EntriesAnswered
<1>6. /\ connectionsCount' \in [User -> Nat]
      /\ connectionsCount'[UserOf[c]] = connectionsCount[UserOf[c]] + 1
      /\ connectionsCount'[UserOf[c]] <= MaxSessions
      /\ \A u \in User : u # UserOf[c] => connectionsCount'[u] = connectionsCount[u]
  BY <1>1, <1>4 DEF IncrementNumberOfConnections, TypeOK, LimitReached
<1>7. TypeOK'
  BY <1>1, <1>2, <1>6 DEF IncrementNumberOfConnections, TypeOK
<1>8. PacketsMatch' /\ EntriesAnswered' /\ AcceptMeansEntry'
  BY <1>2, <1>3 DEF IncrementNumberOfConnections, IInv, PacketsMatch, EntriesAnswered,
                    AcceptMeansEntry
<1>9. \A d \in Client : IsRegistering(d)' <=> IsRegistering(d) \/ d = c
  BY <1>2, <1>3, <1>4 DEF IncrementNumberOfConnections, IsRegistering, Registering
<1>10. ~IsRegistering(c)
  BY <1>3, <1>4 DEF IsRegistering, Registering
<1>11. SlotsOf(UserOf[c])' = SlotsOf(UserOf[c]) \cup {c} /\ c \notin SlotsOf(UserOf[c])
  BY <1>4, <1>5, <1>9, <1>10 DEF SlotsOf, IncrementNumberOfConnections
<1>12. \A u \in User : u # UserOf[c] => SlotsOf(u)' = SlotsOf(u)
  BY <1>9 DEF SlotsOf, IncrementNumberOfConnections
<1>13. Cardinality(SlotsOf(UserOf[c]) \cup {c}) = Cardinality(SlotsOf(UserOf[c])) + 1
  BY <1>4, <1>11, SlotsFinite, FS_AddElement
<1>14. CountExact' /\ CountWithinLimit'
  <2>1. ASSUME NEW u \in User
        PROVE  connectionsCount'[u] = Cardinality(SlotsOf(u)') /\ connectionsCount'[u] <= MaxSessions
    <3>1. connectionsCount[u] = Cardinality(SlotsOf(u)) /\ connectionsCount[u] <= MaxSessions
      BY DEF IInv, CountExact, CountWithinLimit
    <3>2. CASE u = UserOf[c]
      <4>1. Cardinality(SlotsOf(u)') = Cardinality(SlotsOf(u)) + 1
        BY <3>2, <1>11, <1>13, Zenon
      <4>2. QED
        BY <3>1, <3>2, <4>1, <1>6
    <3>3. CASE u # UserOf[c]
      <4>1. Cardinality(SlotsOf(u)') = Cardinality(SlotsOf(u))
        BY <3>3, <1>12, Zenon
      <4>2. QED
        BY <3>1, <3>3, <4>1, <1>6
    <3>4. QED
      BY <3>2, <3>3
  <2>2. QED
    BY <2>1 DEF CountExact, CountWithinLimit
<1>15. QED
  BY <1>7, <1>8, <1>14 DEF IInv

(* A refused client was never counted.                                      *)
LEMMA RefuseStep ==
    ASSUME IInv, NEW f \in FE, RefuseConnection(f)
    PROVE  IInv'
<1> USE ConstantsAssumption
<1> DEFINE c == packet[f]
<1>1. TypeOK /\ "listener" \in Thread /\ "top" \in ListenerSteps
  BY DEF IInv, Thread, ListenerSteps
<1>2. /\ pc' \in [FE -> [Thread -> ListenerSteps \cup ClosingSteps \cup {"watching"}]]
      /\ pc'[f]["listener"] = "top"
      /\ \A g \in FE : g # f => pc'[g]["listener"] = pc[g]["listener"]
  BY <1>1, GotoEffect DEF RefuseConnection
<1>3. pc[f]["listener"] = "count"
  BY DEF RefuseConnection, At
<1>4. c \in Client /\ FeOf[c] = f /\ stage[c] = "joining"
  BY <1>3 DEF IInv, PacketsMatch
<1>5. stage' = [stage EXCEPT ![c] = "refused"] /\ stage \in [Client -> Stages]
  BY <1>1 DEF RefuseConnection, TypeOK
<1>6. TypeOK'
  BY <1>1, <1>2, <1>5 DEF RefuseConnection, TypeOK, Stages
<1>7. PacketsMatch'
  BY <1>2, <1>4, <1>5 DEF RefuseConnection, IInv, PacketsMatch, Registering
<1>8. EntriesAnswered' /\ AcceptMeansEntry'
  BY <1>4, <1>5, <1>1 DEF RefuseConnection, IInv, EntriesAnswered, AcceptMeansEntry, TypeOK
<1>9. \A d \in Client : IsRegistering(d)' <=> IsRegistering(d)
  BY <1>2, <1>3 DEF RefuseConnection, IsRegistering, Registering
<1>10. CountExact' /\ CountWithinLimit'
  BY <1>9, SlotsStable DEF RefuseConnection, IInv
<1>11. QED
  BY <1>6, <1>7, <1>8, <1>10 DEF IInv

(* The entry takes over the slot of the registering client, and there is    *)
(* room for it: the other entries of the user are slots too, and the count  *)
(* of all slots is within the limit.                                        *)
LEMMA RegisterStep ==
    ASSUME IInv, NEW f \in FE, RegisterNewSession(f)
    PROVE  IInv'
<1> USE ConstantsAssumption
<1>1. TypeOK /\ "listener" \in Thread /\ "top" \in ListenerSteps
  BY DEF IInv, Thread, ListenerSteps
<1>2. /\ pc' \in [FE -> [Thread -> ListenerSteps \cup ClosingSteps \cup {"watching"}]]
      /\ pc'[f]["listener"] = "top"
      /\ \A g \in FE : g # f => pc'[g]["listener"] = pc[g]["listener"]
  BY <1>1, GotoEffect DEF RegisterNewSession
<1>3. pc[f]["listener"] = "register"
  BY DEF RegisterNewSession, At
<1>4. PICK c \in Client : c = packet[f] /\ FeOf[c] = f /\ stage[c] = "joining" /\ UserOf[c] \in User
  BY <1>3 DEF IInv, PacketsMatch, Registering
<1>5. c \notin sessions
  BY <1>4 DEF IInv, EntriesAnswered
<1>6. IsRegistering(c)
  BY <1>3, <1>4 DEF IsRegistering, Registering
<1>7. Cardinality(EntriesIn(home[c], UserOf[c])) < MaxSessions
  <2> DEFINE E == EntriesIn(home[c], UserOf[c])
             S == SlotsOf(UserOf[c])
  <2>1. E \subseteq S /\ c \in S /\ c \notin E
    BY <1>1, <1>4, <1>5, <1>6 DEF EntriesIn, SlotsOf, TypeOK
  <2>2. IsFiniteSet(S) /\ Cardinality(S) \in Nat
    BY <1>4, SlotsFinite
  <2>3. IsFiniteSet(E) /\ Cardinality(E) \in Nat /\ Cardinality(E) <= Cardinality(S)
    BY <2>1, <2>2, FS_Subset, FS_CardinalityType
  <2>4. Cardinality(E) # Cardinality(S)
    BY <2>1, <2>2, FS_Subset
  <2>5. Cardinality(S) = connectionsCount[UserOf[c]] /\ connectionsCount[UserOf[c]] <= MaxSessions
    BY <1>4 DEF IInv, CountExact, CountWithinLimit
  <2>6. QED
    BY <2>2, <2>3, <2>4, <2>5
<1>8. sessions' = sessions \cup {c} /\ stage' = [stage EXCEPT ![c] = "accepted"]
  BY <1>4, <1>7 DEF RegisterNewSession, HasRoom
<1>9. TypeOK'
  BY <1>1, <1>2, <1>8 DEF RegisterNewSession, TypeOK, Stages
<1>10. PacketsMatch'
  <2>1. SUFFICES ASSUME NEW g \in FE, pc'[g]["listener"] \in Registering \cup {"count"}
                 PROVE  packet'[g] \in Client /\ FeOf[packet'[g]] = g /\ stage'[packet'[g]] = "joining"
    BY DEF PacketsMatch
  <2>2. g # f
    BY <1>2, <2>1 DEF Registering
  <2>3. packet'[g] = packet[g] /\ pc[g]["listener"] \in Registering \cup {"count"}
    BY <1>1, <1>2, <2>1, <2>2 DEF RegisterNewSession
  <2>4. packet[g] \in Client /\ FeOf[packet[g]] = g /\ stage[packet[g]] = "joining"
    BY <2>3 DEF IInv, PacketsMatch
  <2>5. packet[g] # c
    BY <1>4, <2>2, <2>4
  <2>6. QED
    BY <1>1, <1>8, <2>3, <2>4, <2>5 DEF TypeOK
<1>11. EntriesAnswered' /\ AcceptMeansEntry'
  BY <1>1, <1>8 DEF IInv, EntriesAnswered, AcceptMeansEntry, TypeOK
<1>12. \A d \in Client : IsRegistering(d)' <=> IsRegistering(d) /\ d # c
  BY <1>2, <1>3, <1>4 DEF RegisterNewSession, IsRegistering, Registering
<1>13. \A u \in User : SlotsOf(u)' = SlotsOf(u)
  BY <1>4, <1>6, <1>8, <1>12 DEF SlotsOf
<1>14. connectionsCount' = connectionsCount
  BY DEF RegisterNewSession
<1>15. CountExact' /\ CountWithinLimit'
  BY <1>13, <1>14 DEF IInv, CountExact, CountWithinLimit
<1>16. QED
  BY <1>9, <1>10, <1>11, <1>15 DEF IInv

(* A DISCONNECT releases at most the entry of its own client.               *)
LEMMA ReadDisconnectStep ==
    ASSUME IInv, NEW f \in FE, NEW c \in Client, ReadDisconnect(f, c)
    PROVE  IInv'
<1> USE ConstantsAssumption
<1> DEFINE S == {d \in sessions : d = c /\ Reachable(d)}
<1>1. TypeOK /\ "listener" \in Thread /\ "top" \in ListenerSteps
  BY DEF IInv, Thread, ListenerSteps
<1>2. /\ pc' \in [FE -> [Thread -> ListenerSteps \cup ClosingSteps \cup {"watching"}]]
      /\ pc'[f]["listener"] = "top"
      /\ \A g \in FE : g # f => pc'[g]["listener"] = pc[g]["listener"]
  BY <1>1, GotoEffect DEF ReadDisconnect
<1>3. pc[f]["listener"] = "reading"
  BY DEF ReadDisconnect, At
<1>4. \A d \in Client : IsRegistering(d)' <=> IsRegistering(d)
  BY <1>1, <1>2, <1>3 DEF ReadDisconnect, IsRegistering, Registering, TypeOK
<1>5. Release(S) /\ S \subseteq sessions
  BY DEF ReadDisconnect
<1>6. connectionsCount' \in [User -> Nat] /\ CountExact' /\ CountWithinLimit'
  BY <1>4, <1>5, ReleaseKeepsCount
<1>7. sessions' \subseteq sessions
  BY <1>5 DEF Release
<1>8. stage[c] # "joining" /\ stage' = [stage EXCEPT ![c] = "left"]
  BY DEF ReadDisconnect
<1>9. TypeOK'
  BY <1>1, <1>2, <1>6, <1>7, <1>8 DEF ReadDisconnect, TypeOK, Stages
<1>10. PacketsMatch'
  <2>1. SUFFICES ASSUME NEW g \in FE, pc'[g]["listener"] \in Registering \cup {"count"}
                 PROVE  packet'[g] \in Client /\ FeOf[packet'[g]] = g /\ stage'[packet'[g]] = "joining"
    BY DEF PacketsMatch
  <2>2. g # f
    BY <1>2, <2>1 DEF Registering
  <2>3. packet'[g] = packet[g] /\ pc[g]["listener"] \in Registering \cup {"count"}
    BY <1>1, <1>2, <2>1, <2>2 DEF ReadDisconnect, TypeOK
  <2>4. packet[g] \in Client /\ FeOf[packet[g]] = g /\ stage[packet[g]] = "joining"
    BY <2>3 DEF IInv, PacketsMatch
  <2>5. QED
    BY <1>1, <1>8, <2>3, <2>4 DEF TypeOK
<1>11. EntriesAnswered' /\ AcceptMeansEntry'
  BY <1>1, <1>7, <1>8 DEF IInv, EntriesAnswered, AcceptMeansEntry, TypeOK
<1>12. QED
  BY <1>6, <1>9, <1>10, <1>11 DEF IInv

(* The end of a front end releases entries of that front end only.          *)
LEMMA DropSessionsStep ==
    ASSUME IInv, NEW f \in FE, NEW t \in Thread, DropSessions(f, t)
    PROVE  IInv'
<1> USE ConstantsAssumption
<1> PICK matched : Release({d \in sessions :
                            FeOf[d] = f /\ Reachable(d) /\ GroupOf[d] \in matched})
  BY DEF DropSessions
<1> DEFINE S == {d \in sessions : FeOf[d] = f /\ Reachable(d) /\ GroupOf[d] \in matched}
<1>1. TypeOK /\ "close" \in ClosingSteps /\ pc[f][t] = "drop"
  BY DEF IInv, ClosingSteps, DropSessions, At
<1>2. /\ pc' \in [FE -> [Thread -> ListenerSteps \cup ClosingSteps \cup {"watching"}]]
      /\ pc'[f][t] = "close"
      /\ \A g \in FE, s \in Thread : g # f \/ s # t => pc'[g][s] = pc[g][s]
  BY <1>1, GotoEffect DEF DropSessions
<1>3. SameRegistering
  BY <1>1, <1>2 DEF Registering, Thread, SameRegistering
<1>4. \A d \in Client : IsRegistering(d)' <=> IsRegistering(d)
  BY <1>3 DEF DropSessions, IsRegistering, SameRegistering
<1>5. Release(S) /\ S \subseteq sessions
  OBVIOUS
<1> HIDE DEF S
<1>6. connectionsCount' \in [User -> Nat] /\ CountExact' /\ CountWithinLimit'
  BY <1>4, <1>5, ReleaseKeepsCount
<1>7. sessions' \subseteq sessions
  BY <1>5 DEF Release
<1>8. TypeOK'
  BY <1>1, <1>2, <1>6, <1>7 DEF DropSessions, TypeOK
<1>9. PacketsMatch' /\ EntriesAnswered' /\ AcceptMeansEntry'
  BY <1>3, <1>7 DEF DropSessions, IInv, PacketsMatch, EntriesAnswered, AcceptMeansEntry,
     SameRegistering
<1>10. QED
  BY <1>6, <1>8, <1>9 DEF IInv

(* The remaining steps move one program counter outside registrations, or   *)
(* change tables the counter does not depend on.                            *)
LEMMA OtherStep ==
    ASSUME IInv,
           NEW f \in FE,
           \/ ListenerTop(f) \/ ReadEof(f) \/ GroupExists(f) \/ CreateGroup(f)
           \/ MonitorExpires(f) \/ FeDies(f)
           \/ \E t \in Thread : CloseCheck(f, t) \/ CloseSocket(f, t) \/ PurgeFeConnection(f, t)
    PROVE  IInv'
<1> USE ConstantsAssumption
<1>1. TypeOK
  BY DEF IInv
<1>2. ASSUME NEW t \in Thread,
             NEW l \in ListenerSteps \cup ClosingSteps \cup {"watching"}, Goto(f, t, l),
             t = "listener" => /\ l \in Registering <=> pc[f][t] \in Registering
                               /\ l # "count"
      PROVE  /\ pc' \in [FE -> [Thread -> ListenerSteps \cup ClosingSteps \cup {"watching"}]]
             /\ SameRegistering
  BY <1>1, <1>2, GotoEffect DEF Thread, SameRegistering
<1>3. CASE ListenerTop(f)
  <2>1. TypeOK' /\ SameRegistering
    BY <1>1, <1>2, <1>3 DEF ListenerTop, At, Thread, ListenerSteps, ClosingSteps, Registering, TypeOK
  <2>2. QED
    BY <1>3, <2>1, QuietStep DEF ListenerTop
<1>4. CASE ReadEof(f)
  <2>1. TypeOK' /\ SameRegistering
    BY <1>1, <1>2, <1>4 DEF ReadEof, At, Thread, ListenerSteps, ClosingSteps, Registering, TypeOK
  <2>2. QED
    BY <1>4, <2>1, QuietStep DEF ReadEof
<1>5. CASE GroupExists(f)
  <2>1. TypeOK' /\ SameRegistering
    BY <1>1, <1>2, <1>5 DEF GroupExists, At, Thread, ListenerSteps, Registering, TypeOK
  <2>2. QED
    BY <1>5, <2>1, QuietStep DEF GroupExists
<1>6. CASE CreateGroup(f)
  <2>1. pc[f]["listener"] = "create" /\ packet[f] \in Client
    BY <1>6 DEF CreateGroup, At, IInv, PacketsMatch, Registering
  <2>2. /\ pc' \in [FE -> [Thread -> ListenerSteps \cup ClosingSteps \cup {"watching"}]]
        /\ SameRegistering
    BY <1>2, <1>6, <2>1 DEF CreateGroup, Thread, ListenerSteps, Registering
  <2>3. TypeOK'
    BY <1>1, <1>6, <2>1, <2>2 DEF CreateGroup, TypeOK, Object
  <2>4. QED
    BY <1>6, <2>2, <2>3, QuietStep DEF CreateGroup
<1>7. CASE MonitorExpires(f)
  <2>1. TypeOK' /\ SameRegistering
    BY <1>1, <1>2, <1>7 DEF MonitorExpires, Thread, ClosingSteps, TypeOK
  <2>2. QED
    BY <1>7, <2>1, QuietStep DEF MonitorExpires
<1>8. CASE FeDies(f)
  <2>1. TypeOK'
    BY <1>1, <1>8 DEF FeDies, TypeOK
  <2>2. QED
    BY <1>8, <2>1, QuietStep DEF FeDies, SameRegistering
<1>9. ASSUME NEW t \in Thread, CloseCheck(f, t) \/ CloseSocket(f, t) \/ PurgeFeConnection(f, t)
      PROVE  IInv'
  <2>1. /\ pc[f][t] \in {"check", "close", "purge"}
        /\ \E l \in {"drop", "purge", "done"} : Goto(f, t, l)
        /\ UNCHANGED <<connectionsCount, sessions, stage, packet, groupMap, home, feUp>>
    BY <1>9 DEF CloseCheck, CloseSocket, PurgeFeConnection, At
  <2>2. /\ pc' \in [FE -> [Thread -> ListenerSteps \cup ClosingSteps \cup {"watching"}]]
        /\ SameRegistering
    BY <1>2, <2>1 DEF ClosingSteps, Registering
  <2>3. feAddresses' \subseteq FE /\ open' \subseteq FE /\ closes' \in [FE -> Nat]
    <3>1. CASE CloseCheck(f, t)
      BY <1>1, <3>1 DEF CloseCheck, TypeOK
    <3>2. CASE CloseSocket(f, t)
      BY <1>1, <3>2 DEF CloseSocket, TypeOK
    <3>3. CASE PurgeFeConnection(f, t)
      BY <1>1, <3>3 DEF PurgeFeConnection, TypeOK
    <3>4. QED
      BY <1>9, <3>1, <3>2, <3>3
  <2>4. TypeOK'
    BY <1>1, <2>1, <2>2, <2>3 DEF TypeOK
  <2>5. QED
    BY <2>1, <2>2, <2>4, QuietStep
<1>10. QED
  BY <1>3, <1>4, <1>5, <1>6, <1>7, <1>8, <1>9

(* registerUserToGroup keeps the Group object it found in a local variable. *)
LEMMA FetchStep ==
    ASSUME IInv, NEW f \in FE, FetchGroup(f)
    PROVE  IInv'
<1> USE ConstantsAssumption
<1>1. TypeOK /\ "listener" \in Thread /\ "register" \in ListenerSteps
  BY DEF IInv, Thread, ListenerSteps
<1>2. /\ pc' \in [FE -> [Thread -> ListenerSteps \cup ClosingSteps \cup {"watching"}]]
      /\ pc'[f]["listener"] = "register"
      /\ \A g \in FE : g # f => pc'[g]["listener"] = pc[g]["listener"]
  BY <1>1, GotoEffect DEF FetchGroup
<1>3. pc[f]["listener"] = "fetch" /\ packet[f] \in Client
  BY DEF FetchGroup, At, IInv, PacketsMatch, Registering
<1>4. TypeOK'
  BY <1>1, <1>2, <1>3 DEF FetchGroup, TypeOK
<1>5. SameRegistering
  BY <1>2, <1>3 DEF SameRegistering, Registering
<1>6. QED
  BY <1>4, <1>5, QuietStep DEF FetchGroup

(* Every step of the server keeps the inductive invariant.                  *)
LEMMA IInvStep == IInv /\ [Next]_vars => IInv'
<1> SUFFICES ASSUME IInv, [Next]_vars PROVE IInv'
  OBVIOUS
<1>1. CASE UNCHANGED vars
  BY <1>1 DEF vars, IInv, TypeOK, PacketsMatch, EntriesAnswered, CountExact, CountWithinLimit,
              AcceptMeansEntry, SlotsOf, IsRegistering
<1>2. ASSUME NEW f \in FE, ListenerStep(f) \/ MonitorExpires(f) \/ FeDies(f)
      PROVE  IInv'
  BY <1>2, IncrementStep, RefuseStep, FetchStep, RegisterStep, OtherStep DEF ListenerStep
<1>3. ASSUME NEW f \in FE, NEW c \in Client, ReadJoin(f, c) \/ ReadDisconnect(f, c)
      PROVE  IInv'
  BY <1>3, ReadJoinStep, ReadDisconnectStep
<1>4. ASSUME NEW f \in FE, NEW t \in Thread, ClosingStep(f, t)
      PROVE  IInv'
  BY <1>4, DropSessionsStep, OtherStep DEF ClosingStep
<1>5. QED
  BY <1>1, <1>2, <1>3, <1>4 DEF Next

-----------------------------------------------------------------------------
(* Every reachable state satisfies the inductive invariant.                 *)
LEMMA Invariance == Spec => []IInv
  BY IInvInit, IInvStep, PTL DEF Spec

(* The variables of the session tables keep their types: in particular no   *)
(* count ever goes below zero.                                              *)
THEOREM TypeCorrect == Spec => []TypeOK
<1>1. IInv => TypeOK
  BY DEF IInv
<1>2. QED
  BY <1>1, Invariance, PTL

(* connectionsCount equals the entries of the user plus the joins that are  *)
(* on their way to one, for every interleaving of listeners and monitors.   *)
THEOREM CountIsExact == Spec => []CountExact
<1>1. IInv => CountExact
  BY DEF IInv
<1>2. QED
  BY <1>1, Invariance, PTL

(* No client is sent ACCEPT without getting an entry.                       *)
THEOREM AcceptedHaveEntries == Spec => []AcceptMeansEntry
<1>1. IInv => AcceptMeansEntry
  BY DEF IInv
<1>2. QED
  BY <1>1, Invariance, PTL

(* No user holds more than MaxSessions entries on the whole server.         *)
THEOREM SessionsLimited == Spec => []SessionLimit
<1>1. IInv => SessionLimit
  <2>1. SUFFICES ASSUME IInv, NEW u \in User
                 PROVE  Cardinality({c \in sessions : UserOf[c] = u}) <= MaxSessions
    BY DEF SessionLimit
  <2> DEFINE E == {c \in sessions : UserOf[c] = u}
  <2>2. E \subseteq SlotsOf(u)
    BY <2>1 DEF IInv, TypeOK, SlotsOf
  <2>3. /\ IsFiniteSet(E) /\ Cardinality(E) \in Nat /\ Cardinality(SlotsOf(u)) \in Nat
        /\ Cardinality(E) <= Cardinality(SlotsOf(u))
    BY <2>2, SlotsFinite, FS_Subset, FS_CardinalityType
  <2>4. Cardinality(SlotsOf(u)) = connectionsCount[u] /\ connectionsCount[u] <= MaxSessions
    BY <2>1 DEF IInv, CountExact, CountWithinLimit
  <2>5. MaxSessions \in Nat
    BY ConstantsAssumption
  <2>6. QED
    BY <2>3, <2>4, <2>5
<1>2. QED
  BY <1>1, Invariance, PTL

(* A step that ends a session is one of a thread of the session's own front  *)
(* end: the others' timeouts and disconnections never reach it.              *)
THEOREM OthersSessionsKept == Spec => OnlyOwnFe
<1> DEFINE Own(c) == pc'[FeOf[c]] # pc[FeOf[c]]
<1>1. ASSUME TypeOK, Next PROVE \A c \in sessions \ sessions' : Own(c)
  <2> USE ConstantsAssumption, <1>1
  <2> SUFFICES ASSUME NEW c \in sessions, c \notin sessions' PROVE Own(c)
    OBVIOUS
  <2>1. c \in Client
    BY DEF TypeOK
  <2>2. ASSUME NEW f \in FE, ListenerStep(f) PROVE Own(c)
    BY <2>2 DEF ListenerStep, ListenerTop, ReadEof, IncrementNumberOfConnections,
       RefuseConnection, GroupExists, CreateGroup, FetchGroup, RegisterNewSession
  <2>3. ASSUME NEW f \in FE, NEW d \in Client, ReadDisconnect(f, d) PROVE Own(c)
    <3>1. c = d /\ FeOf[c] = f /\ pc[f]["listener"] = "reading"
      BY <2>3 DEF ReadDisconnect, Release, At
    <3>2. pc'[f]["listener"] = "top"
      BY <2>3 DEF ReadDisconnect, Goto, TypeOK, Thread
    <3> QED
      BY <3>1, <3>2
  <2>4. ASSUME NEW f \in FE, NEW t \in Thread, DropSessions(f, t) PROVE Own(c)
    <3>1. FeOf[c] = f /\ pc[f][t] = "drop"
      BY <2>4 DEF DropSessions, Release, At
    <3>2. pc'[f][t] = "close"
      BY <2>4 DEF DropSessions, Goto, TypeOK
    <3> QED
      BY <3>1, <3>2
  <2> QED
    BY <2>2, <2>3, <2>4
    DEF Next, ReadJoin, FeDies, MonitorExpires, ClosingStep, CloseCheck, CloseSocket,
        PurgeFeConnection
<1>2. ASSUME TypeOK, [Next]_vars
      PROVE  [\A c \in sessions \ sessions' : Own(c)]_vars
  BY <1>1, <1>2 DEF vars
<1> QED
  BY <1>2, TypeCorrect, PTL DEF Spec, OnlyOwnFe

-----------------------------------------------------------------------------
(* A client that has left.  LeftMeansNoEntry alone is not inductive either: *)
(* an entry its Group object no longer reaches would be reachable again if   *)
(* the map were to name that object once more.  It is not, because a JOIN   *)
(* creates at most one object.                                              *)
LInv == CreatorsJoined /\ LeftMeansNoEntry

(* The listener is between reading a JOIN and creating its group.           *)
Creating(f) == pc[f]["listener"] \in {"count", "lookup", "create"}

(* A step keeps LInv if it leaves the tables of groups alone, begins no      *)
(* registration of a client whose object exists, and lets no client leave   *)
(* that keeps a reachable entry.                                            *)
LEMMA TablesKept ==
    ASSUME LInv, UNCHANGED <<groupMap, home>>,
           \A c \in Client : stage'[c] = "new" => stage[c] = "new",
           \A f \in FE : Creating(f)' /\ Created(packet'[f])
                         => Creating(f) /\ packet[f] = packet'[f],
           \A c \in sessions' : stage'[c] = "left" /\ Reachable(c)
                                => c \in sessions /\ stage[c] = "left"
    PROVE  LInv'
<1>1. \A c \in Client : Created(c)' <=> Created(c)
  BY DEF Created
<1>2. \A c \in Client : Reachable(c)' <=> Reachable(c)
  BY DEF Reachable
<1>3. CreatorsJoined'
  BY <1>1 DEF LInv, CreatorsJoined, Creating
<1>4. LeftMeansNoEntry'
  BY DEF LInv, LeftMeansNoEntry, Reachable
<1>5. QED
  BY <1>3, <1>4 DEF LInv

(* A listener's step up to the entry.                                       *)
LEMMA ListenerKeepsTables ==
    ASSUME IInv, LInv, NEW f \in FE, ListenerStep(f)
    PROVE  LInv'
<1> USE ConstantsAssumption
<1>1. TypeOK /\ "listener" \in Thread
  BY DEF IInv, Thread
<1>2. \A l \in ListenerSteps \cup ClosingSteps : Goto(f, "listener", l) =>
         /\ pc'[f]["listener"] = l
         /\ \A g \in FE : g # f => pc'[g]["listener"] = pc[g]["listener"]
  BY <1>1, GotoEffect
<1>3. CASE ListenerTop(f) \/ ReadEof(f)
  <2>1. \E l \in {"reading", "check"} : Goto(f, "listener", l)
    BY <1>3 DEF ListenerTop, ReadEof
  <2>2. \A g \in FE : Creating(g)' => Creating(g)
    BY <1>2, <2>1 DEF Creating, ListenerSteps, ClosingSteps
  <2>3. UNCHANGED <<groupMap, home, stage, sessions, packet>>
    BY <1>3 DEF ListenerTop, ReadEof
  <2>4. QED
    BY <2>2, <2>3, TablesKept DEF LInv, LeftMeansNoEntry
<1>4. CASE IncrementNumberOfConnections(f) \/ GroupExists(f)
  <2>1. Creating(f) /\ \E l \in {"lookup", "create", "fetch"} : Goto(f, "listener", l)
    BY <1>4 DEF IncrementNumberOfConnections, GroupExists, Creating, At
  <2>2. \A g \in FE : Creating(g)' => Creating(g)
    BY <1>2, <2>1 DEF Creating, ListenerSteps
  <2>3. UNCHANGED <<groupMap, home, stage, sessions, packet>>
    BY <1>4 DEF IncrementNumberOfConnections, GroupExists
  <2>4. QED
    BY <2>2, <2>3, TablesKept DEF LInv, LeftMeansNoEntry
<1>5. CASE RefuseConnection(f) \/ RegisterNewSession(f)
  <2>1. /\ pc[f]["listener"] \in Registering \cup {"count"}
        /\ Goto(f, "listener", "top")
        /\ UNCHANGED <<groupMap, home, packet>>
    BY <1>5 DEF RefuseConnection, RegisterNewSession, At, Registering
  <2>2. packet[f] \in Client
    BY <2>1 DEF IInv, PacketsMatch
  <2>3. /\ \E s \in {"refused", "accepted", "unregistered"} : stage' = [stage EXCEPT ![packet[f]] = s]
        /\ sessions' \subseteq sessions \cup {packet[f]}
    BY <1>5 DEF RefuseConnection, RegisterNewSession
  <2>4. \A g \in FE : Creating(g)' => Creating(g)
    BY <1>2, <2>1 DEF Creating, ListenerSteps
  <2>5. \A c \in Client : /\ stage'[c] = "new" => stage[c] = "new"
                          /\ stage'[c] = "left" => stage[c] = "left" /\ c # packet[f]
    BY <1>1, <2>2, <2>3 DEF TypeOK
  <2>6. sessions' \subseteq Client
    BY <1>1, <2>2, <2>3 DEF TypeOK
  <2>7. QED
    BY <2>1, <2>3, <2>4, <2>5, <2>6, TablesKept
<1>6. CASE CreateGroup(f)
  <2> DEFINE c == packet[f]
  <2>1. /\ pc[f]["listener"] = "create"
        /\ groupMap' = [groupMap EXCEPT ![GroupOf[c]] = c]
        /\ Goto(f, "listener", "fetch")
        /\ UNCHANGED <<home, sessions, stage, packet>>
    BY <1>6 DEF CreateGroup, At
  <2>2. c \in Client /\ FeOf[c] = f /\ stage[c] = "joining" /\ GroupOf[c] \in Group
    BY <2>1 DEF IInv, PacketsMatch, Registering
  <2>3. ~Created(c)
    BY <2>1, <2>2 DEF LInv, CreatorsJoined
  <2>4. /\ pc'[f]["listener"] = "fetch"
        /\ \A g \in FE : g # f => pc'[g]["listener"] = pc[g]["listener"]
    BY <1>2, <2>1 DEF ListenerSteps
  <2>5. \A g \in Group : groupMap'[g] = IF g = GroupOf[c] THEN c ELSE groupMap[g]
    BY <1>1, <2>1, <2>2 DEF TypeOK
  <2>6. \A d \in Client : Created(d)' => Created(d) \/ d = c
    BY <2>1, <2>5 DEF Created
  <2>7. \A g \in FE : Creating(g)' => g # f /\ Creating(g) /\ FeOf[packet[g]] = g
    BY <2>4 DEF Creating, IInv, PacketsMatch, Registering
  <2>8. CreatorsJoined'
    BY <2>1, <2>2, <2>6, <2>7 DEF LInv, CreatorsJoined, Creating
  <2>9. \A d \in sessions : home[d] # c /\ d \in Client
    BY <1>1, <2>3 DEF Created, TypeOK
  <2>10. \A d \in sessions : Reachable(d)' => Reachable(d)
    BY <2>1, <2>2, <2>5, <2>9 DEF Reachable
  <2>11. LeftMeansNoEntry'
    BY <2>1, <2>10 DEF LInv, LeftMeansNoEntry
  <2>12. QED
    BY <2>8, <2>11 DEF LInv
<1>7. CASE FetchGroup(f)
  <2> DEFINE c == packet[f]
  <2>1. /\ pc[f]["listener"] = "fetch"
        /\ home' = [home EXCEPT ![c] = groupMap[GroupOf[c]]]
        /\ Goto(f, "listener", "register")
        /\ UNCHANGED <<groupMap, sessions, stage, packet>>
    BY <1>7 DEF FetchGroup, At
  <2>2. c \in Client /\ stage[c] = "joining" /\ GroupOf[c] \in Group
    BY <2>1 DEF IInv, PacketsMatch, Registering
  <2>3. c \notin sessions
    BY <2>2 DEF IInv, EntriesAnswered
  <2>4. \A g \in FE : Creating(g)' => Creating(g)
    BY <1>2, <2>1 DEF Creating, ListenerSteps
  <2>5. \A d \in Client : home'[d] = IF d = c THEN groupMap[GroupOf[c]] ELSE home[d]
    BY <1>1, <2>1, <2>2 DEF TypeOK
  <2>6. \A d \in Client : Created(d)' => Created(d)
    BY <2>1, <2>2, <2>5 DEF Created
  <2>7. CreatorsJoined'
    BY <2>1, <2>4, <2>6 DEF LInv, CreatorsJoined, Creating
  <2>8. \A d \in sessions : d \in Client /\ d # c
    BY <1>1, <2>3 DEF TypeOK
  <2>9. LeftMeansNoEntry'
    BY <2>1, <2>5, <2>8 DEF LInv, LeftMeansNoEntry, Reachable
  <2>10. QED
    BY <2>7, <2>9 DEF LInv
<1>8. QED
  BY <1>3, <1>4, <1>5, <1>6, <1>7 DEF ListenerStep

(* The packets of clients, and the steps of the monitor and of the closing. *)
LEMMA OthersKeepTables ==
    ASSUME IInv, LInv, NEW f \in FE,
           \/ MonitorExpires(f) \/ FeDies(f)
           \/ \E c \in Client : ReadJoin(f, c) \/ ReadDisconnect(f, c)
           \/ \E t \in Thread : ClosingStep(f, t)
    PROVE  LInv'
<1> USE ConstantsAssumption
<1>1. TypeOK /\ "listener" \in Thread
  BY DEF IInv, Thread
<1>2. \A t \in Thread, l \in ListenerSteps \cup ClosingSteps : Goto(f, t, l) =>
         /\ pc'[f][t] = l
         /\ \A g \in FE, s \in Thread : g # f \/ s # t => pc'[g][s] = pc[g][s]
  BY <1>1, GotoEffect
<1>3. ASSUME NEW c \in Client, ReadJoin(f, c)
      PROVE  LInv'
  <2>1. /\ stage[c] = "new" /\ stage' = [stage EXCEPT ![c] = "joining"]
        /\ packet' = [packet EXCEPT ![f] = c]
        /\ Goto(f, "listener", "count")
        /\ UNCHANGED <<groupMap, home, sessions>>
    BY <1>3 DEF ReadJoin
  <2>2. ~Created(c)
    BY <2>1 DEF LInv, CreatorsJoined
  <2>3. \A d \in Client : stage'[d] \in {"new", "left"} => stage'[d] = stage[d]
    BY <1>1, <2>1 DEF TypeOK
  <2>4. packet'[f] = c /\ \A g \in FE : g # f => packet'[g] = packet[g]
    BY <1>1, <2>1 DEF TypeOK
  <2>5. \A g \in FE : g # f => (Creating(g)' <=> Creating(g))
    BY <1>1, <1>2, <2>1 DEF Creating, ListenerSteps
  <2>6. \A g \in FE : Creating(g)' /\ Created(packet'[g]) => Creating(g) /\ packet[g] = packet'[g]
    BY <2>2, <2>4, <2>5
  <2>7. \A d \in sessions' : d \in sessions /\ d \in Client
    BY <1>1, <2>1 DEF TypeOK
  <2>8. QED
    BY <2>1, <2>3, <2>6, <2>7, TablesKept
<1>4. ASSUME NEW c \in Client, ReadDisconnect(f, c)
      PROVE  LInv'
  <2>1. /\ sessions' = sessions \ {d \in sessions : d = c /\ Reachable(d)}
        /\ stage' = [stage EXCEPT ![c] = "left"]
        /\ packet' = [packet EXCEPT ![f] = c]
        /\ Goto(f, "listener", "top")
        /\ UNCHANGED <<groupMap, home>>
    BY <1>4 DEF ReadDisconnect, Release
  <2>2. \A d \in Client : /\ stage'[d] = "new" => stage[d] = "new"
                          /\ stage'[d] = "left" => stage[d] = "left" \/ d = c
    BY <1>1, <2>1 DEF TypeOK
  <2>3. \A g \in FE : g # f => packet'[g] = packet[g]
    BY <1>1, <2>1 DEF TypeOK
  <2>4. \A g \in FE : Creating(g)' => Creating(g) /\ g # f
    BY <1>1, <1>2, <2>1 DEF Creating, ListenerSteps
  <2>5. \A d \in sessions' : stage'[d] = "left" /\ Reachable(d) => d \in sessions /\ stage[d] = "left"
    BY <1>1, <2>1, <2>2 DEF TypeOK
  <2>6. QED
    BY <2>1, <2>2, <2>3, <2>4, <2>5, TablesKept
<1>5. ASSUME NEW t \in Thread, ClosingStep(f, t)
      PROVE  LInv'
  <2>1. /\ \E l \in {"drop", "close", "purge", "done"} : Goto(f, t, l)
        /\ sessions' \subseteq sessions
        /\ UNCHANGED <<groupMap, home, stage, packet>>
    BY <1>5 DEF ClosingStep, CloseCheck, DropSessions, Release, CloseSocket, PurgeFeConnection
  <2>2. \A g \in FE : Creating(g)' => Creating(g)
    BY <1>1, <1>2, <2>1 DEF Creating, ClosingSteps
  <2>3. QED
    BY <2>1, <2>2, TablesKept
<1>6. CASE MonitorExpires(f)
  <2>1. \A g \in FE : Creating(g)' => Creating(g)
    BY <1>1, <1>2, <1>6 DEF MonitorExpires, Creating, Thread, ClosingSteps
  <2>2. QED
    BY <1>6, <2>1, TablesKept DEF MonitorExpires
<1>7. CASE FeDies(f)
  BY <1>7, TablesKept DEF FeDies, Creating
<1>8. QED
  BY <1>3, <1>4, <1>5, <1>6, <1>7

(* Once a client's DISCONNECT has been handled, no Group object that a name  *)
(* still leads to holds an entry of it.                                      *)
THEOREM LeftClientsForgotten == Spec => []LeftMeansNoEntry
<1>1. Init => LInv
  BY ConstantsAssumption DEF Init, LInv, CreatorsJoined, LeftMeansNoEntry, Created
<1>2. IInv /\ LInv /\ [Next]_vars => LInv'
  <2> SUFFICES ASSUME IInv, LInv, [Next]_vars PROVE LInv'
    OBVIOUS
  <2>1. CASE UNCHANGED vars
    BY <2>1 DEF vars, LInv, CreatorsJoined, LeftMeansNoEntry, Created, Reachable
  <2>2. CASE Next
    BY <2>2, ListenerKeepsTables, OthersKeepTables DEF Next
  <2>3. QED
    BY <2>1, <2>2
<1>3. LInv => LeftMeansNoEntry
  BY DEF LInv
<1>4. QED
  BY <1>1, <1>2, <1>3, Invariance, PTL DEF Spec
=============================================================================
