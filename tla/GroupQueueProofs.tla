-------------------------- MODULE GroupQueueProofs --------------------------
(***************************************************************************)
(* No wake-up of a group's consumer is lost, every member of the group     *)
(* gets all that is broadcast while it is one, what it is told about other *)
(* users is true, and the group implements Room: for any number of front   *)
(* ends, clients, users and messages.                                      *)
(***************************************************************************)
EXTENDS GroupQueue, SequenceTheorems, TLAPS

ConsumerSteps == {"gate", "take", "store", "send"}

(* A listener in registerNewSession works for a joining client of its own.   *)
JobsMatch ==
    \A f \in Thread : pc[f] \in {"enroll", "signalJoin", "register"} =>
        job[f] \in Client /\ FeOf[job[f]] = f /\ stage[job[f]] = "joining"

(* The consumer has a message in hand when it stores or sends one.           *)
ItemInHand == pc[Consumer] \in {"store", "send"} => item \in Item

(* The entries of the group are the members', and nothing has been broadcast *)
(* to a client that is not a member yet.                                     *)
EntriesAreMembers ==
    /\ users = {c \in Client : stage[c] = "member"}
    /\ \A c \in Client : stage[c] \in {"new", "joining"} => live[c] = <<>>
    /\ \A c \in Client : since[c] <= Len(order)

(* The inductive invariant: MembersInStep is not inductive, for a client that *)
(* registers must have got nothing yet and one that is sent to must be a      *)
(* member.                                                                    *)
IInv ==
    /\ TypeOK
    /\ JobsMatch
    /\ ItemInHand
    /\ EntriesAreMembers
    /\ MembersInStep
    /\ NoneStranded

(* What follows an index of a sequence grows with the sequence.              *)
LEMMA AppendSuffix ==
    ASSUME NEW S, NEW s \in Seq(S), NEW e \in S, NEW k \in 0 .. Len(s)
    PROVE  SubSeq(Append(s, e), k + 1, Len(Append(s, e)))
             = Append(SubSeq(s, k + 1, Len(s)), e)
<1> DEFINE t == Append(s, e)
<1> DEFINE n == Len(s)
<1>1. /\ t \in Seq(S) /\ Len(t) = n + 1 /\ t[n + 1] = e
      /\ t = s \o <<e>> /\ <<e>> \in Seq(S) /\ n \in Nat
  BY AppendProperties, AppendIsConcat
<1>2. SubSeq(t, k + 1, n + 1) = SubSeq(t, k + 1, n) \o <<e>>
  <2>1. k + 1 \in 1 .. Len(t) /\ n + 1 \in (k + 1) .. Len(t) /\ (n + 1) - 1 = n
    BY <1>1
  <2>2. SubSeq(t, k + 1, n + 1) = SubSeq(t, k + 1, (n + 1) - 1) \o <<t[n + 1]>>
    BY <1>1, <2>1, SubSeqRecursiveSecond
  <2>3. QED
    BY <1>1, <2>1, <2>2
<1>3. SubSeq(t, k + 1, n) = SubSeq(s, k + 1, n)
  <2>1. CASE k = n
    BY <1>1, <2>1, SubSeqEmpty
  <2>2. CASE k # n
    <3>1. k + 1 \in 1 .. Len(s) /\ n \in 1 .. Len(s)
      BY <1>1, <2>2
    <3>2. QED
      BY <1>1, <3>1, SubSeqOfConcat1
  <2>3. QED
    BY <2>1, <2>2
<1>4. SubSeq(s, k + 1, n) \in Seq(S)
  <2>1. \A i \in k + 1 .. n : s[i] \in S
    BY <1>1, ElementOfSeq
  <2>2. k + 1 \in Int /\ n \in Int
    BY <1>1
  <2>3. QED
    BY <2>1, <2>2, SubSeqProperties
<1>5. QED
  BY <1>1, <1>2, <1>3, <1>4, AppendIsConcat

(* The last lines of a sequence are a sequence over the same set.            *)
LEMMA LastLinesType ==
    ASSUME NEW S, NEW s \in Seq(S), NEW n \in Nat
    PROVE  LastLines(s, n) \in Seq(S)
<1>1. CASE Len(s) > n
  <2>1. Len(s) - n + 1 \in Int /\ Len(s) \in Int /\ Len(s) - n + 1 >= 1
    BY <1>1
  <2>2. \A i \in Len(s) - n + 1 .. Len(s) : s[i] \in S
    BY <2>1, ElementOfSeq
  <2>3. SubSeq(s, Len(s) - n + 1, Len(s)) \in Seq(S)
    BY <2>1, <2>2, SubSeqProperties
  <2>4. QED
    BY <1>1, <2>3 DEF LastLines
<1>2. CASE ~(Len(s) > n)
  BY <1>2 DEF LastLines
<1>3. QED
  BY <1>1, <1>2

(* The group starts empty, with its consumer asleep.                         *)
LEMMA IInvInit == Init => IInv
<1> SUFFICES ASSUME Init PROVE IInv
  OBVIOUS
<1> USE ConstantsAssumption
<1>1. TypeOK
  <2>1. <<>> \in Seq(Item) /\ <<>> \in Seq(Texts)
    BY EmptySeq
  <2>2. queue \in Seq(Item) /\ stored \in Seq(Texts) /\ order \in Seq(Item)
    BY <2>1 DEF Init
  <2>3. shown \in [Client -> Seq(Texts)] /\ live \in [Client -> Seq(Item)]
    BY <2>1 DEF Init
  <2>4. pc \in [Thread \cup {Consumer} -> ThreadSteps \cup {"gate", "take", "store", "send"}]
    BY DEF Init, ThreadSteps
  <2>5. sent \in [FE -> 0 .. MaxMessages] /\ since \in [Client -> Nat]
    BY DEF Init
  <2>6. QED
    BY <2>2, <2>3, <2>4, <2>5 DEF Init, TypeOK
<1>2. JobsMatch /\ ItemInHand /\ EntriesAreMembers /\ NoneStranded
  BY DEF Init, JobsMatch, ItemInHand, EntriesAreMembers, NoneStranded
<1>3. MembersInStep
  BY DEF Init, MembersInStep
<1>4. QED
  BY <1>1, <1>2, <1>3 DEF IInv

(* Notifications and texts are items; what the consumer takes is one.        *)
LEMMA Items ==
    /\ \A f \in FE, n \in 1 .. MaxMessages : Text(f, n) \in Texts
    /\ Texts \subseteq Item
    /\ \A u \in User : Activity("joined", u) \in Item /\ Activity("left", u) \in Item
    /\ \A i \in Item : i.kind = "text" => i \in Texts
<1>1. \A u \in User, k \in {"joined", "left"} : Activity(k, u).kind = k
  BY DEF Activity
<1>2. QED
  BY <1>1 DEF Item, Texts

(* Every step of the group keeps the types.                                  *)
LEMMA TypeStep == IInv /\ [Next]_vars => TypeOK'
<1> SUFFICES ASSUME IInv, [Next]_vars PROVE TypeOK'
  OBVIOUS
<1> USE ConstantsAssumption
<1>1. TypeOK /\ JobsMatch /\ ItemInHand
  BY DEF IInv
<1>2. ASSUME NEW f \in Thread, PostMessage(f) PROVE TypeOK'
  <2>1. sent[f] + 1 \in 1 .. MaxMessages
    BY <1>1, <1>2 DEF TypeOK, PostMessage
  <2>2. queue' \in Seq(Item)
    BY <1>1, <1>2, <2>1, Items, AppendProperties DEF TypeOK, PostMessage
  <2>3. sent' \in [FE -> 0 .. MaxMessages]
    BY <1>1, <1>2, <2>1 DEF TypeOK, PostMessage
  <2>4. QED
    BY <1>1, <1>2, <2>2, <2>3 DEF TypeOK, PostMessage, Goto, ThreadSteps, observed
<1>3. ASSUME NEW f \in Thread, Signal(f) PROVE TypeOK'
  BY <1>1, <1>3 DEF TypeOK, Signal, Goto, ThreadSteps, observed
<1>4. ASSUME NEW f \in Thread, NEW c \in Client, ReadHistory(f, c) PROVE TypeOK'
  <2>1. LastLines(stored, Limit) \in Seq(Texts)
    BY <1>1, LastLinesType DEF TypeOK
  <2>2. shown' \in [Client -> Seq(Texts)]
    BY <1>1, <1>4, <2>1 DEF TypeOK, ReadHistory
  <2>3. QED
    BY <1>1, <1>4, <2>2 DEF TypeOK, ReadHistory, Goto, ThreadSteps
<1>5. ASSUME NEW f \in Thread, Enroll(f) PROVE TypeOK'
  <2>1. UserOf[job[f]] \in User
    BY <1>1, <1>5 DEF JobsMatch, Enroll
  <2>2. queue' \in Seq(Item)
    BY <1>1, <1>5, <2>1, Items, AppendProperties DEF TypeOK, Enroll
  <2>3. pc' \in [Thread \cup {Consumer} -> ThreadSteps \cup {"gate", "take", "store", "send"}]
    BY <1>1, <1>5 DEF TypeOK, Enroll, Goto, ThreadSteps
  <2>4. QED
    BY <1>1, <1>5, <2>2, <2>3 DEF TypeOK, Enroll, observed
<1>6. ASSUME NEW f \in Thread, SignalJoin(f) PROVE TypeOK'
  BY <1>1, <1>6 DEF TypeOK, SignalJoin, Goto, ThreadSteps, observed
<1>7. ASSUME NEW f \in Thread, Register(f) PROVE TypeOK'
  <2>1. job[f] \in Client /\ Len(order) \in Nat
    BY <1>1, <1>7, LenProperties DEF JobsMatch, Register, TypeOK
  <2>2. since' \in [Client -> Nat] /\ users' \subseteq Client
    BY <1>1, <1>7, <2>1 DEF TypeOK, Register
  <2>3. QED
    BY <1>1, <1>7, <2>1, <2>2 DEF TypeOK, Register, Goto, ThreadSteps
<1>8. ASSUME NEW f \in Thread, NEW c \in Client, Leave(f, c) PROVE TypeOK'
  <2>1. queue' \in Seq(Item)
    BY <1>1, <1>8, Items, AppendProperties DEF TypeOK, Leave
  <2>2. pc' \in [Thread \cup {Consumer} -> ThreadSteps \cup {"gate", "take", "store", "send"}]
    BY <1>1, <1>8 DEF TypeOK, Leave, Goto, ThreadSteps
  <2>3. stage' \in [Client -> {"new", "joining", "member", "left", "dropped"}]
    BY <1>1, <1>8 DEF TypeOK, Leave, Stage
  <2>4. QED
    BY <1>1, <1>8, <2>1, <2>2, <2>3 DEF TypeOK, Leave, observed
<1>9. ASSUME NEW f \in Thread, SignalLeft(f) PROVE TypeOK'
  BY <1>1, <1>9 DEF TypeOK, SignalLeft, Goto, ThreadSteps, observed
<1>10. CASE PassGate \/ QueueEmpty
  BY <1>1, <1>10 DEF TypeOK, PassGate, QueueEmpty, Goto, observed
<1>11. CASE Take
  <2>1. Head(queue) \in Item /\ Tail(queue) \in Seq(Item)
    BY <1>1, <1>11, HeadTailProperties DEF TypeOK, Take
  <2>2. QED
    BY <1>1, <1>11, <2>1 DEF TypeOK, Take, Goto, observed
<1>12. CASE Store
  <2>1. stored' \in Seq(Texts)
    BY <1>1, <1>12, Items, AppendProperties DEF TypeOK, ItemInHand, Store
  <2>2. QED
    BY <1>1, <1>12, <2>1 DEF TypeOK, Store, Goto, observed
<1>13. CASE Broadcast
  <2>1. item \in Item
    BY <1>1, <1>13 DEF ItemInHand, Broadcast
  <2>2. \A q \in Seq(Item) : Append(q, item) \in Seq(Item)
    BY <2>1, AppendProperties
  <2>3. order' \in Seq(Item) /\ live' \in [Client -> Seq(Item)]
    BY <1>1, <1>13, <2>2 DEF TypeOK, Broadcast
  <2>4. QED
    BY <1>1, <1>13, <2>3 DEF TypeOK, Broadcast, Goto
<1>14. CASE UNCHANGED vars
  BY <1>1, <1>14 DEF TypeOK, vars
<1>15. QED
  BY <1>2, <1>3, <1>4, <1>5, <1>6, <1>7, <1>8, <1>9, <1>10, <1>11, <1>12, <1>13, <1>14
     DEF Next, ThreadStep, ConsumerStep

(* A step of thread t changes no other thread's program counter.             *)
LEMMA GotoEffect ==
    ASSUME TypeOK, NEW t \in Thread \cup {Consumer}, NEW l, Goto(t, l)
    PROVE  pc'[t] = l /\ \A s \in Thread \cup {Consumer} : s # t => pc'[s] = pc[s]
  BY DEF TypeOK, Goto

(* No step makes the consumer sleep on a queue that is not empty: what is    *)
(* queued is signalled by the listener that queued it, and a signal is used  *)
(* up only by the consumer waking up.                                        *)
LEMMA NoneStrandedStep == IInv /\ [Next]_vars => NoneStranded'
<1> SUFFICES ASSUME IInv, [Next]_vars PROVE NoneStranded'
  OBVIOUS
<1> USE ConstantsAssumption
<1>1. TypeOK /\ NoneStranded
  BY DEF IInv
<1>2. ASSUME NEW f \in Thread, PostMessage(f) PROVE NoneStranded'
  <2>1. pc'[f] = "signal"
    BY <1>1, <1>2, GotoEffect DEF PostMessage
  <2>2. QED
    BY <2>1 DEF NoneStranded, Signalling
<1>3. ASSUME NEW f \in Thread, Signal(f) \/ SignalJoin(f) \/ SignalLeft(f) PROVE NoneStranded'
  BY <1>3 DEF NoneStranded, Signal, SignalJoin, SignalLeft
<1>4. ASSUME NEW f \in Thread, NEW c \in Client, ReadHistory(f, c) PROVE NoneStranded'
  <2>1. \A g \in Thread \cup {Consumer} : g # f => pc'[g] = pc[g]
    BY <1>1, <1>4, GotoEffect DEF ReadHistory
  <2>2. ~Signalling(f)
    BY <1>4 DEF ReadHistory, Signalling
  <2>3. QED
    BY <1>1, <1>4, <2>1, <2>2 DEF NoneStranded, Signalling, ReadHistory
<1>5. ASSUME NEW f \in Thread, Enroll(f) PROVE NoneStranded'
  <2>1. CASE queue' = queue
    <3>1. \A g \in Thread \cup {Consumer} : g # f => pc'[g] = pc[g]
      BY <1>1, <1>5, GotoEffect DEF Enroll
    <3>2. ~Signalling(f)
      BY <1>5 DEF Enroll, Signalling
    <3>3. QED
      BY <1>1, <1>5, <2>1, <3>1, <3>2 DEF NoneStranded, Signalling, Enroll
  <2>2. CASE queue' # queue
    <3>1. SessionsOf(UserOf[job[f]]) = {}
      BY <1>5, <2>2 DEF Enroll
    <3>2. pc'[f] = "signalJoin"
      BY <1>1, <1>5, <3>1, GotoEffect DEF Enroll
    <3>3. QED
      BY <3>2 DEF NoneStranded, Signalling
  <2>3. QED
    BY <2>1, <2>2
<1>6. ASSUME NEW f \in Thread, Register(f) PROVE NoneStranded'
  <2>1. \A g \in Thread \cup {Consumer} : g # f => pc'[g] = pc[g]
    BY <1>1, <1>6, GotoEffect DEF Register
  <2>2. ~Signalling(f)
    BY <1>6 DEF Register, Signalling
  <2>3. QED
    BY <1>1, <1>6, <2>1, <2>2 DEF NoneStranded, Signalling, Register
<1>7. ASSUME NEW f \in Thread, NEW c \in Client, Leave(f, c) PROVE NoneStranded'
  <2>1. CASE queue' = queue
    <3>1. \A g \in Thread \cup {Consumer} : g # f => pc'[g] = pc[g]
      BY <1>1, <1>7, GotoEffect DEF Leave
    <3>2. ~Signalling(f)
      BY <1>7 DEF Leave, Signalling
    <3>3. QED
      BY <1>1, <1>7, <2>1, <3>1, <3>2 DEF NoneStranded, Signalling, Leave
  <2>2. CASE queue' # queue
    <3>1. SessionsOf(UserOf[c]) = {c}
      BY <1>7, <2>2 DEF Leave
    <3>2. pc'[f] = "signalLeft"
      BY <1>1, <1>7, <3>1, GotoEffect DEF Leave
    <3>3. QED
      BY <3>2 DEF NoneStranded, Signalling
  <2>3. QED
    BY <2>1, <2>2
<1>8. CASE PassGate \/ Take \/ Store \/ Broadcast
  <2>1. pc'[Consumer] # "gate"
    BY <1>1, <1>8, GotoEffect DEF PassGate, Take, Store, Broadcast
  <2>2. QED
    BY <2>1 DEF NoneStranded
<1>9. CASE QueueEmpty
  BY <1>9 DEF NoneStranded, QueueEmpty
<1>10. CASE UNCHANGED vars
  BY <1>1, <1>10 DEF NoneStranded, Signalling, vars
<1>11. QED
  BY <1>2, <1>3, <1>4, <1>5, <1>6, <1>7, <1>8, <1>9, <1>10
     DEF Next, ThreadStep, ConsumerStep

(* The consumer's message is taken from the queue and kept until it is sent; *)
(* a listener's client keeps joining until it is registered.                 *)
LEMMA HandsStep == IInv /\ [Next]_vars => JobsMatch' /\ ItemInHand'
<1> SUFFICES ASSUME IInv, [Next]_vars PROVE JobsMatch' /\ ItemInHand'
  OBVIOUS
<1> USE ConstantsAssumption
<1>1. TypeOK /\ JobsMatch /\ ItemInHand
  BY DEF IInv
<1>2. ASSUME NEW f \in Thread, NEW l \in ThreadSteps, Goto(f, l), UNCHANGED <<job, item, stage>>,
             l \in {"signalJoin", "register"} => pc[f] \in {"enroll", "signalJoin"},
             l # "enroll"
      PROVE  JobsMatch' /\ ItemInHand'
  <2>1. pc'[f] = l /\ \A g \in Thread \cup {Consumer} : g # f => pc'[g] = pc[g]
    BY <1>1, <1>2, GotoEffect
  <2>2. QED
    BY <1>1, <1>2, <2>1 DEF JobsMatch, ItemInHand
<1>3. ASSUME NEW f \in Thread, PostMessage(f) \/ Signal(f) \/ SignalJoin(f) \/ SignalLeft(f)
      PROVE  JobsMatch' /\ ItemInHand'
  BY <1>2, <1>3 DEF PostMessage, Signal, SignalJoin, SignalLeft, ThreadSteps, observed
<1>4. ASSUME NEW f \in Thread, Enroll(f) PROVE JobsMatch' /\ ItemInHand'
  BY <1>2, <1>4 DEF Enroll, ThreadSteps
<1>5. ASSUME NEW f \in Thread, NEW c \in Client, ReadHistory(f, c) PROVE JobsMatch' /\ ItemInHand'
  <2>1. \A g \in Thread \cup {Consumer} : g # f => pc'[g] = pc[g]
    BY <1>1, <1>5, GotoEffect DEF ReadHistory
  <2>2. /\ job'[f] = c /\ stage'[c] = "joining"
        /\ \A g \in Thread : g # f => job'[g] = job[g]
        /\ \A d \in Client : d # c => stage'[d] = stage[d]
    BY <1>1, <1>5 DEF TypeOK, ReadHistory
  <2>3. QED
    BY <1>1, <1>5, <2>1, <2>2 DEF JobsMatch, ItemInHand, ReadHistory
<1>6. ASSUME NEW f \in Thread, Register(f) PROVE JobsMatch' /\ ItemInHand'
  <2>1. pc'[f] = "idle" /\ \A g \in Thread \cup {Consumer} : g # f => pc'[g] = pc[g]
    BY <1>1, <1>6, GotoEffect DEF Register
  <2>2. /\ \A g \in Thread : g # f => job'[g] = job[g]
        /\ \A d \in Client : d # job[f] => stage'[d] = stage[d]
    BY <1>1, <1>6 DEF TypeOK, Register
  <2>3. \A g \in Thread : g # f /\ pc[g] \in {"enroll", "signalJoin", "register"} => job[g] # job[f]
    BY <1>1, <1>6 DEF JobsMatch, Register
  <2>4. QED
    BY <1>1, <1>6, <2>1, <2>2, <2>3 DEF JobsMatch, ItemInHand, Register
<1>7. ASSUME NEW f \in Thread, NEW c \in Client, Leave(f, c) PROVE JobsMatch' /\ ItemInHand'
  <2>1. pc'[f] \in {"signalLeft", "idle"}
    BY <1>1, <1>7, GotoEffect DEF Leave
  <2>2. \A g \in Thread \cup {Consumer} : g # f => pc'[g] = pc[g]
    BY <1>1, <1>7, GotoEffect DEF Leave
  <2>3. \A d \in Client : d # c => stage'[d] = stage[d]
    BY <1>1, <1>7 DEF TypeOK, Leave
  <2>4. QED
    BY <1>1, <1>7, <2>1, <2>2, <2>3 DEF JobsMatch, ItemInHand, Leave
<1>8. ASSUME ConsumerStep PROVE \A g \in Thread : pc'[g] = pc[g]
  BY <1>1, <1>8, GotoEffect DEF ConsumerStep, PassGate, Take, QueueEmpty, Store, Broadcast
<1>9. ASSUME ConsumerStep PROVE JobsMatch'
  BY <1>1, <1>8, <1>9
     DEF JobsMatch, ConsumerStep, PassGate, Take, QueueEmpty, Store, Broadcast, observed
<1>10. CASE Take
  <2>1. item' \in Item
    BY <1>1, <1>10, HeadTailProperties DEF TypeOK, Take
  <2>2. QED
    BY <1>9, <1>10, <2>1 DEF ItemInHand, ConsumerStep
<1>11. CASE Store
  <2>1. item' \in Item
    BY <1>1, <1>11 DEF ItemInHand, Store
  <2>2. QED
    BY <1>9, <1>11, <2>1 DEF ItemInHand, ConsumerStep
<1>12. CASE PassGate \/ QueueEmpty \/ Broadcast
  <2>1. pc'[Consumer] \notin {"store", "send"}
    BY <1>1, <1>12, GotoEffect DEF PassGate, QueueEmpty, Broadcast
  <2>2. QED
    BY <1>9, <1>12, <2>1 DEF ItemInHand, ConsumerStep
<1>13. CASE UNCHANGED vars
  BY <1>1, <1>13 DEF JobsMatch, ItemInHand, vars
<1>14. QED
  BY <1>3, <1>4, <1>5, <1>6, <1>7, <1>10, <1>11, <1>12, <1>13
     DEF Next, ThreadStep, ConsumerStep

(* Who is a member has an entry and has got all since it was registered.     *)
LEMMA MembersStep == IInv /\ [Next]_vars => EntriesAreMembers' /\ MembersInStep'
<1> SUFFICES ASSUME IInv, [Next]_vars PROVE EntriesAreMembers' /\ MembersInStep'
  OBVIOUS
<1> USE ConstantsAssumption
<1>1. TypeOK /\ JobsMatch /\ ItemInHand /\ EntriesAreMembers /\ MembersInStep
  BY DEF IInv
<1>2. ASSUME UNCHANGED <<users, stage, live, order, since>>
      PROVE  EntriesAreMembers' /\ MembersInStep'
  BY <1>1, <1>2 DEF EntriesAreMembers, MembersInStep
<1>3. ASSUME NEW f \in Thread, PostMessage(f) \/ ThreadStep(f), ~Register(f)
      PROVE  EntriesAreMembers' /\ MembersInStep'
  BY <1>2, <1>3 DEF PostMessage, ThreadStep, Signal, Enroll, SignalJoin, SignalLeft, observed
<1>4. ASSUME NEW f \in Thread, NEW c \in Client, ReadHistory(f, c)
      PROVE  EntriesAreMembers' /\ MembersInStep'
  <2>1. /\ stage[c] = "new" /\ stage'[c] = "joining"
        /\ \A d \in Client : d # c => stage'[d] = stage[d]
    BY <1>1, <1>4 DEF TypeOK, ReadHistory
  <2>2. QED
    BY <1>1, <1>4, <2>1 DEF EntriesAreMembers, MembersInStep, ReadHistory
<1>5. ASSUME NEW f \in Thread, Register(f) PROVE EntriesAreMembers' /\ MembersInStep'
  <2> DEFINE c == job[f]
  <2>1. c \in Client /\ stage[c] = "joining" /\ live[c] = <<>>
    BY <1>1, <1>5 DEF JobsMatch, EntriesAreMembers, Register
  <2>2. /\ stage'[c] = "member" /\ since'[c] = Len(order)
        /\ \A d \in Client : d # c => stage'[d] = stage[d] /\ since'[d] = since[d]
    BY <1>1, <1>5, <2>1 DEF TypeOK, Register
  <2>3. Len(order) \in Nat
    BY <1>1, LenProperties DEF TypeOK
  <2>4. SubSeq(order, Len(order) + 1, Len(order)) = <<>>
    BY <2>3, SubSeqEmpty
  <2>5. EntriesAreMembers'
    BY <1>1, <1>5, <2>1, <2>2, <2>3 DEF EntriesAreMembers, Register
  <2>6. MembersInStep'
    BY <1>1, <1>5, <2>1, <2>2, <2>4 DEF MembersInStep, Register
  <2>7. QED
    BY <2>5, <2>6
<1>6. ASSUME NEW f \in Thread, NEW c \in Client, Leave(f, c)
      PROVE  EntriesAreMembers' /\ MembersInStep'
  <2>1. /\ stage'[c] \in {"left", "dropped"}
        /\ \A d \in Client : d # c => stage'[d] = stage[d]
    BY <1>1, <1>6 DEF TypeOK, Leave, Stage
  <2>2. QED
    BY <1>1, <1>6, <2>1 DEF EntriesAreMembers, MembersInStep, Leave, observed
<1>7. CASE PassGate \/ Take \/ QueueEmpty \/ Store
  BY <1>2, <1>7 DEF PassGate, Take, QueueEmpty, Store, observed
<1>8. CASE Broadcast
  <2>1. item \in Item /\ order \in Seq(Item) /\ Len(order) \in Nat
    BY <1>1, <1>8, LenProperties DEF TypeOK, ItemInHand, Broadcast
  <2>2. order' = Append(order, item) /\ Len(order') = Len(order) + 1
    BY <1>8, <2>1, AppendProperties DEF Broadcast
  <2>3. \A c \in Client : since[c] \in 0 .. Len(order)
    BY <1>1, <2>1 DEF TypeOK, EntriesAreMembers
  <2>4. EntriesAreMembers'
    BY <1>1, <1>8, <2>1, <2>2, <2>3 DEF TypeOK, EntriesAreMembers, Broadcast
  <2>5. ASSUME NEW c \in Client, stage[c] = "member"
        PROVE  live'[c] = SubSeq(order', since[c] + 1, Len(order'))
    <3>1. live'[c] = Append(live[c], item)
      BY <1>1, <1>8, <2>5 DEF TypeOK, EntriesAreMembers, Broadcast
    <3>2. live[c] = SubSeq(order, since[c] + 1, Len(order))
      BY <1>1, <2>5 DEF MembersInStep
    <3>3. since[c] \in 0 .. Len(order)
      BY <2>3
    <3>4. SubSeq(Append(order, item), since[c] + 1, Len(Append(order, item)))
            = Append(SubSeq(order, since[c] + 1, Len(order)), item)
      BY <2>1, <3>3, AppendSuffix
    <3>5. QED
      BY <2>2, <3>1, <3>2, <3>4
  <2>6. MembersInStep'
    BY <1>8, <2>5 DEF MembersInStep, Broadcast
  <2>7. QED
    BY <2>4, <2>6
<1>9. CASE UNCHANGED vars
  BY <1>2, <1>9 DEF vars
<1>10. QED
  BY <1>3, <1>4, <1>5, <1>6, <1>7, <1>8, <1>9 DEF Next, ThreadStep, ConsumerStep

(* The inductive invariant holds in every reachable state.                   *)
THEOREM Inductive == Spec => []IInv
<1>1. IInv /\ [Next]_vars => IInv'
  BY TypeStep, HandsStep, MembersStep, NoneStrandedStep DEF IInv
<1>2. QED
  BY <1>1, IInvInit, PTL DEF Spec

(* Type correctness of the group's queue, for every instance.                *)
THEOREM TypeCorrect == Spec => []TypeOK
<1>1. IInv => TypeOK
  BY DEF IInv
<1>2. QED
  BY <1>1, Inductive, PTL

(* consumeMessageQueue never sleeps on a message that nobody is about to     *)
(* signal, however many listeners post to the group.                         *)
THEOREM NoWakeUpLost == Spec => []NoneStranded
<1>1. IInv => NoneStranded
  BY DEF IInv
<1>2. QED
  BY <1>1, Inductive, PTL

(* Every member of the group gets all that is broadcast after its            *)
(* registration, in one order, for every number of members.                  *)
THEOREM MembersGetAll == Spec => []MembersInStep
<1>1. IInv => MembersInStep
  BY DEF IInv
<1>2. QED
  BY <1>1, Inductive, PTL

-----------------------------------------------------------------------------
(* Notifications are true, and the group keeps the promise of Room.         *)

(* The listeners that hold usersSemaphore between two steps.                 *)
LockHeld ==
    \A f \in Thread : usersLock = f <=> pc[f] \in {"signalJoin", "register", "signalLeft"}

(* The consumer has nothing in hand while it looks for something.            *)
HandsFree == pc[Consumer] \in {"gate", "take"} => item = Nobody

(* A session of u is being registered, and u has been announced.             *)
Entering(u) == \E f \in Thread : pc[f] \in {"signalJoin", "register"} /\ UserOf[job[f]] = u

(* What ActivityTrue says between the steps of a critical section, too.      *)
Announced ==
    \A u \in User : /\ InTurn(Posted, u)
                    /\ Present(Posted, u) <=> SessionsOf(u) # {} \/ Entering(u)

AInv == LockHeld /\ HandsFree /\ Announced

(* A post that is not a notification about u changes nothing about u.        *)
LEMMA OtherPost ==
    ASSUME NEW s \in Seq(Item), NEW x \in Item, NEW u, x.kind = "text" \/ x.by # u
    PROVE  /\ InTurn(s, u) => InTurn(Append(s, x), u)
           /\ Present(Append(s, x), u) <=> Present(s, u)
<1> DEFINE t == Append(s, x)
<1>1. /\ Len(s) \in Nat /\ DOMAIN s = 1 .. Len(s) /\ DOMAIN t = 1 .. Len(s) + 1
      /\ t[Len(s) + 1] = x /\ \A i \in 1 .. Len(s) : t[i] = s[i]
  BY AppendProperties
<1> HIDE DEF t
<1>2. About(t, u) = About(s, u) /\ \A i \in About(s, u) : t[i] = s[i]
  BY <1>1 DEF About
<1>3. /\ InTurn(s, u) => InTurn(t, u)
      /\ Present(t, u) <=> Present(s, u)
  BY <1>2 DEF InTurn, Present
<1>4. QED
  BY <1>3 DEF t

(* A notification about u that says the opposite of the last one.            *)
LEMMA OwnPost ==
    ASSUME NEW s \in Seq(Item), NEW x \in Item, NEW u, x.by = u, InTurn(s, u),
           (x.kind = "joined" /\ ~Present(s, u)) \/ (x.kind = "left" /\ Present(s, u))
    PROVE  /\ InTurn(Append(s, x), u)
           /\ IF x.kind = "joined" THEN Present(Append(s, x), u) ELSE ~Present(Append(s, x), u)
<1> DEFINE t == Append(s, x)
           n == Len(s) + 1
<1>1. /\ Len(s) \in Nat /\ DOMAIN s = 1 .. Len(s) /\ DOMAIN t = 1 .. n
      /\ t[n] = x /\ \A i \in 1 .. Len(s) : t[i] = s[i]
  BY AppendProperties
<1>2. /\ \A i \in About(s, u) : i \in Nat /\ i < n
      /\ n \in Nat
  BY <1>1 DEF About
<1> HIDE DEF t, n
<1>3. /\ About(t, u) = About(s, u) \cup {n} /\ \A i \in About(s, u) : t[i] = s[i]
      /\ t[n] = x
  <2>1. \A i : i \in DOMAIN t <=> i \in DOMAIN s \/ i = n
    BY <1>1 DEF n
  <2>2. \A i \in DOMAIN s : t[i] = s[i]
    BY <1>1
  <2>3. x.kind # "text"
    OBVIOUS
  <2>4. QED
    BY <1>1, <2>1, <2>2, <2>3 DEF About
<1>4. ASSUME NEW i \in About(s, u), \A k \in About(s, u) : k <= i
      PROVE  s[i].kind # x.kind
  <2>1. ASSUME NEW i2 \in About(s, u), \A k \in About(s, u) : k <= i2 PROVE i2 = i
    BY <1>2, <1>4, <2>1
  <2>2. CASE x.kind = "joined"
    BY <1>4, <2>2 DEF Present
  <2>3. CASE x.kind = "left"
    <3>1. s[i].kind = "joined"
      BY <2>1, <2>3 DEF Present
    <3>2. QED
      BY <2>3, <3>1
  <2>4. QED
    BY <2>2, <2>3
<1>5. ASSUME NEW i \in About(t, u), NEW j \in About(t, u), i < j,
             \A k \in About(t, u) : k <= i \/ j <= k
      PROVE  t[i].kind # t[j].kind
  <2>1. CASE j \in About(s, u)
    <3>1. i \in About(s, u)
      BY <1>2, <1>3, <1>5, <2>1
    <3>2. QED
      BY <1>3, <1>5, <2>1, <3>1 DEF InTurn
  <2>2. CASE j = n
    <3>1. i \in About(s, u)
      BY <1>2, <1>3, <1>5, <2>2
    <3>2. \A k \in About(s, u) : k <= i
      BY <1>2, <1>3, <1>5, <2>2
    <3>3. QED
      BY <1>3, <1>4, <2>2, <3>1, <3>2
  <2>3. QED
    BY <1>3, <2>1, <2>2
<1>6. ASSUME NEW i \in About(t, u), \A k \in About(t, u) : i <= k
      PROVE  t[i].kind = "joined"
  <2>1. CASE i \in About(s, u)
    BY <1>3, <1>6, <2>1 DEF InTurn
  <2>2. CASE i = n
    <3>1. ASSUME NEW k \in About(s, u) PROVE FALSE
      <4>1. k \in Nat /\ k < n /\ n <= k
        BY <1>2, <1>3, <1>6, <2>2
      <4>2. QED
        BY <1>2, <4>1
    <3>2. ~Present(s, u)
      BY <3>1 DEF Present
    <3>3. QED
      BY <1>3, <2>2, <3>2
  <2>3. QED
    BY <1>3, <2>1, <2>2
<1>7. InTurn(t, u)
  BY <1>5, <1>6 DEF InTurn
<1>8. IF x.kind = "joined" THEN Present(t, u) ELSE ~Present(t, u)
  <2>1. \A k \in About(t, u) : k <= n
    BY <1>2, <1>3
  <2>2. ASSUME NEW i \in About(t, u), \A k \in About(t, u) : k <= i PROVE i = n
    BY <1>2, <1>3, <2>2
  <2>3. n \in About(t, u)
    BY <1>3
  <2>4. QED
    BY <1>3, <2>1, <2>2, <2>3 DEF Present
<1>9. QED
  BY <1>7, <1>8 DEF t

(* Appending to what follows is appending to the whole.                      *)
LEMMA AppendOfConcat ==
    ASSUME NEW S, NEW s \in Seq(S), NEW t \in Seq(S), NEW x \in S
    PROVE  s \o Append(t, x) = Append(s \o t, x)
<1>1. <<x>> \in Seq(S) /\ s \o t \in Seq(S)
  BY ConcatProperties
<1>2. Append(t, x) = t \o <<x>>
  BY AppendIsConcat
<1>3. Append(s \o t, x) = (s \o t) \o <<x>>
  BY <1>1, AppendIsConcat
<1>4. (s \o t) \o <<x>> = s \o (t \o <<x>>)
  BY <1>1, ConcatAssociative
<1>5. QED
  BY <1>2, <1>3, <1>4

(* A queue is its first and the others.                                      *)
LEMMA HeadThenTail ==
    ASSUME NEW S, NEW s \in Seq(S), s # <<>>
    PROVE  <<Head(s)>> \o Tail(s) = s
<1> DEFINE h == Head(s)
           t == Tail(s)
           c == <<h>> \o t
<1>1. /\ h \in S /\ h = s[1] /\ t \in Seq(S) /\ Len(t) = Len(s) - 1 /\ Len(s) \in Nat
      /\ \A i \in 1 .. Len(t) : t[i] = s[i + 1]
  BY HeadTailProperties
<1>2. <<h>> \in Seq(S) /\ Len(<<h>>) = 1 /\ <<h>>[1] = h
  BY <1>1
<1>3. /\ c \in Seq(S) /\ Len(c) = 1 + Len(t)
      /\ \A i \in 1 .. 1 + Len(t) : c[i] = IF i <= 1 THEN <<h>>[i] ELSE t[i - 1]
  <2> HIDE DEF h, t
  <2>1. QED
    BY <1>1, <1>2, ConcatProperties
<1> HIDE DEF c, t, h
<1>4. Len(c) = Len(s)
  BY <1>1, <1>3
<1>5. ASSUME NEW i \in 1 .. Len(s) PROVE c[i] = s[i]
  <2>1. CASE i = 1
    BY <1>1, <1>2, <1>3, <2>1
  <2>2. CASE i # 1
    <3>1. i \in 1 .. 1 + Len(t) /\ ~(i <= 1) /\ i - 1 \in 1 .. Len(t) /\ i - 1 + 1 = i
      BY <1>1, <2>2
    <3>2. c[i] = t[i - 1] /\ t[i - 1] = s[i - 1 + 1]
      BY <1>1, <1>3, <3>1
    <3>3. QED
      BY <3>1, <3>2
  <2>3. QED
    BY <2>1, <2>2
<1>6. c = s
  BY <1>3, <1>4, <1>5, SeqEqual
<1>7. QED
  BY <1>6 DEF c, h, t

(* What waits, and what has been posted, are items.                          *)
LEMMA PostedType ==
    ASSUME TypeOK
    PROVE  Backlog \in Seq(Item) /\ Posted \in Seq(Item)
<1>1. Backlog \in Seq(Item)
  <2>1. queue \in Seq(Item) /\ item \in Item \cup {Nobody}
    BY DEF TypeOK
  <2>2. CASE item = Nobody
    <3>1. <<>> \o queue = queue
      BY <2>1, ConcatEmptySeq
    <3>2. QED
      BY <2>1, <2>2, <3>1 DEF Backlog
  <2>3. CASE item # Nobody
    <3>1. <<item>> \in Seq(Item)
      BY <2>1, <2>3
    <3>2. <<item>> \o queue \in Seq(Item)
      BY <2>1, <3>1, ConcatProperties
    <3>3. QED
      BY <2>3, <3>2 DEF Backlog
  <2>4. QED
    BY <2>2, <2>3
<1>2. order \o Backlog \in Seq(Item)
  <2>1. order \in Seq(Item)
    BY DEF TypeOK
  <2>2. QED
    BY <1>1, <2>1, ConcatProperties
<1>3. QED
  BY <1>1, <1>2 DEF Posted

(* Who posts an item puts it behind all that waits.                          *)
LEMMA PostedGrows ==
    ASSUME TypeOK, NEW x \in Item, queue' = Append(queue, x), UNCHANGED <<item, order>>
    PROVE  Backlog' = Append(Backlog, x) /\ Posted' = Append(Posted, x)
<1>1. queue \in Seq(Item) /\ order \in Seq(Item) /\ Backlog \in Seq(Item)
  BY PostedType DEF TypeOK
<1>2. PICK b : b = IF item = Nobody THEN <<>> ELSE <<item>>
  OBVIOUS
<1>3. b \in Seq(Item) /\ Backlog = b \o queue /\ Backlog' = b \o Append(queue, x)
  BY <1>2 DEF Backlog, TypeOK
<1>4. b \o Append(queue, x) = Append(b \o queue, x)
  BY <1>1, <1>3, AppendOfConcat
<1>5. Backlog' = Append(Backlog, x)
  BY <1>3, <1>4
<1>6. PICK c \in Seq(Item) : c = Backlog
  BY <1>1
<1>7. order \o Append(c, x) = Append(order \o c, x)
  BY <1>1, AppendOfConcat
<1>8. QED
  BY <1>5, <1>6, <1>7 DEF Posted

(* The consumer takes an item and sends it: the posts stay the same, and what *)
(* waits loses its first.                                                     *)
LEMMA ConsumerPosts ==
    ASSUME IInv, AInv, ConsumerStep
    PROVE  /\ Posted' = Posted
           /\ ~Broadcast => Backlog' = Backlog
           /\ Broadcast => /\ Backlog = <<item>> \o queue /\ Backlog' = queue
                           /\ item \in Item
<1>1. TypeOK /\ ItemInHand /\ HandsFree /\ Nobody \notin Item
  BY ConstantsAssumption DEF IInv, AInv
<1>2. queue \in Seq(Item) /\ order \in Seq(Item)
  BY <1>1 DEF TypeOK
<1>3. CASE PassGate \/ QueueEmpty \/ Store
  <2>1. UNCHANGED <<queue, item, order>> /\ ~Broadcast
    BY <1>3 DEF PassGate, QueueEmpty, Store, Broadcast, observed
  <2>2. QED
    BY <2>1 DEF Backlog, Posted
<1>4. CASE Take
  <2>1. /\ item = Nobody /\ queue # <<>> /\ item' = Head(queue) /\ queue' = Tail(queue)
        /\ order' = order /\ ~Broadcast
    BY <1>1, <1>4 DEF Take, HandsFree, Broadcast, observed
  <2>2. Head(queue) \in Item /\ Tail(queue) \in Seq(Item) /\ <<Head(queue)>> \o Tail(queue) = queue
    BY <1>2, <2>1, HeadTailProperties, HeadThenTail
  <2>3. <<>> \o queue = queue
    BY <1>2, ConcatEmptySeq
  <2>4. Backlog = queue /\ Backlog' = queue
    BY <1>1, <2>1, <2>2, <2>3 DEF Backlog
  <2>5. QED
    BY <2>1, <2>4 DEF Posted
<1>5. CASE Broadcast
  <2>1. /\ item \in Item /\ item' = Nobody /\ queue' = queue /\ order' = Append(order, item)
    BY <1>1, <1>5 DEF Broadcast, ItemInHand
  <2>2. Backlog = <<item>> \o queue /\ Backlog' = queue
    <3>1. <<>> \o queue = queue
      BY <1>2, ConcatEmptySeq
    <3>2. QED
      BY <1>1, <2>1, <3>1 DEF Backlog
  <2>3. order \o (<<item>> \o queue) = Append(order, item) \o queue
    <3>1. <<item>> \in Seq(Item)
      BY <2>1
    <3>2. order \o (<<item>> \o queue) = (order \o <<item>>) \o queue
      BY <1>2, <3>1, ConcatAssociative
    <3>3. order \o <<item>> = Append(order, item)
      BY <1>2, <2>1, AppendIsConcat
    <3>4. QED
      BY <3>2, <3>3
  <2>4. QED
    BY <1>5, <2>1, <2>2, <2>3 DEF Posted
<1>6. QED
  BY <1>3, <1>4, <1>5 DEF ConsumerStep

(* A step that posts nothing and lets nobody in or out.                      *)
LEMMA QuietStep ==
    ASSUME Announced, Posted' = Posted, users' = users,
           \A u \in User : Entering(u)' <=> Entering(u)
    PROVE  Announced'
  BY DEF Announced, SessionsOf

(* A step of a listener other than the three below.                          *)
LEMMA ListenerQuiet ==
    ASSUME IInv, AInv, NEW f \in Thread,
           PostMessage(f) \/ Signal(f) \/ SignalJoin(f) \/ SignalLeft(f)
    PROVE  AInv'
<1>1. TypeOK /\ LockHeld /\ HandsFree /\ Announced /\ Consumer \notin Thread /\ Nobody \notin Thread
  BY ConstantsAssumption DEF IInv, AInv
<1>2. /\ \E l : Goto(f, l) /\ pc'[f] = l
      /\ \A g \in Thread \cup {Consumer} : g # f => pc'[g] = pc[g]
      /\ UNCHANGED <<users, job, item, order>>
  <2>1. CASE PostMessage(f)
    BY <1>1, <2>1, GotoEffect DEF PostMessage, observed
  <2>2. CASE Signal(f)
    BY <1>1, <2>2, GotoEffect DEF Signal, observed
  <2>3. CASE SignalJoin(f)
    BY <1>1, <2>3, GotoEffect DEF SignalJoin, observed
  <2>4. CASE SignalLeft(f)
    BY <1>1, <2>4, GotoEffect DEF SignalLeft, observed
  <2>5. QED
    BY <2>1, <2>2, <2>3, <2>4
<1>3. HandsFree'
  BY <1>1, <1>2 DEF HandsFree
<1>4. LockHeld' /\ \A u \in User : Entering(u)' <=> Entering(u)
  <2>1. CASE PostMessage(f)
    <3>1. pc[f] = "idle" /\ pc'[f] = "signal" /\ usersLock' = usersLock
      BY <1>1, <2>1, GotoEffect DEF PostMessage
    <3>2. QED
      BY <1>1, <1>2, <3>1 DEF LockHeld, Entering
  <2>2. CASE Signal(f)
    <3>1. pc[f] = "signal" /\ pc'[f] = "idle" /\ usersLock' = usersLock
      BY <1>1, <2>2, GotoEffect DEF Signal
    <3>2. QED
      BY <1>1, <1>2, <3>1 DEF LockHeld, Entering
  <2>3. CASE SignalJoin(f)
    <3>1. pc[f] = "signalJoin" /\ pc'[f] = "register" /\ usersLock' = usersLock
      BY <1>1, <2>3, GotoEffect DEF SignalJoin
    <3>2. QED
      BY <1>1, <1>2, <3>1 DEF LockHeld, Entering
  <2>4. CASE SignalLeft(f)
    <3>1. pc[f] = "signalLeft" /\ pc'[f] = "idle" /\ usersLock' = Nobody
      BY <1>1, <2>4, GotoEffect DEF SignalLeft
    <3>2. QED
      BY <1>1, <1>2, <3>1 DEF LockHeld, Entering
  <2>5. QED
    BY <2>1, <2>2, <2>3, <2>4
<1>5. Announced'
  <2>1. CASE PostMessage(f)
    <3>1. PICK n \in 1 .. MaxMessages : queue' = Append(queue, Text(f, n))
      <4>1. sent[f] + 1 \in 1 .. MaxMessages
        BY <1>1, <2>1, ConstantsAssumption DEF TypeOK, PostMessage
      <4>2. QED
        BY <2>1, <4>1 DEF PostMessage
    <3>2. Text(f, n) \in Item /\ Text(f, n).kind = "text"
      <4>1. f \in FE
        BY <2>1, ConstantsAssumption DEF PostMessage
      <4>2. QED
        BY <4>1, Items DEF Text
    <3>3. Posted' = Append(Posted, Text(f, n)) /\ Posted \in Seq(Item)
      BY <1>1, <1>2, <3>1, <3>2, PostedGrows, PostedType
    <3>4. ASSUME NEW u \in User
          PROVE  /\ InTurn(Posted', u)
                 /\ Present(Posted', u) <=> SessionsOf(u)' # {} \/ Entering(u)'
      BY <1>1, <1>2, <1>4, <3>2, <3>3, OtherPost DEF Announced, SessionsOf
    <3>5. QED
      BY <3>4 DEF Announced
  <2>2. CASE Signal(f) \/ SignalJoin(f) \/ SignalLeft(f)
    <3>1. queue' = queue
      BY <2>2 DEF Signal, SignalJoin, SignalLeft
    <3>2. Posted' = Posted
      BY <1>2, <3>1 DEF Posted, Backlog
    <3>3. QED
      BY <1>1, <1>2, <1>4, <3>2, QuietStep
  <2>3. QED
    BY <2>1, <2>2
<1>6. QED
  BY <1>3, <1>4, <1>5 DEF AInv

(* A user without sessions is announced before its first is registered.      *)
LEMMA EnrollAnnounces ==
    ASSUME IInv, AInv, NEW f \in Thread, Enroll(f)
    PROVE  AInv'
<1> DEFINE u == UserOf[job[f]]
           l == IF SessionsOf(u) = {} THEN "signalJoin" ELSE "register"
<1>1. /\ TypeOK /\ LockHeld /\ HandsFree /\ Announced /\ Consumer \notin Thread /\ Nobody \notin Thread
      /\ u \in User
  BY ConstantsAssumption DEF IInv, AInv, JobsMatch, Enroll
<1>2. /\ pc[f] = "enroll" /\ usersLock = Nobody /\ usersLock' = f
      /\ pc'[f] = l /\ \A g \in Thread \cup {Consumer} : g # f => pc'[g] = pc[g]
      /\ UNCHANGED <<users, job, item, order>>
  BY <1>1, GotoEffect DEF Enroll, observed
<1>3. \A g \in Thread : pc[g] \notin {"signalJoin", "register", "signalLeft"}
  BY <1>1, <1>2 DEF LockHeld
<1>4. LockHeld' /\ HandsFree'
  BY <1>1, <1>2, <1>3 DEF LockHeld, HandsFree
<1>5. ASSUME NEW v \in User
      PROVE  /\ ~Entering(v) /\ (Entering(v)' <=> v = u) /\ SessionsOf(v)' = SessionsOf(v)
  BY <1>1, <1>2, <1>3 DEF Entering, SessionsOf
<1>6. CASE SessionsOf(u) = {}
  <2>1. PICK x : x = Activity("joined", u)
    OBVIOUS
  <2>2. x \in Item /\ x.kind = "joined" /\ x.by = u
    BY <1>1, <2>1, Items DEF Activity
  <2>3. queue' = Append(queue, x)
    BY <1>6, <2>1 DEF Enroll
  <2>4. Posted' = Append(Posted, x) /\ Posted \in Seq(Item)
    BY <1>1, <1>2, <2>2, <2>3, PostedGrows, PostedType
  <2>5. ASSUME NEW v \in User
        PROVE  InTurn(Posted', v) /\ (Present(Posted', v) <=> SessionsOf(v)' # {} \/ Entering(v)')
    <3>1. InTurn(Posted, v) /\ (Present(Posted, v) <=> SessionsOf(v) # {} \/ Entering(v))
      BY <1>1 DEF Announced
    <3>2. CASE v = u
      <4>1. ~Present(Posted, u) /\ InTurn(Posted, u)
        BY <1>5, <1>6, <3>1, <3>2
      <4>2. InTurn(Posted', v) /\ Present(Posted', v)
        <5>1. PICK s \in Seq(Item) : s = Posted
          BY <2>4
        <5>2. x.by = v /\ InTurn(s, v) /\ x.kind = "joined" /\ ~Present(s, v) /\ x \in Item
          BY <2>2, <3>2, <4>1, <5>1
        <5>3. InTurn(Append(s, x), v) /\ Present(Append(s, x), v)
          BY ONLY <5>2, s \in Seq(Item), OwnPost
        <5>4. QED
          BY <2>4, <5>1, <5>2, <5>3
      <4>3. QED
        BY <1>5, <3>2, <4>2
    <3>3. CASE v # u
      <4>1. InTurn(Posted', v) /\ (Present(Posted', v) <=> Present(Posted, v))
        BY <2>2, <2>4, <3>1, <3>3, OtherPost
      <4>2. QED
        BY <1>5, <3>1, <3>3, <4>1
    <3>4. QED
      BY <3>2, <3>3
  <2>6. Announced'
    BY <2>5 DEF Announced
  <2>7. QED
    BY <1>4, <2>6 DEF AInv
<1>7. CASE SessionsOf(u) # {}
  <2>1. queue' = queue
    BY <1>7 DEF Enroll
  <2>2. Posted' = Posted
    BY <1>2, <2>1 DEF Posted, Backlog
  <2>3. Announced'
    BY <1>1, <1>5, <1>7, <2>2 DEF Announced
  <2>4. QED
    BY <1>4, <2>3 DEF AInv
<1>8. QED
  BY <1>6, <1>7

(* A session that is registered belongs to a user who was announced.         *)
LEMMA RegisterKeeps ==
    ASSUME IInv, AInv, NEW f \in Thread, Register(f)
    PROVE  AInv'
<1> DEFINE c == job[f]
           u == UserOf[c]
<1>1. /\ TypeOK /\ LockHeld /\ HandsFree /\ Announced /\ Consumer \notin Thread /\ Nobody \notin Thread
      /\ c \in Client /\ u \in User /\ users \subseteq Client
  BY ConstantsAssumption DEF IInv, AInv, JobsMatch, Register, TypeOK
<1>2. /\ pc[f] = "register" /\ usersLock = f /\ usersLock' = Nobody
      /\ pc'[f] = "idle" /\ \A g \in Thread \cup {Consumer} : g # f => pc'[g] = pc[g]
      /\ users' = users \cup {c} /\ UNCHANGED <<queue, item, order>>
      /\ \A g \in Thread : g # f => job'[g] = job[g]
  BY <1>1, GotoEffect DEF Register, LockHeld, TypeOK
<1>3. \A g \in Thread : g # f => pc[g] \notin {"signalJoin", "register", "signalLeft"}
  BY <1>1, <1>2 DEF LockHeld
<1>4. LockHeld' /\ HandsFree'
  BY <1>1, <1>2, <1>3 DEF LockHeld, HandsFree
<1>5. Posted' = Posted
  BY <1>2 DEF Posted, Backlog
<1>6. ASSUME NEW v \in User
      PROVE  SessionsOf(v)' # {} \/ Entering(v)' <=> SessionsOf(v) # {} \/ Entering(v)
  <2>1. ~Entering(v)' /\ (Entering(v) <=> v = u)
    BY <1>2, <1>3 DEF Entering
  <2>2. SessionsOf(v)' = IF v = u THEN SessionsOf(v) \cup {c} ELSE SessionsOf(v)
    BY <1>2 DEF SessionsOf
  <2>3. QED
    BY <2>1, <2>2
<1>7. Announced'
  BY <1>1, <1>5, <1>6 DEF Announced
<1>8. QED
  BY <1>4, <1>7 DEF AInv

(* A user whose last session ends has left.                                  *)
LEMMA LeaveAnnounces ==
    ASSUME IInv, AInv, NEW f \in Thread, NEW c \in Client, Leave(f, c)
    PROVE  AInv'
<1> DEFINE u == UserOf[c]
           gone == SessionsOf(u) = {c}
<1>1. /\ TypeOK /\ LockHeld /\ HandsFree /\ Announced /\ Consumer \notin Thread /\ Nobody \notin Thread
      /\ u \in User /\ users \subseteq Client /\ c \in users
  BY ConstantsAssumption DEF IInv, AInv, EntriesAreMembers, Leave, TypeOK
<1>2. /\ pc[f] = "idle" /\ usersLock = Nobody /\ usersLock' = IF gone THEN f ELSE Nobody
      /\ pc'[f] = IF gone THEN "signalLeft" ELSE "idle"
      /\ \A g \in Thread \cup {Consumer} : g # f => pc'[g] = pc[g]
      /\ users' = users \ {c} /\ UNCHANGED <<job, item, order>>
  BY <1>1, GotoEffect DEF Leave, observed
<1>3. \A g \in Thread : pc[g] \notin {"signalJoin", "register", "signalLeft"}
  BY <1>1, <1>2 DEF LockHeld
<1>4. LockHeld' /\ HandsFree'
  BY <1>1, <1>2, <1>3 DEF LockHeld, HandsFree
<1>5. ASSUME NEW v \in User
      PROVE  /\ ~Entering(v) /\ ~Entering(v)'
             /\ SessionsOf(v)' = IF v = u THEN SessionsOf(v) \ {c} ELSE SessionsOf(v)
  <2>1. SessionsOf(v)' = IF v = u THEN SessionsOf(v) \ {c} ELSE SessionsOf(v)
    BY <1>2 DEF SessionsOf
  <2>2. ~Entering(v) /\ ~Entering(v)'
    BY <1>2, <1>3 DEF Entering
  <2>3. QED
    BY <2>1, <2>2
<1>6. c \in SessionsOf(u)
  BY <1>1 DEF SessionsOf
<1>7. CASE gone
  <2>1. PICK x : x = Activity("left", u)
    OBVIOUS
  <2>2. x \in Item /\ x.kind = "left" /\ x.by = u
    BY <1>1, <2>1, Items DEF Activity
  <2>3. queue' = Append(queue, x)
    BY <1>7, <2>1 DEF Leave
  <2>4. Posted' = Append(Posted, x) /\ Posted \in Seq(Item)
    BY <1>1, <1>2, <2>2, <2>3, PostedGrows, PostedType
  <2>5. ASSUME NEW v \in User
        PROVE  InTurn(Posted', v) /\ (Present(Posted', v) <=> SessionsOf(v)' # {} \/ Entering(v)')
    <3>1. InTurn(Posted, v) /\ (Present(Posted, v) <=> SessionsOf(v) # {} \/ Entering(v))
      BY <1>1 DEF Announced
    <3>2. CASE v = u
      <4>1. Present(Posted, u) /\ InTurn(Posted, u)
        BY <1>6, <3>1, <3>2
      <4>2. InTurn(Posted', v) /\ ~Present(Posted', v)
        <5>1. PICK s \in Seq(Item) : s = Posted
          BY <2>4
        <5>2. x.by = v /\ InTurn(s, v) /\ x.kind = "left" /\ Present(s, v) /\ x \in Item
          BY <2>2, <3>2, <4>1, <5>1
        <5>3. InTurn(Append(s, x), v) /\ ~Present(Append(s, x), v)
          BY ONLY <5>2, s \in Seq(Item), OwnPost
        <5>4. QED
          BY <2>4, <5>1, <5>2, <5>3
      <4>3. SessionsOf(u)' = {}
        BY <1>5, <1>7, <3>2
      <4>4. QED
        BY <1>5, <3>2, <4>2, <4>3
    <3>3. CASE v # u
      <4>1. InTurn(Posted', v) /\ (Present(Posted', v) <=> Present(Posted, v))
        BY <2>2, <2>4, <3>1, <3>3, OtherPost
      <4>2. QED
        BY <1>5, <3>1, <3>3, <4>1
    <3>4. QED
      BY <3>2, <3>3
  <2>6. Announced'
    BY <2>5 DEF Announced
  <2>7. QED
    BY <1>4, <2>6 DEF AInv
<1>8. CASE ~gone
  <2>1. queue' = queue
    BY <1>8 DEF Leave
  <2>2. Posted' = Posted
    BY <1>2, <2>1 DEF Posted, Backlog
  <2>3. SessionsOf(u) \ {c} # {}
    BY <1>6, <1>8
  <2>4. Announced'
    BY <1>1, <1>5, <1>6, <2>2, <2>3 DEF Announced
  <2>5. QED
    BY <1>4, <2>4 DEF AInv
<1>9. QED
  BY <1>7, <1>8

(* The notifications are true in every behaviour.                            *)
LEMMA AInvariance == Spec => []AInv
<1>1. Init => AInv
  <2> SUFFICES ASSUME Init PROVE AInv
    OBVIOUS
  <2>1. /\ \A f \in Thread : pc[f] = "idle" /\ f # Nobody
        /\ item = Nobody /\ usersLock = Nobody /\ users = {}
    BY ConstantsAssumption DEF Init
  <2>2. Posted = <<>>
    <3>1. <<>> \o <<>> = <<>>
      BY ConcatEmptySeq
    <3>2. QED
      BY <3>1 DEF Init, Posted, Backlog
  <2>3. \A u : About(<<>>, u) = {}
    BY DEF About
  <2>4. ASSUME NEW u \in User PROVE InTurn(<<>>, u) /\ ~Present(<<>>, u)
    BY <2>3 DEF InTurn, Present
  <2>5. QED
    BY <2>1, <2>2, <2>4 DEF AInv, LockHeld, HandsFree, Announced, Entering, SessionsOf
<1>2. IInv /\ AInv /\ [Next]_vars => AInv'
  <2> SUFFICES ASSUME IInv, AInv, [Next]_vars PROVE AInv'
    OBVIOUS
  <2>1. TypeOK /\ LockHeld /\ HandsFree /\ Announced /\ Consumer \notin Thread
    BY ConstantsAssumption DEF IInv, AInv
  <2>2. CASE ConsumerStep
    <3>1. /\ \A f \in Thread : pc'[f] = pc[f]
          /\ UNCHANGED <<usersLock, users, job>>
      BY <2>1, <2>2, GotoEffect DEF ConsumerStep, PassGate, Take, QueueEmpty, Store, Broadcast
    <3>2. LockHeld' /\ \A u \in User : Entering(u)' <=> Entering(u)
      BY <2>1, <3>1 DEF LockHeld, Entering
    <3>3. Posted' = Posted
      BY <2>2, ConsumerPosts
    <3>4. HandsFree'
      BY <2>1, <2>2, GotoEffect
         DEF HandsFree, ConsumerStep, PassGate, Take, QueueEmpty, Store, Broadcast
    <3>5. QED
      BY <2>1, <3>1, <3>2, <3>3, <3>4, QuietStep DEF AInv
  <2>3. ASSUME NEW f \in Thread, NEW c \in Client, ReadHistory(f, c) PROVE AInv'
    <3>1. /\ pc[f] = "idle" /\ pc'[f] = "enroll"
          /\ \A g \in Thread \cup {Consumer} : g # f => pc'[g] = pc[g]
          /\ \A g \in Thread : g # f => job'[g] = job[g]
          /\ UNCHANGED <<queue, item, order, users, usersLock>>
      BY <2>1, <2>3, GotoEffect DEF ReadHistory, TypeOK
    <3>2. LockHeld' /\ \A u \in User : Entering(u)' <=> Entering(u)
      BY <2>1, <3>1 DEF LockHeld, Entering
    <3>3. Posted' = Posted /\ HandsFree'
      BY <2>1, <3>1 DEF Posted, Backlog, HandsFree
    <3>4. QED
      BY <2>1, <3>1, <3>2, <3>3, QuietStep DEF AInv
  <2>4. CASE UNCHANGED vars
    <3>1. Posted' = Posted
      BY <2>4 DEF vars, Posted, Backlog
    <3>2. LockHeld' /\ HandsFree' /\ users' = users /\ \A u \in User : Entering(u)' <=> Entering(u)
      BY <2>1, <2>4 DEF vars, LockHeld, HandsFree, Entering
    <3>3. QED
      BY <2>1, <3>1, <3>2, QuietStep DEF AInv
  <2>5. QED
    BY <2>2, <2>3, <2>4, ListenerQuiet, EnrollAnnounces, RegisterKeeps, LeaveAnnounces
       DEF Next, ThreadStep
<1>3. QED
  BY <1>1, <1>2, Inductive, PTL DEF Spec

(* registerNewSession and disconnectSession tell the members the truth: a user *)
(* joins and leaves in turn, and is a member after it has joined, for any      *)
(* number of sessions of one user at any number of front ends.                 *)
THEOREM NotificationsTrue == Spec => []ActivityTrue
<1>1. TypeOK /\ AInv => ActivityTrue
  <2> SUFFICES ASSUME AInv, usersLock = Nobody, NEW u \in User PROVE ~Entering(u)
    BY DEF AInv, ActivityTrue, Announced
  <2>1. \A f \in Thread : f # Nobody
    BY ConstantsAssumption
  <2>2. QED
    BY <2>1 DEF AInv, LockHeld, Entering
<1>2. QED
  BY <1>1, TypeCorrect, AInvariance, PTL

-----------------------------------------------------------------------------
(* What is first may be published.                                           *)
LEMMA RemoveFirstItem ==
    ASSUME NEW S, NEW x \in S, NEW t \in Seq(S)
    PROVE  /\ RemoveAt(<<x>> \o t, 1) = t /\ (<<x>> \o t)[1] = x
           /\ 1 \in DOMAIN (<<x>> \o t)
<1> DEFINE c == <<x>> \o t
<1>1. <<x>> \in Seq(S) /\ Len(<<x>>) = 1 /\ <<x>>[1] = x /\ Len(t) \in Nat
  OBVIOUS
<1>2. /\ c \in Seq(S) /\ Len(c) = 1 + Len(t)
      /\ \A i \in 1 .. 1 + Len(t) : c[i] = IF i <= 1 THEN <<x>>[i] ELSE t[i - 1]
  BY <1>1, ConcatProperties
<1> HIDE DEF c
<1>3. c # <<>> /\ c[1] = x /\ 1 \in DOMAIN c
  BY <1>1, <1>2
<1>4. /\ Tail(c) \in Seq(S) /\ Len(Tail(c)) = Len(t)
      /\ \A i \in 1 .. Len(Tail(c)) : Tail(c)[i] = c[i + 1]
  BY <1>1, <1>2, <1>3, HeadTailProperties
<1>5. ASSUME NEW i \in 1 .. Len(t) PROVE Tail(c)[i] = t[i]
  <2>1. i + 1 \in 1 .. 1 + Len(t) /\ ~(i + 1 <= 1) /\ i + 1 - 1 = i
    BY <1>1
  <2>2. c[i + 1] = t[i + 1 - 1]
    BY <1>2, <2>1
  <2>3. QED
    BY <1>4, <2>1, <2>2
<1>6. Tail(c) = t
  BY <1>4, <1>5, SeqEqual
<1>7. SubSeq(c, 1, 0) = <<>> /\ SubSeq(c, 2, Len(c)) = Tail(c)
  BY <1>2, <1>3, SubSeqEmpty, TailIsSubSeq
<1>8. RemoveAt(c, 1) = <<>> \o Tail(c)
  BY <1>7 DEF RemoveAt
<1>9. RemoveAt(c, 1) = t
  BY <1>6, <1>8, ConcatEmptySeq
<1>10. QED
  BY <1>3, <1>9 DEF c

(* Each step of the group is a step of the room, or nothing to it.           *)
LEMMA RoomStep == IInv /\ AInv /\ [Next]_vars => [TheRoom!Next]_(TheRoom!vars)
<1> SUFFICES ASSUME IInv, AInv, [Next]_vars PROVE TheRoom!Next \/ UNCHANGED TheRoom!vars
  OBVIOUS
<1>1. TypeOK /\ JobsMatch /\ EntriesAreMembers /\ Consumer \notin Thread /\ Nobody \notin Thread
  BY ConstantsAssumption DEF IInv
<1>2. ASSUME UNCHANGED <<Backlog, users, live, order>> PROVE UNCHANGED TheRoom!vars
  BY <1>2 DEF TheRoom!vars
<1>3. ASSUME NEW x \in Item, queue' = Append(queue, x), UNCHANGED <<item, order, users, live>>
      PROVE  TheRoom!Next
  <2>1. Backlog' = Append(Backlog, x)
    BY <1>1, <1>3, PostedGrows
  <2>2. TheRoom!Post(x)
    BY <1>3, <2>1 DEF TheRoom!Post
  <2>3. QED
    BY <2>2 DEF TheRoom!Next
<1>4. ASSUME UNCHANGED <<queue, item, users, live, order>> PROVE UNCHANGED TheRoom!vars
  <2>1. Backlog' = Backlog
    BY <1>4 DEF Backlog
  <2>2. QED
    BY <1>2, <1>4, <2>1
<1>5. ASSUME NEW f \in Thread, PostMessage(f) PROVE TheRoom!Next
  <2>1. Text(f, sent[f] + 1) \in Item
    <3>1. f \in FE /\ sent[f] + 1 \in 1 .. MaxMessages
      BY <1>1, <1>5, ConstantsAssumption DEF TypeOK, PostMessage
    <3>2. QED
      BY <3>1, Items
  <2>2. QED
    BY <1>3, <1>5, <2>1 DEF PostMessage, observed
<1>6. ASSUME NEW f \in Thread, Enroll(f) PROVE TheRoom!Next \/ UNCHANGED TheRoom!vars
  <2>1. Activity("joined", UserOf[job[f]]) \in Item
    BY <1>1, <1>6, ConstantsAssumption, Items DEF JobsMatch, Enroll
  <2>2. UNCHANGED <<item, order, users, live>>
    BY <1>6 DEF Enroll, observed
  <2>3. queue' = queue \/ queue' = Append(queue, Activity("joined", UserOf[job[f]]))
    BY <1>6 DEF Enroll
  <2>4. QED
    BY <1>3, <1>4, <2>1, <2>2, <2>3
<1>7. ASSUME NEW f \in Thread, Register(f) PROVE TheRoom!Next
  <2>1. job[f] \in Client
    BY <1>1, <1>7 DEF JobsMatch, Register
  <2>2. Backlog' = Backlog
    BY <1>7 DEF Register, Backlog
  <2>3. TheRoom!Join(job[f])
    BY <1>7, <2>2 DEF Register, TheRoom!Join
  <2>4. QED
    BY <2>1, <2>3 DEF TheRoom!Next
<1>8. ASSUME NEW f \in Thread, NEW c \in Client, Leave(f, c) PROVE TheRoom!Next
  <2>1. PICK x : x = Activity("left", UserOf[c])
    OBVIOUS
  <2>2. x \in Item /\ x.kind # "text" /\ c \in users
    BY <1>1, <1>8, <2>1, ConstantsAssumption, Items DEF Activity, EntriesAreMembers, Leave
  <2>3. /\ users' = users \ {c} /\ UNCHANGED <<live, order, item>>
        /\ queue' = queue \/ queue' = Append(queue, x)
    BY <1>8, <2>1 DEF Leave, observed
  <2>4. Backlog' = Backlog \/ Backlog' = Append(Backlog, x)
    <3>1. CASE queue' = queue
      BY <2>3, <3>1 DEF Backlog
    <3>2. CASE queue' = Append(queue, x)
      BY <1>1, <2>2, <2>3, <3>2, PostedGrows
    <3>3. QED
      BY <2>3, <3>1, <3>2
  <2>5. [i \in Item |-> IF i.kind = "text" THEN i.by ELSE Nobody][x] = Nobody
    BY <2>2
  <2>6. TheRoom!Leave(c)
    BY <2>2, <2>3, <2>4, <2>5 DEF TheRoom!Leave
  <2>7. QED
    BY <2>6 DEF TheRoom!Next
<1>9. ASSUME NEW f \in Thread, Signal(f) \/ SignalJoin(f) \/ SignalLeft(f)
      PROVE  UNCHANGED TheRoom!vars
  BY <1>4, <1>9 DEF Signal, SignalJoin, SignalLeft, observed
<1>10. ASSUME NEW f \in Thread, NEW c \in Client, ReadHistory(f, c) PROVE UNCHANGED TheRoom!vars
  BY <1>4, <1>10 DEF ReadHistory
<1>11. CASE PassGate \/ Take \/ QueueEmpty \/ Store
  <2>1. UNCHANGED <<users, live, order>> /\ ~Broadcast /\ ConsumerStep
    BY <1>11 DEF PassGate, Take, QueueEmpty, Store, Broadcast, ConsumerStep, observed
  <2>2. Backlog' = Backlog
    BY <2>1, ConsumerPosts
  <2>3. QED
    BY <1>2, <2>1, <2>2
<1>12. CASE Broadcast
  <2>1. /\ Backlog = <<item>> \o queue /\ Backlog' = queue /\ item \in Item
        /\ queue \in Seq(Item)
    BY <1>1, <1>12, ConsumerPosts DEF ConsumerStep, TypeOK
  <2>2. RemoveAt(Backlog, 1) = queue /\ Backlog[1] = item /\ 1 \in DOMAIN Backlog
    BY <2>1, RemoveFirstItem
  <2>3. /\ live' = [c \in Client |-> IF c \in users THEN Append(live[c], item) ELSE live[c]]
        /\ order' = Append(order, item) /\ users' = users
    BY <1>12 DEF Broadcast
  <2>4. \A j \in 1 .. 1 - 1 : FALSE
    OBVIOUS
  <2>5. TheRoom!Publish(1)
    BY <2>1, <2>2, <2>3, <2>4 DEF TheRoom!Publish, TheRoom!RemoveAt, RemoveAt
  <2>6. QED
    BY <2>2, <2>5 DEF TheRoom!Next
<1>13. CASE UNCHANGED vars
  BY <1>4, <1>13 DEF vars
<1>14. QED
  BY <1>5, <1>6, <1>7, <1>8, <1>9, <1>10, <1>11, <1>12, <1>13
     DEF Next, ThreadStep, ConsumerStep

(* The group's queue, its listeners and its consumer implement Room: what each *)
(* front end posts is published in its order, each item to all who are members *)
(* when it is.                                                                 *)
THEOREM ImplementsRoom == Spec => RoomSpec
<1>1. Init => TheRoom!Init
  <2> SUFFICES ASSUME Init PROVE TheRoom!Init
    OBVIOUS
  <2>1. Backlog = <<>>
    <3>1. <<>> \o <<>> = <<>>
      BY ConcatEmptySeq
    <3>2. QED
      BY <3>1 DEF Init, Backlog
  <2>2. QED
    BY <2>1 DEF Init, TheRoom!Init
<1>2. QED
  BY <1>1, RoomStep, Inductive, AInvariance, PTL DEF Spec, RoomSpec, TheRoom!Spec
=============================================================================
