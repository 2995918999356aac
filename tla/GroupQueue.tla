----------------------------- MODULE GroupQueue -----------------------------
(***************************************************************************)
(* One chat group at the primary server: its message queue, the consumer   *)
(* thread that stores and broadcasts messages, the listener threads of the *)
(* front ends (FEs) that post messages and make users join and leave, and  *)
(* the monitor threads, which make the users of an FE leave when its       *)
(* keep-alives are overdue, whatever the listener is at (Group).           *)
(*                                                                         *)
(* The queue is used only under messageQueueSemaphore and in pieces that   *)
(* wait for nothing, so each use is one step.  usersSemaphore is held      *)
(* while a notification is queued, so its holder is a variable.  The       *)
(* history file is the sequence of stored messages: module History has its *)
(* races, module Sessions those of the session entries.                    *)
(***************************************************************************)
EXTENDS Naturals, Sequences, SequencesExt, FiniteSets

CONSTANTS
    FE,           \* front ends, and the listener thread of each
    MonitorOf,    \* the monitor threads of those whose keep-alives may be overdue
    Client,       \* client sessions that join this group
    User,
    UserOf,       \* the user name of a client
    FeOf,         \* the front end of a client
    Limit,        \* getMaxNumberOfMessagesInHistory()
    MaxMessages,  \* bound: messages of each front end
    Consumer,     \* the consumer thread
    Nobody

(* A text by a front end's nth packet, and the notifications about a user.   *)
Text(f, n)  == [kind |-> "text", by |-> f, n |-> n]
Activity(kind, u) == [kind |-> kind, by |-> u, n |-> 0]

Thread == FE \cup {MonitorOf[f] : f \in DOMAIN MonitorOf}

Texts == {Text(f, n) : f \in FE, n \in 1 .. MaxMessages}
Item == Texts \cup {Activity(k, u) : k \in {"joined", "left"}, u \in User}

ASSUME ConstantsAssumption ==
    /\ UserOf \in [Client -> User]
    /\ FeOf \in [Client -> FE]
    /\ Limit \in Nat \ {0}
    /\ MaxMessages \in Nat
    /\ DOMAIN MonitorOf \subseteq FE
    /\ \A f \in DOMAIN MonitorOf : MonitorOf[f] \notin FE
    /\ Consumer \notin Thread
    /\ Nobody \notin Thread \cup Client \cup Item

VARIABLES
    queue,      \* Group::messages_queue
    gate,       \* TRUE: mutex_consumer_producer is unlocked
    usersLock,  \* the thread that holds usersSemaphore between two steps
    users,      \* clients with an entry in Group::users
    stored,     \* messages appended to the group's history
    pc,         \* program counter of each of these threads and of the consumer
    job,        \* the client whose JOIN a listener is handling
    item,       \* the consumer's local variable message
    sent,       \* messages each front end has sent
    stage,      \* where a client is in its life
    shown,      \* the history sent to a client
    live,       \* the messages broadcast to a client
    order,      \* history variable: all messages broadcast
    since       \* history variable: Len(order) when a client was registered

vars == <<queue, gate, usersLock, users, stored, pc, job, item, sent, stage,
          shown, live, order, since>>

observed == <<shown, live, order, since>>

-----------------------------------------------------------------------------
ThreadSteps ==
    {"idle", "signal", "history", "enroll", "signalJoin", "register", "signalLeft"}

TypeOK ==
    /\ queue \in Seq(Item)
    /\ gate \in BOOLEAN
    /\ usersLock \in Thread \cup {Nobody}
    /\ users \subseteq Client
    /\ stored \in Seq(Texts)
    /\ pc \in [Thread \cup {Consumer} -> ThreadSteps \cup {"gate", "take", "store", "send"}]
    /\ job \in [Thread -> Client \cup {Nobody}]
    /\ item \in Item \cup {Nobody}
    /\ sent \in [FE -> 0 .. MaxMessages]
    /\ stage \in [Client -> {"new", "joining", "member", "left", "dropped"}]
    /\ shown \in [Client -> Seq(Texts)]
    /\ live \in [Client -> Seq(Item)]
    /\ order \in Seq(Item)
    /\ since \in [Client -> Nat]

(* The group has just been created for its first user.                       *)
Init ==
    /\ queue = <<>>
    /\ gate = FALSE
    /\ usersLock = Nobody
    /\ users = {}
    /\ stored = <<>>
    /\ pc = [t \in Thread \cup {Consumer} |-> IF t = Consumer THEN "gate" ELSE "idle"]
    /\ job = [t \in Thread |-> Nobody]
    /\ item = Nobody
    /\ sent = [f \in FE |-> 0]
    /\ stage = [c \in Client |-> "new"]
    /\ shown = [c \in Client |-> <<>>]
    /\ live = [c \in Client |-> <<>>]
    /\ order = <<>>
    /\ since = [c \in Client |-> 0]

Goto(t, l) == pc' = [pc EXCEPT ![t] = l]

LastLines(s, n) == IF Len(s) > n THEN SubSeq(s, Len(s) - n + 1, Len(s)) ELSE s

SessionsOf(u) == {c \in users : UserOf[c] = u}

-----------------------------------------------------------------------------
(* Listener and monitor threads.                                             *)

(* processReceivedMessage: addMessageToMessageQueue queues the message, then *)
(* unlocks the consumer's mutex.  A member of the group sent it, or one that  *)
(* the monitor has dropped since.                                            *)
PostMessage(f) ==
    /\ pc[f] = "idle"
    /\ \E c \in Client : FeOf[c] = f /\ stage[c] \in {"member", "dropped"}
    /\ sent[f] < MaxMessages
    /\ sent' = [sent EXCEPT ![f] = @ + 1]
    /\ queue' = Append(queue, Text(f, sent[f] + 1))
    /\ Goto(f, "signal")
    /\ UNCHANGED <<gate, usersLock, users, stored, job, item, stage, observed>>

Signal(f) ==
    /\ pc[f] = "signal"
    /\ gate' = TRUE
    /\ Goto(f, "idle")
    /\ UNCHANGED <<queue, usersLock, users, stored, job, item, sent, stage, observed>>

(* registerNewSession: ACCEPT is sent and the history read ...               *)
ReadHistory(f, c) ==
    /\ pc[f] = "idle"
    /\ FeOf[c] = f
    /\ stage[c] = "new"
    /\ stage' = [stage EXCEPT ![c] = "joining"]
    /\ job' = [job EXCEPT ![f] = c]
    /\ shown' = [shown EXCEPT ![c] = LastLines(stored, Limit)]
    /\ Goto(f, "enroll")
    /\ UNCHANGED <<queue, gate, usersLock, users, stored, item, sent, live, order, since>>

(* ... and, under usersSemaphore, a user new to the group is announced.      *)
Enroll(f) ==
    LET u == UserOf[job[f]]
    IN  /\ pc[f] = "enroll"
        /\ usersLock = Nobody
        /\ usersLock' = f
        /\ queue' = IF SessionsOf(u) = {} THEN Append(queue, Activity("joined", u)) ELSE queue
        /\ Goto(f, IF SessionsOf(u) = {} THEN "signalJoin" ELSE "register")
        /\ UNCHANGED <<gate, users, stored, job, item, sent, stage, observed>>

SignalJoin(f) ==
    /\ pc[f] = "signalJoin"
    /\ gate' = TRUE
    /\ Goto(f, "register")
    /\ UNCHANGED <<queue, usersLock, users, stored, job, item, sent, stage, observed>>

(* registerSession, and usersSemaphore is released.                          *)
Register(f) ==
    LET c == job[f]
    IN  /\ pc[f] = "register"
        /\ users' = users \cup {c}
        /\ stage' = [stage EXCEPT ![c] = "member"]
        /\ since' = [since EXCEPT ![c] = Len(order)]
        /\ usersLock' = Nobody
        /\ job' = [job EXCEPT ![f] = Nobody]
        /\ Goto(f, "idle")
        /\ UNCHANGED <<queue, gate, stored, item, sent, shown, live, order>>

ActsFor(t, c) ==
    \/ t = FeOf[c]
    \/ FeOf[c] \in DOMAIN MonitorOf /\ t = MonitorOf[FeOf[c]]

Stage(t, c) == IF t = FeOf[c] THEN "left" ELSE "dropped"

BugNotifyLeave(t, c) ==
    /\ pc[t] = "idle"
    /\ ActsFor(t, c)
    /\ stage[c] = "member"
    /\ usersLock = Nobody
    /\ usersLock' = t
    /\ users' = users \ {c}
    /\ stage' = [stage EXCEPT ![c] = Stage(t, c)]
    /\ queue' = Append(queue, Activity("left", UserOf[c]))
    /\ Goto(t, "signalLeft")
    /\ UNCHANGED <<gate, stored, job, item, sent, observed>>

(* handleDisconnectEvent for one client: a user without sessions has left.    *)
(* For an FE that is gone or silent, it is done for one client after another. *)
Leave(t, c) ==
    LET gone == SessionsOf(UserOf[c]) = {c}
    IN  /\ pc[t] = "idle"
        /\ ActsFor(t, c)
        /\ stage[c] = "member"
        /\ usersLock = Nobody
        /\ usersLock' = IF gone THEN t ELSE Nobody
        /\ users' = users \ {c}
        /\ stage' = [stage EXCEPT ![c] = Stage(t, c)]
        /\ queue' = IF gone THEN Append(queue, Activity("left", UserOf[c])) ELSE queue
        /\ Goto(t, IF gone THEN "signalLeft" ELSE "idle")
        /\ UNCHANGED <<gate, stored, job, item, sent, observed>>

SignalLeft(t) ==
    /\ pc[t] = "signalLeft"
    /\ gate' = TRUE
    /\ usersLock' = Nobody
    /\ Goto(t, "idle")
    /\ UNCHANGED <<queue, users, stored, job, item, sent, stage, observed>>

-----------------------------------------------------------------------------
(* The consumer thread: consumeMessageQueue.                                 *)
PassGate ==
    /\ pc[Consumer] = "gate"
    /\ gate
    /\ gate' = FALSE
    /\ Goto(Consumer, "take")
    /\ UNCHANGED <<queue, usersLock, users, stored, job, item, sent, stage, observed>>

BugTake ==
    /\ pc[Consumer] = "take"
    /\ queue # <<>>
    /\ item' = Last(queue)
    /\ queue' = Front(queue)
    /\ Goto(Consumer, "store")
    /\ UNCHANGED <<gate, usersLock, users, stored, job, sent, stage, observed>>

Take ==
    /\ pc[Consumer] = "take"
    /\ queue # <<>>
    /\ item' = Head(queue)
    /\ queue' = Tail(queue)
    /\ Goto(Consumer, "store")
    /\ UNCHANGED <<gate, usersLock, users, stored, job, sent, stage, observed>>

QueueEmpty ==
    /\ pc[Consumer] = "take"
    /\ queue = <<>>
    /\ Goto(Consumer, "gate")
    /\ UNCHANGED <<queue, gate, usersLock, users, stored, job, item, sent, stage, observed>>

(* Notifications do not go to the history.                                   *)
Store ==
    /\ pc[Consumer] = "store"
    /\ stored' = IF item.kind = "text" THEN Append(stored, item) ELSE stored
    /\ Goto(Consumer, "send")
    /\ UNCHANGED <<queue, gate, usersLock, users, job, item, sent, stage, observed>>

BugBroadcast ==
    LET first(u) == CHOOSE c \in SessionsOf(u) : TRUE
    IN  /\ pc[Consumer] = "send"
        /\ usersLock = Nobody
        /\ live' = [c \in Client |->
              IF c \in users /\ c = first(UserOf[c]) THEN Append(live[c], item) ELSE live[c]]
        /\ order' = Append(order, item)
        /\ item' = Nobody
        /\ Goto(Consumer, "take")
        /\ UNCHANGED <<queue, gate, usersLock, users, stored, job, sent, stage, shown, since>>

BugOnePerWakeup ==
    /\ pc[Consumer] = "send"
    /\ usersLock = Nobody
    /\ live' = [c \in Client |-> IF c \in users THEN Append(live[c], item) ELSE live[c]]
    /\ order' = Append(order, item)
    /\ item' = Nobody
    /\ Goto(Consumer, "gate")
    /\ UNCHANGED <<queue, gate, usersLock, users, stored, job, sent, stage, shown, since>>

(* broadcastMessageToUsers, under usersSemaphore.                            *)
Broadcast ==
    /\ pc[Consumer] = "send"
    /\ usersLock = Nobody
    /\ live' = [c \in Client |-> IF c \in users THEN Append(live[c], item) ELSE live[c]]
    /\ order' = Append(order, item)
    /\ item' = Nobody
    /\ Goto(Consumer, "take")
    /\ UNCHANGED <<queue, gate, usersLock, users, stored, job, sent, stage, shown, since>>

ThreadStep(t) ==
    \/ Signal(t)
    \/ Enroll(t)
    \/ SignalJoin(t)
    \/ Register(t)
    \/ SignalLeft(t)

ConsumerStep ==
    \/ PassGate
    \/ Take
    \/ QueueEmpty
    \/ Store
    \/ Broadcast

Next ==
    \/ ConsumerStep
    \/ \E t \in Thread : PostMessage(t) \/ ThreadStep(t)
    \/ \E t \in Thread, c \in Client : ReadHistory(t, c) \/ Leave(t, c)

Spec == Init /\ [][Next]_vars

(* The threads run; packets come when they come.                             *)
Fairness ==
    /\ WF_vars(ConsumerStep)
    /\ \A t \in Thread : WF_vars(ThreadStep(t))

FairSpec == Spec /\ Fairness

-----------------------------------------------------------------------------
(* Properties.                                                               *)

Signalling(t) == pc[t] \in {"signal", "signalJoin", "signalLeft"}

(* No wake-up is lost: the consumer never sleeps on its mutex with something  *)
(* in the queue, unless a thread is about   to unlock the mutex.  The mutex   *)
(* keeps one unlock at most, and the consumer locks it again without looking. *)
NoneStranded ==
    pc[Consumer] = "gate" /\ ~gate /\ queue # <<>> => \E t \in Thread : Signalling(t)

(* A member of the group gets everything that is broadcast from its           *)
(* registration until it leaves, in the one order all other members see it.   *)
MembersInStep ==
    \A c \in Client : stage[c] = "member" =>
        live[c] = SubSeq(order, since[c] + 1, Len(order))

(* What waits to be broadcast, and everything queued so far, in order.        *)
Backlog == (IF item = Nobody THEN <<>> ELSE <<item>>) \o queue
Posted == order \o Backlog

(* The notifications about a user in s, those that follow one another differ,  *)
(* and the last one says that the user has joined.                            *)
About(s, u) == {i \in DOMAIN s : s[i].kind # "text" /\ s[i].by = u}

InTurn(s, u) ==
    /\ \A i, j \in About(s, u) :
          i < j /\ (\A k \in About(s, u) : k <= i \/ j <= k) => s[i].kind # s[j].kind
    /\ \A i \in About(s, u) : (\A k \in About(s, u) : i <= k) => s[i].kind = "joined"

Present(s, u) ==
    \E i \in About(s, u) : s[i].kind = "joined" /\ \A k \in About(s, u) : k <= i

(* The members are told that a user has joined and has left in turn, and the  *)
(* last they are told is how it is, although sessions of one user come and go *)
(* through several front ends.                                                *)
ActivityTrue ==
    usersLock = Nobody =>
        \A u \in User : InTurn(Posted, u) /\ (Present(Posted, u) <=> SessionsOf(u) # {})

(* Every message that a front end has delivered to the server is broadcast.   *)
Delivered ==
    \A f \in FE : \A n \in 1 .. MaxMessages :
        sent[f] >= n ~> Text(f, n) \in ToSet(order)

(* The group keeps the promise of Room, with one queue for all the listeners. *)
TheRoom == INSTANCE Room
    WITH Source <- [i \in Item |-> IF i.kind = "text" THEN i.by ELSE Nobody], Group <- Nobody,
         pending <- Backlog, members <- users, received <- live, published <- order

RoomSpec == TheRoom!Spec

(* README: a user who connects to a room sees the last messages sent: of the  *)
(* last Limit messages in the history, a member has got each, in the history  *)
(* it was sent or live, unless the consumer is about to send it.              *)
SeesLastMessages ==
    \A c \in Client : stage[c] = "member" =>
        ToSet(LastLines(stored, Limit)) \subseteq
            ToSet(shown[c]) \cup ToSet(live[c]) \cup {item}
=============================================================================
