----------------------------- MODULE UtilProofs -----------------------------
(***************************************************************************)
(* Proofs about the utilities of src/util that every process is built on:  *)
(* the semaphore (module Semaphore) and the keep-alive threads (module     *)
(* KeepAlive).                                                             *)
(*                                                                         *)
(* Semaphore: how many threads it lets in, that it strands none of them,   *)
(* and that it implements CountingLock, for any number of threads, permits *)
(* and spurious wake-ups.                                                  *)
(*                                                                         *)
(* KeepAlive, for any number of connections and descriptors and any        *)
(* timeout of three intervals or more: a peer of which nothing is read is  *)
(* disconnected in time, and a peer that sends its KEEP_ALIVEs stays       *)
(* connected unless its listener does not come to read them, or threads of *)
(* an earlier connection were after its number when it was accepted or     *)
(* before it was monitored.                                                *)
(***************************************************************************)
EXTENDS KeepAlive, Semaphore, FiniteSetTheorems, TLAPS

-----------------------------------------------------------------------------
(* Semaphore.                                                                *)
Count(l) == Cardinality(At(l))

(* Every call of wait() that post() has not answered yet has its thread      *)
(* inside, on its way in, or blocked.                                        *)
CounterTrue == value = Permits - Count("inside") - Count("woken") - Count("blocked")

(* The threads that the counter says had to block are blocked, but for those *)
(* that woke up by themselves.                                               *)
BlockedAreCounted ==
    /\ Count("blocked") <= (IF value < 0 THEN -value ELSE 0)
    /\ -value - spurious <= Count("blocked")

(* The inductive invariant: what HoldersBounded says of two of the places a  *)
(* thread can be in follows from what the counter says of all of them.       *)
SemInv == SemTypeOK /\ CounterTrue /\ BlockedAreCounted

(* The threads at a place are finitely many.                                 *)
LEMMA CountsAreNat == \A l : IsFiniteSet(At(l)) /\ Count(l) \in Nat
<1>1. \A l : At(l) \subseteq Thread
  BY DEF At
<1>2. QED
  BY <1>1, SemaphoreAssumption, FS_Subset, FS_CardinalityType DEF SemaphoreAssumption, Count

(* A thread arrives at a place.                                              *)
LEMMA Arrives ==
    ASSUME NEW l, NEW t \in Thread, t \notin At(l), At(l)' = At(l) \cup {t}
    PROVE  Count(l)' = Count(l) + 1
  BY CountsAreNat, FS_AddElement DEF Count

(* And one leaves one.                                                       *)
LEMMA Departs ==
    ASSUME NEW l, NEW t \in Thread, t \in At(l), At(l)' = At(l) \ {t}
    PROVE  Count(l)' = Count(l) - 1 /\ Count(l) >= 1
<1>1. Count(l)' = Count(l) - 1
  BY CountsAreNat, FS_RemoveElement DEF Count
<1>2. Count(l) # 0
  BY CountsAreNat, FS_EmptySet DEF Count
<1>3. QED
  BY <1>1, <1>2, CountsAreNat

(* Every variable of a semaphore keeps its type (Semaphore, m_value).        *)
THEOREM SemTypeCorrect == SemSpec => []SemTypeOK
<1>1. SemInit => SemTypeOK
  BY SemaphoreAssumption DEF SemaphoreAssumption, SemInit, SemTypeOK
<1>2. SemTypeOK /\ [SemNext]_semVars => SemTypeOK'
  BY SemaphoreAssumption DEF SemaphoreAssumption, SemTypeOK, SemNext, semVars, Wait, Return, Post,
     SpuriousWakeup, Goto, At
<1>3. QED
  BY <1>1, <1>2, PTL DEF SemSpec

(* At the start all permits are free.                                        *)
LEMMA SemInitInv == SemInit => SemInv
<1> SUFFICES ASSUME SemInit PROVE SemInv
  OBVIOUS
<1>1. At("inside") = {} /\ At("woken") = {} /\ At("blocked") = {}
  BY DEF SemInit, At
<1>2. Count("inside") = 0 /\ Count("woken") = 0 /\ Count("blocked") = 0
  BY <1>1, FS_EmptySet DEF Count
<1>3. QED
  BY <1>2, SemaphoreAssumption
     DEF SemaphoreAssumption, SemInit, SemInv, SemTypeOK, CounterTrue, BlockedAreCounted

(* wait() takes a permit or blocks its thread.                               *)
LEMMA WaitInv ==
    ASSUME SemInv, NEW t \in Thread, Wait(t)
    PROVE  CounterTrue' /\ BlockedAreCounted'
<1>1. value \in Int /\ spurious \in Nat /\ value' = value - 1 /\ spurious' = spurious
  BY SemaphoreAssumption DEF SemaphoreAssumption, SemInv, SemTypeOK, Wait
<1>2. CASE value' < 0
  <2>1. /\ t \notin At("blocked") /\ At("blocked")' = At("blocked") \cup {t}
        /\ At("inside")' = At("inside") /\ At("woken")' = At("woken")
    BY <1>2 DEF SemInv, SemTypeOK, Wait, Goto, At
  <2>2. /\ Count("blocked")' = Count("blocked") + 1
        /\ Count("inside")' = Count("inside") /\ Count("woken")' = Count("woken")
    BY <2>1, Arrives DEF Count
  <2>3. QED
    BY <1>1, <1>2, <2>2, CountsAreNat, SemaphoreAssumption
       DEF SemaphoreAssumption, SemInv, CounterTrue, BlockedAreCounted
<1>3. CASE ~(value' < 0)
  <2>1. /\ t \notin At("inside") /\ At("inside")' = At("inside") \cup {t}
        /\ At("blocked")' = At("blocked") /\ At("woken")' = At("woken")
    BY <1>3 DEF SemInv, SemTypeOK, Wait, Goto, At
  <2>2. /\ Count("inside")' = Count("inside") + 1
        /\ Count("blocked")' = Count("blocked") /\ Count("woken")' = Count("woken")
    BY <2>1, Arrives DEF Count
  <2>3. QED
    BY <1>1, <1>3, <2>2, CountsAreNat, SemaphoreAssumption
       DEF SemaphoreAssumption, SemInv, CounterTrue, BlockedAreCounted
<1>4. QED
  BY <1>2, <1>3

(* A thread that was woken comes in.                                         *)
LEMMA ReturnInv ==
    ASSUME SemInv, NEW t \in Thread, Return(t)
    PROVE  CounterTrue' /\ BlockedAreCounted'
<1>1. /\ t \notin At("inside") /\ At("inside")' = At("inside") \cup {t}
      /\ t \in At("woken") /\ At("woken")' = At("woken") \ {t}
      /\ At("blocked")' = At("blocked")
  BY DEF SemInv, SemTypeOK, Return, Goto, At
<1>2. /\ Count("inside")' = Count("inside") + 1 /\ Count("woken")' = Count("woken") - 1
      /\ Count("blocked")' = Count("blocked")
  BY <1>1, Arrives, Departs DEF Count
<1>3. value' = value /\ spurious' = spurious
  BY DEF Return
<1>4. QED
  BY <1>2, <1>3, CountsAreNat, SemaphoreAssumption
     DEF SemaphoreAssumption, SemInv, SemTypeOK, CounterTrue, BlockedAreCounted

(* post() gives a permit back, or to one of the threads that are blocked.    *)
LEMMA PostInv ==
    ASSUME SemInv, NEW t \in Thread, Post(t)
    PROVE  CounterTrue' /\ BlockedAreCounted'
<1>1. value \in Int /\ spurious \in Nat /\ value' = value + 1 /\ spurious' = spurious
  BY SemaphoreAssumption DEF SemaphoreAssumption, SemInv, SemTypeOK, Post
<1>2. ASSUME value' <= 0, NEW b \in At("blocked"),
             pc' = [pc EXCEPT ![t] = "outside", ![b] = "woken"]
      PROVE  CounterTrue' /\ BlockedAreCounted'
  <2>1. b \in Thread /\ b # t /\ pc[b] = "blocked" /\ pc[t] = "inside"
    BY <1>2 DEF SemInv, SemTypeOK, Post, At
  <2>2. /\ t \in At("inside") /\ At("inside")' = At("inside") \ {t}
        /\ b \in At("blocked") /\ At("blocked")' = At("blocked") \ {b}
        /\ b \notin At("woken") /\ At("woken")' = At("woken") \cup {b}
    BY <1>2, <2>1 DEF SemInv, SemTypeOK, At
  <2>3. /\ Count("inside")' = Count("inside") - 1
        /\ Count("blocked")' = Count("blocked") - 1 /\ Count("blocked") >= 1
        /\ Count("woken")' = Count("woken") + 1
    BY <2>1, <2>2, Arrives, Departs
  <2>4. QED
    BY <1>1, <1>2, <2>3, CountsAreNat, SemaphoreAssumption
       DEF SemaphoreAssumption, SemInv, CounterTrue, BlockedAreCounted
<1>3. ASSUME value' > 0 \/ At("blocked") = {}, Goto(t, "outside")
      PROVE  CounterTrue' /\ BlockedAreCounted'
  <2>1. /\ t \in At("inside") /\ At("inside")' = At("inside") \ {t}
        /\ At("blocked")' = At("blocked") /\ At("woken")' = At("woken")
    BY <1>3 DEF SemInv, SemTypeOK, Post, Goto, At
  <2>2. /\ Count("inside")' = Count("inside") - 1
        /\ Count("blocked")' = Count("blocked") /\ Count("woken")' = Count("woken")
    BY <2>1, Departs DEF Count
  <2>3. At("blocked") = {} => Count("blocked") = 0
    BY FS_EmptySet DEF Count
  <2>4. QED
    BY <1>1, <1>3, <2>2, <2>3, CountsAreNat, SemaphoreAssumption
       DEF SemaphoreAssumption, SemInv, CounterTrue, BlockedAreCounted
<1>4. QED
  BY <1>1, <1>2, <1>3 DEF Post

(* A thread that wakes up by itself is counted in spurious.                  *)
LEMMA SpuriousWakeupInv ==
    ASSUME SemInv, NEW t \in Thread, SpuriousWakeup(t)
    PROVE  CounterTrue' /\ BlockedAreCounted'
<1>1. /\ t \in At("blocked") /\ At("blocked")' = At("blocked") \ {t}
      /\ t \notin At("woken") /\ At("woken")' = At("woken") \cup {t}
      /\ At("inside")' = At("inside")
  BY DEF SemInv, SemTypeOK, SpuriousWakeup, Goto, At
<1>2. /\ Count("blocked")' = Count("blocked") - 1 /\ Count("woken")' = Count("woken") + 1
      /\ Count("inside")' = Count("inside")
  BY <1>1, Arrives, Departs DEF Count
<1>3. value' = value /\ spurious' = spurious + 1
  BY DEF SpuriousWakeup
<1>4. QED
  BY <1>2, <1>3, CountsAreNat, SemaphoreAssumption
     DEF SemaphoreAssumption, SemInv, SemTypeOK, CounterTrue, BlockedAreCounted

(* No step breaks the invariant.                                             *)
LEMMA SemStepInv == SemTypeOK' /\ SemInv /\ [SemNext]_semVars => SemInv'
<1> SUFFICES ASSUME SemTypeOK', SemInv, [SemNext]_semVars PROVE CounterTrue' /\ BlockedAreCounted'
  BY DEF SemInv
<1>1. ASSUME NEW t \in Thread, Wait(t) \/ Return(t) \/ Post(t) \/ SpuriousWakeup(t)
      PROVE  CounterTrue' /\ BlockedAreCounted'
  BY <1>1, WaitInv, ReturnInv, PostInv, SpuriousWakeupInv
<1>2. CASE UNCHANGED semVars
  BY <1>2 DEF semVars, SemInv, CounterTrue, BlockedAreCounted, Count, At
<1>3. QED
  BY <1>1, <1>2 DEF SemNext

(* The inductive invariant, always.                                          *)
THEOREM SemInvariant == SemSpec => []SemInv
  BY SemInitInv, SemStepInv, SemTypeCorrect, PTL DEF SemSpec

(* The counter bounds the threads inside.                                    *)
LEMMA InvBounds == SemInv => HoldersBounded
  BY CountsAreNat, SemaphoreAssumption
     DEF SemaphoreAssumption, SemInv, SemTypeOK, CounterTrue, BlockedAreCounted,
         HoldersBounded, Count

(* wait() lets in as many threads as there are permits, and one more for     *)
(* each spurious wake-up of the condition variable.                          *)
THEOREM PermitsKept == SemSpec => []HoldersBounded
  BY SemInvariant, InvBounds, PTL

(* The counter is negative while a thread is blocked.                        *)
LEMMA InvNoneStranded == SemInv => BlockedOnlyBehindHolders
<1> SUFFICES ASSUME SemInv, At("blocked") # {} PROVE Count("inside") + Count("woken") >= Permits
  BY DEF BlockedOnlyBehindHolders, Count
<1>1. Count("blocked") # 0
  BY CountsAreNat, FS_EmptySet DEF Count
<1>2. QED
  BY <1>1, CountsAreNat, SemaphoreAssumption
     DEF SemaphoreAssumption, SemInv, SemTypeOK, CounterTrue, BlockedAreCounted

(* post() strands nobody: while a thread is blocked in wait(), others have   *)
(* taken all the permits and are still to call post().                       *)
THEOREM NoneBlockedAlone == SemSpec => []BlockedOnlyBehindHolders
  BY SemInvariant, InvNoneStranded, PTL

(* The counter counts the threads that have not left.                        *)
LEMMA InvHeals == SemInv => Heals
<1> SUFFICES ASSUME SemInv, At("outside") = Thread PROVE value = Permits
  BY DEF Heals
<1>1. At("inside") = {} /\ At("woken") = {} /\ At("blocked") = {}
  BY DEF At
<1>2. Count("inside") = 0 /\ Count("woken") = 0 /\ Count("blocked") = 0
  BY <1>1, FS_EmptySet DEF Count
<1>3. QED
  BY <1>2, SemaphoreAssumption DEF SemaphoreAssumption, SemInv, SemTypeOK, CounterTrue

(* When all threads have left, post() has restored the counter.              *)
THEOREM CounterRestored == SemSpec => []Heals
  BY SemInvariant, InvHeals, PTL

-----------------------------------------------------------------------------
(* The semaphore implements CountingLock.                                    *)
Free == Permits + spurious - Count("inside")

(* The lock is free at the start.                                            *)
LEMMA LockInit == SemInit => Lock!Init
<1> SUFFICES ASSUME SemInit PROVE At("inside") = {} /\ Free \in Nat \ {0}
  BY DEF Lock!Init, Free, Count
<1>1. At("inside") = {}
  BY DEF SemInit, At
<1>2. Count("inside") = 0
  BY <1>1, FS_EmptySet DEF Count
<1>3. QED
  BY <1>1, <1>2, SemaphoreAssumption DEF SemaphoreAssumption, SemInit, Free

(* Each step is one of the lock, or leaves it alone.                         *)
LEMMA LockStep == SemInv /\ HoldersBounded' /\ [SemNext]_semVars => [Lock!Next]_(Lock!vars)
<1> SUFFICES ASSUME SemInv, HoldersBounded', [SemNext]_semVars PROVE [Lock!Next]_(Lock!vars)
  OBVIOUS
<1>1. Permits \in Nat /\ spurious \in Nat /\ Count("inside") \in Nat
  BY CountsAreNat, SemaphoreAssumption DEF SemaphoreAssumption, SemInv, SemTypeOK
<1>2. ASSUME NEW t \in Thread, t \notin At("inside"), At("inside")' = At("inside") \cup {t},
             spurious' = spurious
      PROVE  Lock!Enter(t)
  <2>1. Count("inside")' = Count("inside") + 1
    BY <1>2, Arrives
  <2>2. At("woken")' \subseteq Thread
    BY DEF At
  <2>3. Count("woken")' \in Nat
    BY <2>2, SemaphoreAssumption, FS_Subset, FS_CardinalityType DEF SemaphoreAssumption, Count
  <2>4. Count("inside")' + Count("woken")' <= Permits + spurious
    BY <1>2 DEF HoldersBounded, Count
  <2>5. Free > 0 /\ Free' = Free - 1
    BY <1>1, <1>2, <2>1, <2>3, <2>4 DEF Free
  <2>6. QED
    BY <1>2, <2>5 DEF Lock!Enter, Free, Count
<1>3. ASSUME NEW t \in Thread, Wait(t) \/ Return(t)
      PROVE  Lock!Enter(t) \/ UNCHANGED Lock!vars
  <2>1. /\ t \notin At("inside") /\ spurious' = spurious
        /\ At("inside")' = At("inside") \/ At("inside")' = At("inside") \cup {t}
    BY <1>3 DEF SemInv, SemTypeOK, Wait, Return, Goto, At
  <2>2. QED
    BY <1>2, <2>1 DEF Lock!vars
<1>4. ASSUME NEW t \in Thread, Post(t)
      PROVE  Lock!Leave(t)
  <2>1. t \in At("inside") /\ At("inside")' = At("inside") \ {t} /\ spurious' = spurious
    BY <1>4 DEF SemInv, SemTypeOK, Post, Goto, At
  <2>2. Count("inside")' = Count("inside") - 1
    BY <2>1, Departs
  <2>3. Free' = Free + 1
    BY <1>1, <2>1, <2>2 DEF Free
  <2>4. QED
    BY <2>1, <2>3 DEF Lock!Leave, Free, Count
<1>5. ASSUME NEW t \in Thread, SpuriousWakeup(t)
      PROVE  Lock!Breach
  <2>1. At("inside")' = At("inside") /\ spurious' = spurious + 1
    BY <1>5 DEF SemInv, SemTypeOK, SpuriousWakeup, Goto, At
  <2>2. Count("inside")' = Count("inside")
    BY <2>1 DEF Count
  <2>3. Free' = Free + 1
    BY <1>1, <2>1, <2>2 DEF Free
  <2>4. QED
    BY <2>1, <2>3 DEF Lock!Breach, Free, Count
<1>6. CASE UNCHANGED semVars
  BY <1>6 DEF semVars, Lock!vars, At
<1>7. QED
  BY <1>3, <1>4, <1>5, <1>6 DEF SemNext, Lock!Next

(* wait() and post() implement a lock that lets in Permits threads, and one   *)
(* more for each spurious wake-up.                                            *)
THEOREM ImplementsLock == SemSpec => LockSpec
<1>1. SemSpec => Lock!Init
  BY LockInit DEF SemSpec
<1>2. SemSpec => [][Lock!Next]_(Lock!vars)
  BY SemInvariant, PermitsKept, LockStep, PTL DEF SemSpec
<1>3. QED
  BY <1>1, <1>2 DEF LockSpec, Lock!Spec

-----------------------------------------------------------------------------
(* KeepAlive.  Threads outlive their connections, so the table's entry of a  *)
(* descriptor may be written for several connections.  What keeps it useful  *)
(* is that the owner of a number is the last connection accepted with it,    *)
(* and that a monitor starts in the interval in which its connection was     *)
(* accepted.                                                                 *)

(* Who has a descriptor, until its listener has closed it.                   *)
Owns(c) == listener[c] \in {"read", "busy", "tell", "forget", "close"}

Accepted ==
    \A c \in Connection :
        IF c <= accepted THEN fdOf[c] \in Fd
        ELSE /\ fdOf[c] = 0 /\ peer[c] = "off" /\ quiet[c] = 0
             /\ listener[c] = "off" /\ monitor[c] = "off"

Owners ==
    /\ \A c \in Connection : Owns(c) => fds[fdOf[c]] = c
    /\ \A d \in Fd : fds[d] # Nobody => Owns(fds[d]) /\ fdOf[fds[d]] = d

(* The owner of a number is the last connection accepted with it.            *)
Latest == \A d \in Fd, b \in Connection : fds[d] # Nobody /\ fdOf[b] = d => b <= fds[d]

(* No interval passes before a monitor has started.                          *)
Fresh == \A b, c \in Connection : monitor[b] = "start" /\ b <= c => quiet[c] = 0

(* A connection is monitored until it is shut down, and its entry is not     *)
(* younger than the last KEEP_ALIVE that was read.                           *)
Monitored ==
    \A c \in Connection, d \in Fd : Open(c, d) =>
        /\ quiet[c] <= Timeout
        /\ monitor[c] \in {"start", "sleep", "look", "erase", "shutdown"}
        /\ monitor[c] = "sleep" => quiet[c] < Timeout
        /\ monitor[c] \in {"sleep", "look"} => quiet[c] <= age[d]

SInv == TypeOK /\ Accepted /\ Owners /\ Latest /\ Fresh /\ Monitored

-----------------------------------------------------------------------------
(* The library's shutdown and the types.                                    *)
LEMMA TypesStep == SInv /\ [Next]_vars => TypeOK'
  <1> SUFFICES ASSUME SInv, [Next]_vars PROVE TypeOK'
    OBVIOUS
  <1>0. /\ TypeOK
        /\ \A c \in Connection : listener[c] # "off" \/ monitor[c] # "off" => fdOf[c] \in Fd
    BY DEF SInv, Accepted
  <1>a. 0 \in 0 .. Timeout /\ Timeout \in 0 .. Timeout
    BY ConstantsAssumption
  <1>b. ASSUME NEW d \in Fd, NEW t \in {0, Timeout}, age' = [age EXCEPT ![d] = t]
        PROVE  age' \in [Fd -> 0 .. Timeout]
    BY <1>0, <1>a, <1>b DEF TypeOK
  <1>c. 0 \in 0 .. Timeout + 2 /\ 0 \in 0 .. Timeout - 1
    BY ConstantsAssumption
  <1> USE ConstantsAssumption, <1>0 DEF TypeOK, Connection, Nobody, sockets, peers, threads, history
  <1>1. CASE Tick
    <2>1. due' \subseteq Connection /\ quiet' \in [Connection -> 0 .. Timeout + 2]
      BY <1>1 DEF Tick
    <2>2. age' \in [Fd -> 0 .. Timeout]
      BY <1>1 DEF Tick
    <2>3. /\ monitor' \in [Connection -> {"off", "start", "sleep", "look", "erase",
                                          "shutdown", "done"}]
          /\ keeper' \in [Connection -> {"off", "sleep", "write", "shutdown", "done"}]
      BY <1>1 DEF Tick
    <2>4. held' \in [Connection -> 0 .. Timeout - 1]
      BY <1>1 DEF Tick
    <2> QED
      BY <1>1, <2>1, <2>2, <2>3, <2>4 DEF Tick
  <1>2. CASE Accept
    <2> DEFINE c == accepted + 1
    <2>1. c \in Connection /\ accepted' = c
      BY <1>2 DEF Accept
    <2>2. PICK d \in Fd :
             /\ fds[d] = Nobody
             /\ fds' = [fds EXCEPT ![d] = c]
             /\ fdOf' = [fdOf EXCEPT ![c] = d]
             /\ peer' = [peer EXCEPT ![c] = "alive"]
             /\ listener' = [listener EXCEPT ![c] = "read"]
             /\ monitor' = [monitor EXCEPT ![c] = "start"]
             /\ keeper' = [keeper EXCEPT ![c] = IF c \in Kept THEN "sleep" ELSE "off"]
             /\ followed' \subseteq followed \cup {c}
      BY <1>2 DEF Accept
    <2> HIDE DEF c
    <2>3. UNCHANGED <<shut, due, unread, quiet, age, target, held>>
      BY <1>2 DEF Accept
    <2>4. accepted' \in 0 .. MaxConnections
      BY <1>2 DEF Accept
    <2> QED
      BY <2>1, <2>2, <2>3, <2>4
  <1>3. ASSUME NEW c \in Connection, SendKeepAlive(c) PROVE TypeOK'
    BY <1>3 DEF SendKeepAlive
  <1>4. ASSUME NEW c \in Connection, Stop(c) PROVE TypeOK'
    BY <1>4 DEF Stop
  <1>5. ASSUME NEW c \in Connection, ListenerStep(c) PROVE TypeOK'
    <2>1. CASE EndOfFile(c)
      BY <1>5, <2>1 DEF EndOfFile
    <2>2. CASE KillSocket(c)
      <3>1. fdOf[c] \in Fd /\ age' = [age EXCEPT ![fdOf[c]] = Timeout]
        BY <2>2 DEF KillSocket
      <3>2. age' \in [Fd -> 0 .. Timeout]
        BY <1>b, <3>1
      <3> QED
        BY <1>5, <2>2, <3>2 DEF KillSocket
    <2>3. CASE Close(c)
      <3>1. /\ quiet' \in [Connection -> 0 .. Timeout + 2]
            /\ held' \in [Connection -> 0 .. Timeout - 1]
        BY <1>c, <2>3 DEF Close
      <3>2. shut' \subseteq {d \in Fd : fds'[d] # Nobody}
        BY <2>3 DEF Close
      <3>3. /\ fds' \in [Fd -> Connection \cup {Nobody}] /\ due' \subseteq Connection
            /\ peer' \in [Connection -> {"off", "alive", "silent", "gone"}]
            /\ listener' \in [Connection -> {"off", "read", "busy", "tell", "forget", "close",
                                             "done"}]
        BY <2>3 DEF Close
      <3>4. UNCHANGED <<accepted, fdOf, unread, age, monitor, keeper, target, followed>>
        BY <2>3 DEF Close
      <3> QED
        BY <3>1, <3>2, <3>3, <3>4
    <2>4. CASE ReadKeepAlive(c)
      <3>1. fdOf[c] \in Fd /\ age' = [age EXCEPT ![fdOf[c]] = 0]
        BY <2>4 DEF ReadKeepAlive
      <3>2. age' \in [Fd -> 0 .. Timeout]
        BY <1>b, <3>1
      <3>3. /\ held' \in [Connection -> 0 .. Timeout - 1]
            /\ quiet' \in [Connection -> 0 .. Timeout + 2] /\ unread' \subseteq Connection
        BY <1>c, <2>4 DEF ReadKeepAlive
      <3>4. UNCHANGED <<sockets, peer, due, threads, followed>>
        BY <2>4 DEF ReadKeepAlive
      <3> QED
        BY <3>2, <3>3, <3>4
    <2>5. CASE ReadPacket(c)
      BY <1>5, <2>5 DEF ReadPacket
    <2> QED
      BY <1>5, <2>1, <2>2, <2>3, <2>4, <2>5 DEF ListenerStep
  <1>6. ASSUME NEW c \in Connection, MonitorStep(c) PROVE TypeOK'
    <2>1. CASE Start(c)
      <3>1. fdOf[c] \in Fd /\ age' = [age EXCEPT ![fdOf[c]] = 0]
        BY <2>1 DEF Start
      <3>2. age' \in [Fd -> 0 .. Timeout]
        BY <1>b, <3>1
      <3> QED
        BY <1>6, <2>1, <3>2 DEF Start
    <2>2. CASE Look(c)
      BY <1>6, <2>2 DEF Look
    <2>3. CASE Erase(c)
      <3>1. fdOf[c] \in Fd /\ age' = [age EXCEPT ![fdOf[c]] = Timeout]
        BY <2>3 DEF Erase
      <3>2. age' \in [Fd -> 0 .. Timeout]
        BY <1>b, <3>1
      <3> QED
        BY <1>6, <2>3, <3>2 DEF Erase
    <2>4. CASE ShutTimedOut(c)
      <3>1. fdOf[c] \in Fd
        BY <2>4 DEF ShutTimedOut
      <3> QED
        BY <1>6, <2>4, <3>1 DEF ShutTimedOut, Shutdown
    <2> QED
      BY <1>6, <2>1, <2>2, <2>3, <2>4 DEF MonitorStep
  <1>7. ASSUME NEW c \in Connection, KeeperStep(c) PROVE TypeOK'
    <2>1. CASE Write(c)
      <3>1. PICK d \in Targets(c) :
               \/ keeper' = [keeper EXCEPT ![c] = "sleep"] /\ UNCHANGED target
               \/ keeper' = [keeper EXCEPT ![c] = "shutdown"] /\ target' = [target EXCEPT ![c] = d]
        BY <2>1 DEF Write
      <3>2. d \in Fd \cup {0}
        BY <3>1 DEF Targets
      <3>3. /\ keeper \in [Connection -> {"off", "sleep", "write", "shutdown", "done"}]
            /\ target \in [Connection -> Fd \cup {0}]
        OBVIOUS
      <3> HIDE DEF TypeOK
      <3>4. /\ keeper' \in [Connection -> {"off", "sleep", "write", "shutdown", "done"}]
            /\ target' \in [Connection -> Fd \cup {0}]
        BY <3>1, <3>2, <3>3
      <3> QED
        BY <2>1, <3>4 DEF Write, TypeOK
    <2>2. CASE ShutUnwritable(c)
      <3>1. target[c] \in Fd \cup {0} /\ fds' = fds
        BY <2>2 DEF ShutUnwritable
      <3>2. \/ shut' = shut
            \/ target[c] # 0 /\ fds[target[c]] # Nobody /\ shut' = shut \cup {target[c]}
        BY <2>2 DEF ShutUnwritable, Shutdown
      <3>3. shut' \subseteq {d \in Fd : fds'[d] # Nobody}
        BY <3>1, <3>2
      <3> QED
        BY <1>7, <2>2, <3>3 DEF ShutUnwritable
    <2> QED
      BY <1>7, <2>1, <2>2 DEF KeeperStep
  <1>8. ASSUME NEW c \in Connection, Serve(c) PROVE TypeOK'
    BY <1>8 DEF Serve, Unblock, Told
  <1>9. CASE UNCHANGED vars
    BY <1>9 DEF vars
  <1> QED
    BY <1>1, <1>2, <1>3, <1>4, <1>5, <1>6, <1>7, <1>8, <1>9 DEF Next

-----------------------------------------------------------------------------
(* Who owns what.                                                           *)

(* The steps that leave the descriptors to their owners.                     *)
LEMMA OwnersKept ==
    ASSUME SInv, UNCHANGED <<accepted, fds, fdOf, listener>>
    PROVE  Owners' /\ Latest'
  BY DEF SInv, Owners, Owns, Latest

(* Numbers change hands only in accept and close.                            *)
LEMMA OwnersStep == SInv /\ [Next]_vars => Accepted' /\ Owners' /\ Latest' /\ Fresh'
  <1> SUFFICES ASSUME SInv, [Next]_vars PROVE Accepted' /\ Owners' /\ Latest' /\ Fresh'
    OBVIOUS
  <1>0. /\ TypeOK /\ Accepted /\ Owners /\ Latest /\ Fresh
        /\ \A c \in Connection : listener[c] # "off" \/ monitor[c] # "off" => fdOf[c] \in Fd
    BY DEF SInv, Accepted
  <1>n. /\ Nobody \notin Connection /\ Nobody \notin Fd /\ 0 \notin Fd
        /\ \A c \in Connection : c \in Int /\ accepted \in Int
    BY <1>0 DEF Nobody, Connection, Fd, TypeOK
  <1> USE DEF sockets, peers, threads, history
  <1>1. CASE Tick
    <2>1. /\ UNCHANGED <<accepted, fds, fdOf, listener, peer>>
          /\ \A c \in Connection : monitor[c] \in {"off", "sleep", "done"}
          /\ \A c \in Connection : monitor'[c] = IF monitor[c] = "sleep" THEN "look" ELSE monitor[c]
          /\ \A c \in Connection : listener[c] = "off" => quiet'[c] = quiet[c]
      BY <1>0, <1>1 DEF Tick, TypeOK
    <2>2. Accepted' /\ Fresh'
      BY <1>0, <2>1 DEF Accepted, Fresh
    <2> QED
      BY <2>1, <2>2, OwnersKept
  <1>2. CASE Accept
    <2>1. PICK c \in Connection, d \in Fd :
             /\ c = accepted + 1 /\ accepted' = c /\ fds[d] = Nobody
             /\ fds' = [fds EXCEPT ![d] = c]
             /\ fdOf' = [fdOf EXCEPT ![c] = d]
             /\ peer' = [peer EXCEPT ![c] = "alive"]
             /\ listener' = [listener EXCEPT ![c] = "read"]
             /\ monitor' = [monitor EXCEPT ![c] = "start"]
             /\ quiet' = quiet
      <3>1. accepted + 1 \in Connection
        BY <1>0, <1>2, ConstantsAssumption DEF Accept, Connection, TypeOK
      <3> QED
        BY <1>2, <3>1 DEF Accept
    <2>2. /\ \A e \in Fd : fds'[e] = IF e = d THEN c ELSE fds[e]
          /\ \A b \in Connection :
                /\ fdOf'[b] = IF b = c THEN d ELSE fdOf[b]
                /\ peer'[b] = IF b = c THEN "alive" ELSE peer[b]
                /\ listener'[b] = IF b = c THEN "read" ELSE listener[b]
                /\ monitor'[b] = IF b = c THEN "start" ELSE monitor[b]
      BY <1>0, <2>1 DEF TypeOK
    <2>3. \A b \in Connection : b <= c <=> (b = c \/ b <= accepted)
      BY <1>n, <2>1
    <2>4. listener[c] = "off" /\ fdOf[c] = 0 /\ quiet[c] = 0 /\ ~(c <= accepted)
      BY <1>0, <1>n, <2>1 DEF Accepted
    <2>5. \A e \in Fd : fds[e] \in Connection \cup {Nobody} /\ fds[e] # c
      BY <1>0, <1>n, <2>4 DEF TypeOK, Owners, Owns
    <2>6. Accepted'
      BY <1>0, <2>1, <2>2, <2>3 DEF Accepted
    <2>7. Owners'
      BY <1>0, <1>n, <2>1, <2>2, <2>5 DEF Owners, Owns
    <2>8. Latest'
      <3>1. \A b \in Connection : fdOf[b] \in Fd => b <= accepted
        BY <1>0, <1>n DEF Accepted
      <3> QED
        BY <1>0, <1>n, <2>1, <2>2, <2>3, <2>5, <3>1 DEF Latest
    <2>9. Fresh'
      <3>1. \A b \in Connection : c <= b => quiet[b] = 0
        BY <1>0, <1>n, <2>1 DEF Accepted
      <3> QED
        BY <1>0, <2>1, <2>2, <3>1 DEF Fresh
    <2> QED
      BY <2>6, <2>7, <2>8, <2>9
  <1>3. ASSUME NEW c \in Connection, SendKeepAlive(c) \/ Stop(c)
        PROVE  Accepted' /\ Owners' /\ Latest' /\ Fresh'
    <2>1. /\ UNCHANGED <<accepted, fds, fdOf, listener, monitor>>
          /\ quiet' = quiet
          /\ \A b \in Connection : peer[b] = "off" => peer'[b] = "off"
      BY <1>0, <1>3 DEF SendKeepAlive, Stop, TypeOK
    <2>2. Accepted' /\ Fresh'
      BY <1>0, <2>1 DEF Accepted, Fresh
    <2> QED
      BY <2>1, <2>2, OwnersKept
  <1>4. ASSUME NEW c \in Connection, ListenerStep(c) \/ Serve(c)
        PROVE  Accepted' /\ Owners' /\ Latest' /\ Fresh'
    <2> DEFINE Rest == /\ UNCHANGED <<accepted, fdOf, monitor>>
                       /\ \A a \in Connection :
                             a # c => listener'[a] = listener[a] /\ peer'[a] = peer[a]
                       /\ \A a \in Connection : quiet'[a] = quiet[a] \/ quiet'[a] = 0
               Stays == Owns(c) /\ Owns(c)' /\ UNCHANGED fds
               Leaves == /\ Owns(c) /\ listener'[c] = "done"
                         /\ \A d \in Fd : fds'[d] = IF d = fdOf[c] THEN Nobody ELSE fds[d]
    <2>a. ReadKeepAlive(c) => Rest /\ Stays
      BY <1>0 DEF ReadKeepAlive, TypeOK, Owns
    <2>b. ReadPacket(c) \/ EndOfFile(c) \/ KillSocket(c) \/ Serve(c) => Rest /\ Stays
      BY <1>0 DEF ReadPacket, EndOfFile, KillSocket, Serve, Unblock, Told, TypeOK, Owns
    <2>c. Close(c) => Rest /\ Leaves
      BY <1>0 DEF Close, TypeOK, Owns
    <2>1. /\ Owns(c) /\ fdOf[c] \in Fd /\ UNCHANGED <<accepted, fdOf, monitor>>
          /\ \A b \in Connection : b # c => listener'[b] = listener[b] /\ peer'[b] = peer[b]
          /\ \A b \in Connection : quiet'[b] = quiet[b] \/ quiet'[b] = 0
          /\ \/ Owns(c)' /\ UNCHANGED fds
             \/ /\ listener'[c] = "done"
                /\ \A d \in Fd : fds'[d] = IF d = fdOf[c] THEN Nobody ELSE fds[d]
      BY <1>0, <1>4, <2>a, <2>b, <2>c DEF ListenerStep, Owns
    <2>2. c <= accepted /\ fds[fdOf[c]] = c
      BY <1>0, <2>1 DEF Accepted, Owners, Owns
    <2>3. Accepted' /\ Fresh'
      BY <1>0, <2>1, <2>2 DEF Accepted, Fresh
    <2>4. \A d \in Fd : fds[d] \in Connection \cup {Nobody}
      BY <1>0 DEF TypeOK
    <2>5. Owners'
      <3>1. \A b \in Connection : Owns(b)' => Owns(b)
        BY <2>1 DEF Owns
      <3>2. \A b \in Connection : Owns(b) => fdOf[b] \in Fd
        BY <1>0 DEF Owns
      <3>3. CASE UNCHANGED fds
        BY <1>0, <2>1, <2>4, <3>1, <3>3 DEF Owners, Owns
      <3>4. CASE /\ listener'[c] = "done"
                 /\ \A d \in Fd : fds'[d] = IF d = fdOf[c] THEN Nobody ELSE fds[d]
        BY <1>0, <1>n, <2>1, <2>2, <2>4, <3>1, <3>2, <3>4 DEF Owners, Owns
      <3> QED
        BY <2>1, <3>3, <3>4
    <2>6. Latest'
      BY <1>0, <2>1 DEF Latest
    <2> QED
      BY <2>3, <2>5, <2>6
  <1>5. ASSUME NEW c \in Connection, MonitorStep(c)
        PROVE  Accepted' /\ Owners' /\ Latest' /\ Fresh'
    <2>1. /\ UNCHANGED <<accepted, fds, fdOf, listener, peer, quiet>> /\ monitor[c] # "off"
          /\ \A b \in Connection : b # c => monitor'[b] = monitor[b]
          /\ monitor'[c] # "start"
      BY <1>0, <1>5 DEF MonitorStep, Start, Look, Erase, ShutTimedOut, TypeOK
    <2>2. Accepted' /\ Fresh'
      BY <1>0, <2>1 DEF Accepted, Fresh
    <2> QED
      BY <2>1, <2>2, OwnersKept
  <1>6. ASSUME NEW c \in Connection, KeeperStep(c)
        PROVE  Accepted' /\ Owners' /\ Latest' /\ Fresh'
    <2>1. UNCHANGED <<accepted, fds, fdOf, listener, peer, quiet, monitor>>
      BY <1>6 DEF KeeperStep, Write, ShutUnwritable
    <2>2. Accepted' /\ Fresh'
      BY <1>0, <2>1 DEF Accepted, Fresh
    <2> QED
      BY <2>1, <2>2, OwnersKept
  <1>7. CASE UNCHANGED vars
    <2>1. UNCHANGED <<accepted, fds, fdOf, listener, peer, quiet, monitor>>
      BY <1>7 DEF vars
    <2>2. Accepted' /\ Fresh'
      BY <1>0, <2>1 DEF Accepted, Fresh
    <2> QED
      BY <2>1, <2>2, OwnersKept
  <1> QED
    BY <1>1, <1>2, <1>3, <1>4, <1>5, <1>6, <1>7 DEF Next

-----------------------------------------------------------------------------
(* A silent peer.                                                           *)
LEMMA MonitoredStep == SInv /\ [Next]_vars => Monitored'
  <1> SUFFICES ASSUME SInv, [Next]_vars PROVE Monitored'
    OBVIOUS
  <1>0. /\ TypeOK /\ Owners /\ Latest /\ Fresh /\ Monitored
        /\ \A c \in Connection : listener[c] # "off" \/ monitor[c] # "off" => fdOf[c] \in Fd
        /\ \A c \in Connection, d \in Fd : fds[d] = c => fdOf[c] = d
    BY DEF SInv, Accepted, Owners, Nobody, Connection
  <1>t. /\ Timeout \in Nat /\ 0 < Timeout
        /\ \A c \in Connection : quiet[c] \in Int /\ 0 <= quiet[c]
        /\ \A d \in Fd : age[d] \in Int /\ 0 <= age[d] /\ age[d] <= Timeout
    BY <1>0, ConstantsAssumption DEF TypeOK
  <1> USE DEF sockets, peers, threads, history
  <1>1. CASE Tick
    <2>1. /\ UNCHANGED <<fds, shut>>
          /\ \A c \in Connection : monitor[c] \in {"off", "sleep", "done"}
          /\ \A c \in Connection : monitor'[c] = IF monitor[c] = "sleep" THEN "look" ELSE monitor[c]
          /\ \A c \in Connection : quiet'[c] = quiet[c] \/ quiet'[c] = quiet[c] + 1
          /\ \A d \in Fd : age'[d] = IF age[d] < Timeout THEN age[d] + 1 ELSE Timeout
      BY <1>0, <1>1 DEF Tick, TypeOK
    <2> SUFFICES ASSUME NEW c \in Connection, NEW d \in Fd, Open(c, d)'
                 PROVE  quiet'[c] <= Timeout /\ monitor'[c] = "look" /\ quiet'[c] <= age'[d]
      BY DEF Monitored
    <2>2. monitor[c] = "sleep" /\ quiet[c] < Timeout /\ quiet[c] <= age[d]
      BY <1>0, <2>1 DEF Monitored, Open
    <2> QED
      BY <1>t, <2>1, <2>2
  <1>2. CASE Accept
    <2>1. PICK c \in Connection, d \in Fd :
             /\ c = accepted + 1
             /\ fds' = [fds EXCEPT ![d] = c]
             /\ monitor' = [monitor EXCEPT ![c] = "start"]
             /\ UNCHANGED <<shut, quiet, age>>
      <3>1. accepted + 1 \in Connection
        BY <1>0, <1>2, ConstantsAssumption DEF Accept, Connection, TypeOK
      <3> QED
        BY <1>2, <3>1 DEF Accept
    <2>2. /\ \A e \in Fd : fds'[e] = IF e = d THEN c ELSE fds[e]
          /\ \A b \in Connection : monitor'[b] = IF b = c THEN "start" ELSE monitor[b]
      BY <1>0, <2>1 DEF TypeOK
    <2>3. quiet[c] = 0 /\ listener[c] = "off"
      BY <2>1 DEF SInv, TypeOK, Accepted
    <2>4. \A e \in Fd : fds[e] # c
      BY <1>0, <2>3 DEF Owners, Owns, Nobody, Connection
    <2> QED
      BY <1>0, <1>t, <2>1, <2>2, <2>3, <2>4 DEF Monitored, Open
  <1>3. ASSUME NEW c \in Connection, ReadKeepAlive(c) PROVE Monitored'
    <2>1. /\ UNCHANGED <<fds, shut, monitor>> /\ Owns(c)
          /\ \A b \in Connection : quiet'[b] = IF b = c THEN 0 ELSE quiet[b]
          /\ \A d \in Fd : age'[d] = IF d = fdOf[c] THEN 0 ELSE age[d]
      BY <1>0, <1>3 DEF ReadKeepAlive, TypeOK, Owns
    <2>2. \A b \in Connection, d \in Fd : Open(b, d) => (d = fdOf[c] <=> b = c)
      BY <1>0, <2>1 DEF Open, Owners
    <2> QED
      BY <1>0, <1>t, <2>1, <2>2 DEF Monitored, Open
  <1>4. ASSUME NEW c \in Connection, KillSocket(c) PROVE Monitored'
    <2>1. /\ UNCHANGED <<fds, shut, quiet, monitor>>
          /\ \A d \in Fd : age'[d] = age[d] \/ age'[d] = Timeout
      BY <1>0, <1>4 DEF KillSocket, TypeOK
    <2> QED
      BY <1>0, <1>t, <2>1 DEF Monitored, Open
  <1>12. ASSUME NEW c \in Connection, Close(c) PROVE Monitored'
    <2>1. /\ Owns(c) /\ fdOf[c] \in Fd /\ UNCHANGED <<monitor, age>>
          /\ \A b \in Connection : b # c => quiet'[b] = quiet[b]
          /\ \A d \in Fd : d = fdOf[c] => fds'[d] = Nobody
          /\ \A d \in Fd : d # fdOf[c] => (fds'[d] = fds[d] /\ (d \in shut' <=> d \in shut))
      BY <1>0, <1>12 DEF Close, TypeOK, Owns
    <2>2. \A b \in Connection, d \in Fd : Open(b, d)' => Open(b, d) /\ b # c
      BY <1>0, <2>1 DEF Open, Nobody, Connection
    <2> QED
      BY <1>0, <1>t, <2>1, <2>2 DEF Monitored, Open
  <1>5. ASSUME NEW c \in Connection, Start(c) PROVE Monitored'
    <2>1. /\ UNCHANGED <<fds, shut, quiet>> /\ monitor[c] = "start" /\ fdOf[c] \in Fd
          /\ \A b \in Connection : monitor'[b] = IF b = c THEN "sleep" ELSE monitor[b]
          /\ \A d \in Fd : age'[d] = IF d = fdOf[c] THEN 0 ELSE age[d]
      BY <1>0, <1>5 DEF Start, TypeOK
    <2>2. \A b \in Connection, d \in Fd : Open(b, d) /\ (b = c \/ d = fdOf[c]) => quiet[b] = 0
      <3> SUFFICES ASSUME NEW b \in Connection, NEW d \in Fd, Open(b, d), b = c \/ d = fdOf[c]
                   PROVE  quiet[b] = 0
        OBVIOUS
      <3>1. c <= b
        BY <1>0 DEF Open, Latest, Nobody, Connection
      <3> QED
        BY <1>0, <2>1, <3>1 DEF Fresh
    <2> QED
      BY <1>0, <1>t, <2>1, <2>2 DEF Monitored, Open
  <1>6. ASSUME NEW c \in Connection, Look(c) PROVE Monitored'
    <2>1. /\ UNCHANGED <<fds, shut, quiet, age>> /\ monitor[c] = "look" /\ fdOf[c] \in Fd
          /\ \A b \in Connection : monitor'[b] =
                IF b = c THEN (IF age[fdOf[c]] < Timeout THEN "sleep" ELSE "erase") ELSE monitor[b]
      BY <1>0, <1>6 DEF Look, TypeOK
    <2>2. \A d \in Fd : Open(c, d) => d = fdOf[c]
      BY <1>0 DEF Open
    <2> QED
      BY <1>0, <1>t, <2>1, <2>2 DEF Monitored, Open
  <1>7. ASSUME NEW c \in Connection, Erase(c) PROVE Monitored'
    <2>1. /\ UNCHANGED <<fds, shut, quiet>> /\ monitor[c] = "erase"
          /\ \A b \in Connection : monitor'[b] = IF b = c THEN "shutdown" ELSE monitor[b]
          /\ \A d \in Fd : age'[d] = age[d] \/ age'[d] = Timeout
      BY <1>0, <1>7 DEF Erase, TypeOK
    <2> QED
      BY <1>0, <1>t, <2>1 DEF Monitored, Open
  <1>8. ASSUME NEW c \in Connection, ShutTimedOut(c) PROVE Monitored'
    <2>1. /\ UNCHANGED <<fds, quiet, age>> /\ monitor[c] = "shutdown" /\ fdOf[c] \in Fd
          /\ \A b \in Connection : monitor'[b] = IF b = c THEN "done" ELSE monitor[b]
          /\ shut \subseteq shut' /\ (fds[fdOf[c]] # Nobody => fdOf[c] \in shut')
      BY <1>0, <1>8 DEF ShutTimedOut, Shutdown, TypeOK
    <2>2. \A d \in Fd : ~Open(c, d)'
      BY <1>0, <2>1 DEF Open, Nobody, Connection
    <2> QED
      BY <1>0, <2>1, <2>2 DEF Monitored, Open
  <1>9. ASSUME NEW c \in Connection, KeeperStep(c) PROVE Monitored'
    <2>1. UNCHANGED <<fds, quiet, age, monitor>> /\ shut \subseteq shut'
      BY <1>9 DEF KeeperStep, Write, ShutUnwritable, Shutdown
    <2> QED
      BY <1>0, <2>1 DEF Monitored, Open
  <1>10. CASE \E c \in Connection : \/ SendKeepAlive(c) \/ Stop(c) \/ ReadPacket(c)
                                     \/ EndOfFile(c) \/ Serve(c)
    <2>1. UNCHANGED <<fds, shut, quiet, age, monitor>>
      BY <1>10 DEF SendKeepAlive, Stop, ReadPacket, EndOfFile, Serve, Unblock, Told
    <2> QED
      BY <1>0, <2>1 DEF Monitored, Open
  <1>11. CASE UNCHANGED vars
    BY <1>0, <1>11 DEF vars, Monitored, Open
  <1> QED
    BY <1>1, <1>2, <1>3, <1>4, <1>5, <1>6, <1>7, <1>8, <1>9, <1>10, <1>11, <1>12
    DEF Next, ListenerStep, MonitorStep

(* SInv is inductive.                                                        *)
LEMMA SInvariance == Spec => []SInv
  <1>1. Init => SInv
    <2> SUFFICES ASSUME Init PROVE SInv
      OBVIOUS
    <2>1. TypeOK
      BY ConstantsAssumption DEF Init, TypeOK, Connection, Fd, Nobody
    <2> QED
      BY <2>1, ConstantsAssumption
      DEF Init, SInv, Accepted, Owners, Owns, Latest, Fresh, Monitored, Open,
          Connection, Fd, Nobody
  <1>2. SInv /\ [Next]_vars => SInv'
    BY TypesStep, OwnersStep, MonitoredStep DEF SInv
  <1> QED
    BY <1>1, <1>2, PTL DEF Spec

(* Type correctness.                                                         *)
THEOREM TypeCorrect == Spec => []TypeOK
  <1>1. SInv => TypeOK
    BY DEF SInv
  <1> QED
    BY <1>1, SInvariance, PTL

(* A peer of which nothing was read for KEEP_ALIVE_TIMEOUT is disconnected in *)
(* the next interval (ConnectionMonitor::monitor, keepAliveSocketListener): no   *)
(* monitor of an earlier connection that goes by the same number can make    *)
(* its entry look young.                                                     *)
THEOREM SilenceIsNoticed == Spec => []SilentIsShut
  <1>1. SInv => SilentIsShut
    BY DEF SInv, Monitored, SilentIsShut
  <1> QED
    BY <1>1, SInvariance, PTL

-----------------------------------------------------------------------------
(* A peer that sends its KEEP_ALIVEs.                                       *)

(* Nobody is after the number of such a connection, it is still listened to, *)
(* and once it is monitored its entry is older than the ticks at which its   *)
(* listener was busy by no more than the KEEP_ALIVE that is under way.       *)
Cared(c, d) ==
    /\ d \notin shut /\ Shooting(d) = {} /\ listener[c] \in {"read", "busy"}
    /\ monitor[c] # "start" => age[d] <= held[c] + (IF c \in due \cup unread THEN 1 ELSE 0)

AInv == \A c \in Connection, d \in Fd :
            fds[d] = c /\ peer[c] = "alive" /\ c \notin followed /\ held[c] < Timeout - 1
                => Cared(c, d)

(* The steps that cannot make a number's entry older or start a shutdown.    *)
LEMMA CaredKept ==
    ASSUME SInv, NEW c \in Connection, NEW d \in Fd, Cared(c, d),
           d \in shut' => d \in shut, Shooting(d)' \subseteq Shooting(d),
           listener'[c] \in {"read", "busy"}, held'[c] = held[c],
           age'[d] = age[d], monitor'[c] = "start" \/ monitor[c] # "start",
           c \in (due \cup unread)' <=> c \in due \cup unread
    PROVE  Cared(c, d)'
  BY DEF Cared

(* Nothing that happens to a connection with an active peer endangers it.    *)
LEMMA CaredStep == SInv /\ AInv /\ [Next]_vars => AInv'
  <1> SUFFICES ASSUME SInv, AInv, [Next]_vars,
                      NEW c \in Connection, NEW d \in Fd,
                      fds'[d] = c, peer'[c] = "alive", c \notin followed',
                      held'[c] < Timeout - 1
               PROVE  Cared(c, d)'
    BY ConstantsAssumption DEF AInv, Connection, Fd
  <1>0. /\ TypeOK /\ Owners /\ Latest
        /\ \A b \in Connection : listener[b] # "off" \/ monitor[b] # "off" => fdOf[b] \in Fd
    BY DEF SInv, Accepted
  <1>n. Nobody \notin Connection
    BY DEF Nobody, Connection
  <1>t. /\ Timeout \in Nat /\ 2 < Timeout
        /\ age[d] \in Int /\ 0 <= age[d] /\ age[d] <= Timeout
        /\ held[c] \in Int /\ 0 <= held[c] /\ held[c] <= Timeout - 1
        /\ held'[c] \in Int
    BY <1>0, TypesStep, ConstantsAssumption DEF TypeOK
  <1> USE DEF sockets, peers, threads, history
  <1>1. CASE Accept
    <2>1. PICK b \in Connection, e \in Fd :
             /\ b = accepted + 1 /\ fds[e] = Nobody
             /\ fds' = [fds EXCEPT ![e] = b]
             /\ fdOf' = [fdOf EXCEPT ![b] = e]
             /\ peer' = [peer EXCEPT ![b] = "alive"]
             /\ listener' = [listener EXCEPT ![b] = "read"]
             /\ monitor' = [monitor EXCEPT ![b] = "start"]
             /\ keeper' = [keeper EXCEPT ![b] = IF b \in Kept THEN "sleep" ELSE "off"]
             /\ followed' = IF Shooting(e) # {} THEN followed \cup {b} ELSE followed
             /\ UNCHANGED <<shut, due, unread, age, target, held>>
      <3>1. accepted + 1 \in Connection
        BY <1>0, <1>1, ConstantsAssumption DEF Accept, Connection, TypeOK
      <3> QED
        BY <1>1, <3>1 DEF Accept
    <2>2. /\ \A q \in Fd : fds'[q] = IF q = e THEN b ELSE fds[q]
          /\ \A a \in Connection :
                /\ fdOf'[a] = IF a = b THEN e ELSE fdOf[a]
                /\ peer'[a] = IF a = b THEN "alive" ELSE peer[a]
                /\ listener'[a] = IF a = b THEN "read" ELSE listener[a]
                /\ monitor'[a] = IF a = b THEN "start" ELSE monitor[a]
                /\ a # b => keeper'[a] = keeper[a]
          /\ keeper'[b] # "shutdown"
      BY <1>0, <2>1 DEF TypeOK
    <2>3. \A q \in Fd : Shooting(q)' \subseteq Shooting(q)
      BY <2>1, <2>2 DEF Shooting
    <2>4. CASE c = b
      <3>1. d = e
        <4>1. listener[b] = "off"
          BY <1>0, <2>1 DEF SInv, TypeOK, Accepted
        <4>2. \A q \in Fd : fds[q] # b
          BY <1>0, <1>n, <4>1 DEF Owners, Owns
        <4> QED
          BY <2>2, <2>4, <4>2
      <3>2. d \notin shut
        BY <1>0, <2>1, <3>1 DEF TypeOK
      <3> QED
        BY <2>1, <2>2, <2>3, <2>4, <3>1, <3>2 DEF Cared
    <2>5. CASE c # b
      <3>1. fds[d] = c /\ peer[c] = "alive" /\ c \notin followed /\ held[c] < Timeout - 1
        BY <2>1, <2>2, <2>5
      <3>2. Cared(c, d)
        BY <3>1 DEF AInv
      <3> QED
        BY <2>1, <2>2, <2>3, <2>5, <3>2, CaredKept DEF Cared
    <2> QED
      BY <2>4, <2>5
  <1>2. CASE ~Accept
    <2>1. fds[d] = c /\ peer[c] = "alive" /\ c \notin followed
      <3>1. CASE \E b \in Connection : Close(b)
        <4>1. PICK b \in Connection : Close(b)
          BY <3>1
        <4>2. /\ \A q \in Fd : fds'[q] = IF q = fdOf[b] THEN Nobody ELSE fds[q]
              /\ \A a \in Connection : peer'[a] = IF a = b THEN "gone" ELSE peer[a]
              /\ followed' = followed
          BY <1>0, <4>1 DEF Close, TypeOK
        <4> QED
          BY <1>n, <4>2
      <3>2. CASE \E b \in Connection : Stop(b)
        <4>1. PICK b \in Connection, p \in {"silent", "gone"} :
                 peer' = [peer EXCEPT ![b] = p] /\ UNCHANGED <<fds, followed>>
          BY <3>2 DEF Stop
        <4>2. \A a \in Connection : peer'[a] = IF a = b THEN p ELSE peer[a]
          BY <1>0, <4>1 DEF TypeOK
        <4> QED
          BY <4>1, <4>2
      <3>3. CASE ~(\E b \in Connection : Close(b) \/ Stop(b))
        <4>1. UNCHANGED <<fds, peer>> /\ followed \subseteq followed'
          BY <1>2, <3>3
          DEF Next, Tick, SendKeepAlive, ListenerStep, ReadKeepAlive, ReadPacket, EndOfFile,
              KillSocket, Serve, Unblock, Told, MonitorStep, Start, Look, Erase, ShutTimedOut,
              KeeperStep, Write, ShutUnwritable, vars
        <4> QED
          BY <4>1
      <3> QED
        BY <3>1, <3>2, <3>3
    <2>o. fdOf[c] = d
      BY <1>0, <1>n, <2>1 DEF Owners
    <2>r. ASSUME NEW b \in Connection, ReadKeepAlive(b) PROVE Cared(c, d)'
      <3>2. /\ UNCHANGED <<shut, fdOf, due, listener, monitor, keeper, target>>
            /\ listener[b] = "read" /\ fdOf[b] \in Fd /\ unread' = unread \ {b}
            /\ age'[d] = IF fdOf[b] = d THEN 0 ELSE age[d]
            /\ held'[c] = IF Shooting(fdOf[b]) # {} \/ fdOf[b] \in shut \/ b # c THEN held[c] ELSE 0
        BY <1>0, <2>r DEF ReadKeepAlive, TypeOK
      <3>3. Shooting(d)' = Shooting(d)
        BY <3>2 DEF Shooting
      <3>4. CASE b = c
        <4>1. held[c] < Timeout - 1 \/ (Shooting(d) = {} /\ d \notin shut)
          BY <2>o, <3>2, <3>4
        <4>2. Shooting(d) = {} /\ d \notin shut
          BY <2>1, <4>1 DEF AInv, Cared
        <4>3. age'[d] = 0 /\ held'[c] \in Int /\ 0 <= held'[c]
          BY <1>t, <2>o, <3>2, <3>4
        <4> QED
          BY <3>2, <3>3, <3>4, <4>2, <4>3 DEF Cared
      <3>5. CASE b # c
        <4>1. fdOf[b] # d
          BY <1>0, <2>1, <3>2, <3>5 DEF Owners, Owns
        <4>2. held'[c] = held[c]
          BY <3>2, <3>5
        <4>3. Cared(c, d)
          BY <2>1, <4>2 DEF AInv
        <4> QED
          BY <3>2, <3>3, <3>5, <4>1, <4>2, <4>3, CaredKept DEF Cared
      <3> QED
        BY <3>4, <3>5
    <2> SUFFICES ASSUME ~(\E b \in Connection : ReadKeepAlive(b)) PROVE Cared(c, d)'
      BY <2>r
    <2>h. held[c] <= held'[c]
      <3>1. CASE Tick
        BY <1>0, <1>t, <3>1 DEF Tick, TypeOK
      <3>2. CASE \E b \in Connection : Close(b)
        <4>1. PICK b \in Connection : Close(b)
          BY <3>2
        <4>2. b # c
          BY <1>0, <1>n, <2>1, <4>1 DEF Close, Owners, Owns, TypeOK
        <4> QED
          BY <1>0, <1>t, <4>1, <4>2 DEF Close, TypeOK
      <3>3. CASE ~Tick /\ ~(\E b \in Connection : Close(b))
        <4>1. held' = held
          BY <1>2, <3>3
          DEF Next, SendKeepAlive, Stop, ListenerStep, ReadPacket, EndOfFile, KillSocket, Serve,
              Unblock, Told, MonitorStep, Start, Look, Erase, ShutTimedOut, KeeperStep, Write,
              ShutUnwritable, vars
        <4> QED
          BY <1>t, <4>1
      <3> QED
        BY <3>1, <3>2, <3>3
    <2>2. Cared(c, d) /\ fdOf[c] = d
      <3>1. held[c] < Timeout - 1
        BY <1>t, <2>h
      <3> QED
        BY <2>1, <2>o, <3>1 DEF AInv
    <2>c. \A b \in Connection : fdOf[b] = d /\ Owns(b) => b = c
      BY <1>0, <2>1 DEF Owners
    <2>3. CASE Tick
      <3>1. /\ due = {} /\ c \in due' /\ UNCHANGED <<shut, fdOf, unread, listener, target>>
            /\ listener[c] = "read" => c \notin unread
            /\ held'[c] = IF listener[c] = "busy" /\ held[c] < Timeout - 1
                          THEN held[c] + 1 ELSE held[c]
            /\ age'[d] = IF age[d] < Timeout THEN age[d] + 1 ELSE Timeout
            /\ \A b \in Connection : monitor[b] \in {"off", "sleep", "done"}
            /\ \A b \in Connection :
                  monitor'[b] = IF monitor[b] = "sleep" THEN "look" ELSE monitor[b]
            /\ \A b \in Connection :
                  keeper'[b] = IF keeper[b] = "sleep" THEN "write" ELSE keeper[b]
        BY <1>0, <2>1, <2>3 DEF Tick, TypeOK
      <3>2. Shooting(d)' \subseteq Shooting(d)
        BY <3>1 DEF Shooting
      <3>3. held[c] < Timeout - 1
        BY <1>t, <2>h
      <3>4. monitor'[c] # "start" /\ monitor[c] # "start"
        BY <3>1
      <3>5. age'[d] <= held'[c] + 1
        BY <1>t, <2>2, <3>1, <3>3, <3>4 DEF Cared
      <3> QED
        BY <1>t, <2>2, <3>1, <3>2, <3>5 DEF Cared
    <2>4. ASSUME NEW b \in Connection, SendKeepAlive(b) PROVE Cared(c, d)'
      <3>1. /\ (due \cup unread)' = due \cup unread
            /\ UNCHANGED <<shut, fdOf, listener, monitor, keeper, target, age, held>>
        BY <2>4 DEF SendKeepAlive
      <3>2. Shooting(d)' = Shooting(d)
        BY <3>1 DEF Shooting
      <3> QED
        BY <2>2, <3>1, <3>2, CaredKept DEF Cared
    <2>5. ASSUME NEW b \in Connection, Stop(b) PROVE Cared(c, d)'
      <3>1. /\ due' = due \ {b} /\ b # c
            /\ UNCHANGED <<shut, fdOf, unread, listener, monitor, keeper, target, age, held>>
        BY <1>0, <2>5 DEF Stop, TypeOK
      <3>2. Shooting(d)' = Shooting(d)
        BY <3>1 DEF Shooting
      <3> QED
        BY <2>2, <3>1, <3>2, CaredKept DEF Cared
    <2>6. ASSUME NEW b \in Connection, EndOfFile(b) \/ KillSocket(b) \/ Close(b)
          PROVE  Cared(c, d)'
      <3>1. Owns(b) /\ b # c
        <4>1. Owns(b)
          BY <2>6 DEF EndOfFile, KillSocket, Close, Owns
        <4>2. CASE b = c
          BY <2>1, <2>2, <2>6, <4>2 DEF Cared, EndOfFile, KillSocket, Close
        <4> QED
          BY <4>1, <4>2
      <3>2. fdOf[b] # d /\ fdOf[b] \in Fd
        BY <1>0, <2>c, <3>1 DEF Owns
      <3>3. /\ UNCHANGED <<fdOf, monitor, keeper, target>>
            /\ listener'[c] = listener[c] /\ age'[d] = age[d] /\ (d \in shut' => d \in shut)
            /\ (c \in (due \cup unread)' <=> c \in due \cup unread) /\ held'[c] = held[c]
        BY <1>0, <2>6, <3>1, <3>2 DEF EndOfFile, KillSocket, Close, TypeOK
      <3>4. Shooting(d)' = Shooting(d)
        BY <3>3 DEF Shooting
      <3> QED
        BY <2>2, <3>3, <3>4, CaredKept DEF Cared
    <2>p. ASSUME NEW b \in Connection, ReadPacket(b) \/ Serve(b) PROVE Cared(c, d)'
      <3>1. UNCHANGED <<shut, fdOf, due, unread, monitor, keeper, target, age, held>>
        BY <2>p DEF ReadPacket, Serve, Unblock, Told
      <3>2. Shooting(d)' = Shooting(d)
        BY <3>1 DEF Shooting
      <3>3. listener'[c] \in {"read", "busy"}
        BY <1>0, <2>2, <2>p DEF Cared, ReadPacket, Serve, Unblock, Told, TypeOK
      <3> QED
        BY <2>2, <3>1, <3>2, <3>3, CaredKept
    <2>7. ASSUME NEW b \in Connection, MonitorStep(b) PROVE Cared(c, d)'
      <3>0. /\ UNCHANGED <<fdOf, listener, keeper, target, due, unread, held>>
            /\ fdOf[b] \in Fd
        BY <1>0, <2>7 DEF MonitorStep, Start, Look, Erase, ShutTimedOut
      <3>a. fdOf[b] = d => monitor[b] \notin {"erase", "shutdown"}
        BY <2>2 DEF Cared, Shooting
      <3>1. CASE Start(b)
        <4>1. /\ \A a \in Connection : monitor'[a] = IF a = b THEN "sleep" ELSE monitor[a]
              /\ age'[d] = IF fdOf[b] = d THEN 0 ELSE age[d]
              /\ shut' = shut
          BY <1>0, <3>1 DEF Start, TypeOK
        <4>2. Shooting(d)' \subseteq Shooting(d)
          BY <3>0, <4>1 DEF Shooting
        <4> QED
          BY <1>t, <2>2, <3>0, <4>1, <4>2 DEF Cared
      <3>2. CASE Look(b)
        <4>1. /\ monitor[b] = "look" /\ UNCHANGED <<age, shut>>
              /\ \A a \in Connection : monitor'[a] =
                    IF a = b THEN (IF age[fdOf[b]] < Timeout THEN "sleep" ELSE "erase")
                    ELSE monitor[a]
          BY <1>0, <3>2 DEF Look, TypeOK
        <4>2. fdOf[b] = d => age[d] < Timeout
          <5>1. CASE monitor[c] = "start"
            <6>1. c \notin {a \in Connection :
                      fds[fdOf[b]] = a /\ monitor[a] = "start" /\ age[fdOf[b]] = Timeout}
              BY <3>2 DEF Look
            <6> QED
              BY <1>t, <2>1, <5>1, <6>1
          <5>2. CASE monitor[c] # "start"
            BY <1>t, <2>2, <2>h, <3>0, <5>2 DEF Cared
          <5> QED
            BY <5>1, <5>2
        <4>3. Shooting(d)' \subseteq Shooting(d)
          BY <3>0, <4>1, <4>2 DEF Shooting
        <4> QED
          BY <2>2, <3>0, <4>1, <4>3 DEF Cared
      <3>3. CASE Erase(b) \/ ShutTimedOut(b)
        <4>1. /\ monitor[b] \in {"erase", "shutdown"}
              /\ monitor'[b] \in {"shutdown", "done"}
              /\ \A a \in Connection : a # b => monitor'[a] = monitor[a]
          BY <1>0, <3>3 DEF Erase, ShutTimedOut, TypeOK
        <4>2. fdOf[b] # d /\ b # c
          BY <2>2, <3>a, <4>1
        <4>3. age'[d] = age[d] /\ (d \in shut' => d \in shut)
          BY <1>0, <3>0, <3>3, <4>2 DEF Erase, ShutTimedOut, Shutdown, TypeOK
        <4>4. Shooting(d)' \subseteq Shooting(d)
          BY <3>0, <4>1, <4>2 DEF Shooting
        <4> QED
          BY <2>2, <3>0, <4>1, <4>2, <4>3, <4>4, CaredKept DEF Cared
      <3> QED
        BY <2>7, <3>1, <3>2, <3>3 DEF MonitorStep
    <2>8. ASSUME NEW b \in Connection, KeeperStep(b) PROVE Cared(c, d)'
      <3>0. UNCHANGED <<fdOf, listener, monitor, age, due, unread, held>>
        BY <2>8 DEF KeeperStep, Write, ShutUnwritable
      <3>1. CASE Write(b)
        <4>1. PICK e \in Targets(b) :
                 \/ keeper' = [keeper EXCEPT ![b] = "sleep"] /\ UNCHANGED target
                 \/ /\ CanFail(e)
                    /\ keeper' = [keeper EXCEPT ![b] = "shutdown"]
                    /\ target' = [target EXCEPT ![b] = e]
          BY <3>1 DEF Write
        <4>2. ~CanFail(d)
          BY <1>n, <2>1, <2>2 DEF CanFail, Writable, Cared
        <4>3. \A a \in Connection :
                 /\ a # b => keeper'[a] = keeper[a] /\ target'[a] = target[a]
                 /\ keeper'[a] = "shutdown" /\ target'[a] = d => a # b
          BY <1>0, <4>1, <4>2 DEF TypeOK
        <4>4. Shooting(d)' \subseteq Shooting(d)
          BY <3>0, <4>3 DEF Shooting
        <4>5. shut' = shut
          BY <3>1 DEF Write
        <4> QED
          BY <2>2, <3>0, <4>4, <4>5, CaredKept DEF Cared
      <3>2. CASE ShutUnwritable(b)
        <4>1. target[b] # d
          BY <2>2, <3>2 DEF Cared, Shooting, ShutUnwritable
        <4>2. d \in shut' => d \in shut
          BY <3>2, <4>1 DEF ShutUnwritable, Shutdown
        <4>3. /\ keeper'[b] = "done"
              /\ \A a \in Connection : a # b => keeper'[a] = keeper[a] /\ target'[a] = target[a]
          BY <1>0, <3>2 DEF ShutUnwritable, TypeOK
        <4>4. Shooting(d)' \subseteq Shooting(d)
          BY <3>0, <4>3 DEF Shooting
        <4> QED
          BY <2>2, <3>0, <4>2, <4>4, CaredKept DEF Cared
      <3> QED
        BY <2>8, <3>1, <3>2 DEF KeeperStep
    <2>9. CASE UNCHANGED vars
      <3>1. UNCHANGED <<shut, listener, age, monitor, due, unread, fdOf, keeper, target, held>>
        BY <2>9 DEF vars
      <3>2. Shooting(d)' = Shooting(d)
        BY <3>1 DEF Shooting
      <3> QED
        BY <2>2, <3>1, <3>2, CaredKept DEF Cared
    <2> QED
      BY <1>2, <2>3, <2>4, <2>5, <2>6, <2>p, <2>7, <2>8, <2>9 DEF Next, ListenerStep
  <1> QED
    BY <1>1, <1>2

(* A peer that sends its KEEP_ALIVEs is disconnected only if its listener    *)
(* comes to read none for KEEP_ALIVE_TIMEOUT (busy at all its ticks but one, *)
(* ProxyFE.cpp:545 and 565: true of a client that has sent something to a    *)
(* front end without a server), or if a monitor or a keeper of an earlier    *)
(* connection was after its number already when accept returned it, or       *)
(* decided so before its own monitor had set the entry                       *)
(* (ConnectionMonitor::keepsMonitoringConnection, ConnectionKeeper): there   *)
(* is no later moment at which its number can be shut down.                  *)
THEOREM ShutOnlyForAReason == Spec => []ShutForAReason
  <1>1. Init => AInv
    BY DEF Init, AInv, Connection, Nobody
  <1>2. SInv /\ AInv => ShutForAReason
    <2> SUFFICES ASSUME SInv, AInv, NEW c \in Connection, NEW d \in Fd,
                        fds[d] = c, peer[c] = "alive", d \in shut, c \notin followed
                 PROVE  held[c] = Timeout - 1
      BY DEF ShutForAReason
    <2>1. held[c] \in 0 .. Timeout - 1
      BY DEF SInv, TypeOK
    <2>2. ~(held[c] < Timeout - 1)
      BY DEF AInv, Cared
    <2> QED
      BY <2>1, <2>2, ConstantsAssumption
  <1> QED
    BY <1>1, <1>2, CaredStep, SInvariance, PTL DEF Spec
=============================================================================
