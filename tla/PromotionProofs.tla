-------------------------- MODULE PromotionProofs ---------------------------
(***************************************************************************)
(* Proofs about a server that starts to serve, for any number of front     *)
(* ends, whichever of them die or are timed out while it connects and      *)
(* starts the threads: every thread of a front end gets its own address,   *)
(* and what the server accepts is shown.                                   *)
(***************************************************************************)
EXTENDS Promotion, TLAPS

Starting(f, t) == thread[f][t] = "start"

(* A thread that has not copied its address yet holds the semaphore for main, *)
(* so there is one at most, and the block is its own.                         *)
BlockInUse ==
    /\ permits = 1 => \A f \in FE, t \in Thread : ~Starting(f, t)
    /\ \A f, g \in FE, t, u \in Thread : Starting(f, t) /\ Starting(g, u) => f = g /\ t = u

(* While threads are started the list stays as it is, and the two threads of  *)
(* an FE are started with one block.                                          *)
SameAddress ==
    /\ main \in {"listener", "monitor"} => locked
    /\ main = "monitor" => args = feAddresses[i]

Tables ==
    /\ permits \in {0, 1}
    /\ thread \in [FE -> [Thread -> {"off", "start", "run", "check", "purge", "done"}]]
    /\ own \in [FE -> [Thread -> FE \cup {None}]]

IInv == Tables /\ BlockInUse /\ SameAddress /\ OwnAddress

-----------------------------------------------------------------------------
(* No thread has been started yet.                                           *)
LEMMA InitEstablishes == Init => IInv
  BY DEF Init, IInv, Tables, BlockInUse, SameAddress, OwnAddress, Starting, None

(* Steps of main that start no thread, the ring, the consumer and packets.   *)
LEMMA HandoverKept ==
    ASSUME IInv, UNCHANGED handover, main' = "monitor" => main = "monitor",
           main' \in {"listener", "monitor"} => locked',
           main = "monitor" => UNCHANGED <<feAddresses, i>>
    PROVE  IInv'
  BY DEF IInv, Tables, BlockInUse, SameAddress, OwnAddress, Starting, handover

(* main puts the address of a front end into the block for its listener.     *)
LEMMA SpawnListenerKeeps == IInv /\ SpawnListener => IInv'
  <1> SUFFICES ASSUME IInv, SpawnListener PROVE IInv'
    OBVIOUS
  <1> DEFINE f == feAddresses[i]
  <1>1. \A g \in FE, t \in Thread : ~Starting(g, t)
    BY DEF IInv, Tables, BlockInUse, SpawnListener
  <1>2. permits' = 0 /\ args' = f /\ main' = "monitor" /\ own' = own
    BY DEF IInv, Tables, SpawnListener
  <1>3. \A g \in FE, t \in Thread :
            thread'[g][t] = IF g = f /\ t = "listener" THEN "start" ELSE thread[g][t]
    BY DEF IInv, Tables, SpawnListener, Thread
  <1>4. Tables'
    BY <1>2 DEF IInv, Tables, SpawnListener, Thread
  <1>5. BlockInUse'
    BY <1>1, <1>2, <1>3 DEF BlockInUse, Starting
  <1>6. OwnAddress'
    BY <1>1, <1>2, <1>3 DEF IInv, OwnAddress, Starting
  <1>7. SameAddress'
    BY <1>2 DEF IInv, SameAddress, SpawnListener, connections
  <1> QED
    BY <1>4, <1>5, <1>6, <1>7 DEF IInv

(* And for its monitor, the same one.                                        *)
LEMMA SpawnMonitorKeeps == IInv /\ SpawnMonitor => IInv'
  <1> SUFFICES ASSUME IInv, SpawnMonitor PROVE IInv'
    OBVIOUS
  <1> DEFINE f == feAddresses[i]
  <1>1. \A g \in FE, t \in Thread : ~Starting(g, t)
    BY DEF IInv, Tables, BlockInUse, SpawnMonitor
  <1>2. permits' = 0 /\ args' = f /\ own' = own
    BY DEF IInv, Tables, SameAddress, SpawnMonitor
  <1>3. \A g \in FE, t \in Thread :
            thread'[g][t] = IF g = f /\ t = "monitor" THEN "start" ELSE thread[g][t]
    BY DEF IInv, Tables, SpawnMonitor, Thread
  <1>4. Tables'
    BY <1>2 DEF IInv, Tables, SpawnMonitor, Thread
  <1>5. BlockInUse'
    BY <1>1, <1>2, <1>3 DEF BlockInUse, Starting
  <1>6. OwnAddress'
    BY <1>1, <1>2, <1>3 DEF IInv, OwnAddress, Starting
  <1>7. SameAddress'
    <2>1. main = "monitor" /\ locked
      BY DEF IInv, SameAddress, SpawnMonitor
    <2>2. CASE i = Len(feAddresses)
      BY <2>2 DEF SameAddress, SpawnMonitor
    <2>3. CASE i # Len(feAddresses)
      BY <2>1, <2>3 DEF SameAddress, SpawnMonitor
    <2> QED
      BY <2>2, <2>3
  <1> QED
    BY <1>4, <1>5, <1>6, <1>7 DEF IInv

(* A thread copies the block that main filled for it.                        *)
LEMMA CopyArgsKeeps ==
    ASSUME IInv, NEW f \in FE, NEW t \in Thread, CopyArgs(f, t)
    PROVE  IInv'
  <1>1. Starting(f, t) /\ args = f /\ permits = 0
    BY DEF IInv, Tables, BlockInUse, OwnAddress, CopyArgs, Starting
  <1>2. permits' = 1 /\ args' = args
    BY <1>1 DEF CopyArgs
  <1>3. \A g \in FE, u \in Thread :
            /\ thread'[g][u] = IF g = f /\ u = t THEN "run" ELSE thread[g][u]
            /\ own'[g][u] = IF g = f /\ u = t THEN args ELSE own[g][u]
    BY DEF IInv, Tables, CopyArgs, Goto
  <1>4. Tables'
    BY <1>1, <1>2 DEF IInv, Tables, CopyArgs, Goto
  <1>5. BlockInUse'
    BY <1>1, <1>2, <1>3 DEF IInv, BlockInUse, Starting
  <1>6. OwnAddress'
    BY <1>1, <1>2, <1>3 DEF IInv, OwnAddress, Starting
  <1>7. SameAddress'
    BY DEF IInv, SameAddress, CopyArgs, connections
  <1> QED
    BY <1>4, <1>5, <1>6, <1>7 DEF IInv

(* A thread that runs moves on, and the list only when unlocked.              *)
LEMMA RunningKeeps ==
    ASSUME IInv, NEW f \in FE, NEW t \in Thread,
           NEW l \in {"run", "check", "purge", "done"},
           Goto(f, t, l), thread[f][t] \notin {"off", "start"},
           UNCHANGED <<permits, args, own, main, locked, i>>,
           locked => UNCHANGED feAddresses
    PROVE  IInv'
  <1>3. \A g \in FE, u \in Thread :
            thread'[g][u] = IF g = f /\ u = t THEN l ELSE thread[g][u]
    BY DEF IInv, Tables, Goto
  <1>4. Tables'
    BY DEF IInv, Tables, Goto
  <1>5. BlockInUse'
    BY <1>3 DEF IInv, BlockInUse, Starting
  <1>6. OwnAddress'
    BY <1>3 DEF IInv, OwnAddress, Starting
  <1>8. SameAddress'
    BY DEF IInv, SameAddress
  <1> QED
    BY <1>4, <1>5, <1>6, <1>8 DEF IInv

(* A message, and the end of an FE.                                          *)
LEMMA ClosingKeeps ==
    ASSUME IInv, NEW f \in FE, NEW t \in Thread,
           \/ ReceiveMessage(f) \/ TimeOut(f) \/ NoticeDeath(f, t)
           \/ CloseCheck(f, t) \/ PurgeFeConnection(f, t)
    PROVE  IInv'
  <1>1. CASE ReceiveMessage(f)
    <2>1. \E l \in {"run", "check", "purge", "done"} :
             Goto(f, "listener", l) /\ thread[f]["listener"] \notin {"off", "start"}
      BY <1>1 DEF ReceiveMessage
    <2>2. UNCHANGED <<permits, args, own, main, locked, i, feAddresses>>
      BY <1>1 DEF ReceiveMessage, connections
    <2> QED
      BY <2>1, <2>2, RunningKeeps DEF Thread
  <1>2. CASE TimeOut(f)
    <2>1. Goto(f, "monitor", "check") /\ thread[f]["monitor"] \notin {"off", "start"}
      BY <1>2 DEF TimeOut
    <2>2. UNCHANGED <<permits, args, own, main, locked, i, feAddresses>>
      BY <1>2 DEF TimeOut
    <2> QED
      BY <2>1, <2>2, RunningKeeps DEF Thread
  <1>3. CASE NoticeDeath(f, t) \/ CloseCheck(f, t) \/ PurgeFeConnection(f, t)
    <2>1. \E l \in {"run", "check", "purge", "done"} :
             Goto(f, t, l) /\ thread[f][t] \notin {"off", "start"}
      BY <1>3 DEF NoticeDeath, CloseCheck, PurgeFeConnection
    <2>2. /\ UNCHANGED <<permits, args, own, main, locked, i>>
          /\ locked => UNCHANGED feAddresses
      BY <1>3 DEF NoticeDeath, CloseCheck, PurgeFeConnection, connections
    <2> QED
      BY <2>1, <2>2, RunningKeeps
  <1> QED
    BY <1>1, <1>2, <1>3

(* main frees the block when no thread has still to copy it.                 *)
LEMMA FreeArgsKeeps == IInv /\ FreeArgs => IInv'
  <1> SUFFICES ASSUME IInv, FreeArgs PROVE IInv'
    OBVIOUS
  <1>1. \A f \in FE, t \in Thread : ~Starting(f, t)
    BY DEF IInv, Tables, BlockInUse, FreeArgs
  <1>2. UNCHANGED <<permits, thread, own>> /\ main' = "serving"
    BY DEF FreeArgs
  <1> QED
    BY <1>1, <1>2 DEF IInv, Tables, BlockInUse, SameAddress, OwnAddress, Starting

(* No step breaks the invariant.                                             *)
LEMMA StepKeeps == IInv /\ [Next]_vars => IInv'
  <1> SUFFICES ASSUME IInv, [Next]_vars PROVE IInv'
    OBVIOUS
  <1> USE DEF flags, connections, group
  <1>1. CASE Win \/ TellServer
    BY <1>1, HandoverKept DEF Win, TellServer, IInv, SameAddress
  <1>2. CASE MainStep
    <2>1. CASE ReadFlag \/ StoreFlag \/ WaitForPromotion
      BY <2>1, HandoverKept DEF ReadFlag, StoreFlag, WaitForPromotion
    <2>2. CASE ConnectToFE
      BY <2>2, HandoverKept DEF ConnectToFE
    <2>3. CASE LockAddresses
      BY <2>3, HandoverKept DEF LockAddresses
    <2> QED
      BY <1>2, <2>1, <2>2, <2>3, SpawnListenerKeeps, SpawnMonitorKeeps, FreeArgsKeeps
      DEF MainStep
  <1>3. CASE ConsumerStep \/ ApplyReplicated
    BY <1>3, HandoverKept
    DEF ConsumerStep, ApplyReplicated, Take, SendToSession, IInv, SameAddress
  <1>4. CASE \E f \in FE : FeDies(f)
    BY <1>4, HandoverKept DEF FeDies, IInv, SameAddress
  <1>7. CASE \E f \in FE : ReceiveMessage(f) \/ TimeOut(f)
    BY <1>7, ClosingKeeps DEF Thread
  <1>5. CASE \E f \in FE, t \in Thread : ThreadStep(f, t)
    BY <1>5, CopyArgsKeeps, ClosingKeeps DEF ThreadStep
  <1>6. CASE UNCHANGED vars
    BY <1>6, HandoverKept DEF vars, IInv, SameAddress
  <1> QED
    BY <1>1, <1>2, <1>3, <1>4, <1>5, <1>6, <1>7 DEF Next

(* The thread of a front end reads the address that main meant for it,        *)
(* although main overwrites the block for the next thread and frees it after  *)
(* the last one (handleFrontEndsConnections).                                 *)
THEOREM AddressesHandedOver == Spec => []OwnAddress
  <1>1. IInv => OwnAddress
    BY DEF IInv
  <1> QED
    BY InitEstablishes, StepKeeps, <1>1, PTL DEF Spec
-----------------------------------------------------------------------------
(* What is accepted is shown.                                               *)

Starts == {"read", "store", "wait"}

(* main goes on once the server leads the ring, and then isPrimaryServer is  *)
(* set, unless the ring thread is about to set it or main overwrote it.      *)
Flags ==
    /\ isPrimary \in BOOLEAN /\ isPrimaryServer \in BOOLEAN /\ flag \in BOOLEAN
    /\ ring \in {"backup", "elected", "leader"}
    /\ isPrimary <=> ring # "backup"
    /\ main \notin Starts => isPrimary
    /\ ring = "leader" =>
           CASE main = "read"  -> TRUE
             [] main = "store" -> flag \/ isPrimaryServer
             [] OTHER          -> isPrimaryServer \/ overwritten

(* main has tried every FE before its first thread runs, and the threads     *)
(* purge only an FE that has gone away or was timed out.                     *)
Connecting ==
    /\ main \in Starts => i = 1
    /\ main = "connect" => i \in 1 .. NumFe /\ \A f \in feUp : f < i => f \in book
    /\ main \notin Starts \cup {"connect"} => feUp \ timedOut \subseteq book
    /\ feUp \subseteq FE
    /\ main \in Starts \cup {"connect", "lock"} =>
           \A f \in FE, t \in Thread : thread[f][t] = "off"
    /\ \A f \in FE, t \in Thread :
           thread[f][t] \in {"check", "purge", "done"} => f \notin feUp \ timedOut

(* A message of an FE reaches the queue from a running thread only.          *)
Queued ==
    /\ queue \in Seq(FE \cup {None})
    /\ main \in Starts \cup {"connect", "lock"} =>
           item = None /\ \A k \in 1 .. Len(queue) : queue[k] = None

AInv == IInv /\ Flags /\ Connecting /\ Queued

(* The second invariant holds at the start.                                  *)
LEMMA InitAccepts == Init => AInv
  <1> SUFFICES ASSUME Init PROVE AInv
    OBVIOUS
  <1>1. Flags
    BY DEF Init, Flags, Starts
  <1>2. Connecting
    BY ConstantsAssumption DEF Init, Connecting, Starts, FE
  <1>3. Queued
    BY DEF Init, Queued
  <1> QED
    BY <1>1, <1>2, <1>3, InitEstablishes DEF AInv

(* No step breaks its parts.                                                 *)
LEMMA FlagsStep == AInv /\ [Next]_vars => Flags'
  <1> SUFFICES ASSUME AInv, [Next]_vars PROVE Flags'
    OBVIOUS
  <1> USE DEF AInv, Flags, Starts, flags
  <1>1. CASE Win \/ TellServer
    BY <1>1 DEF Win, TellServer
  <1>2. CASE ReadFlag \/ StoreFlag \/ WaitForPromotion
    BY <1>2 DEF ReadFlag, StoreFlag, WaitForPromotion
  <1>3. CASE ConnectToFE \/ LockAddresses \/ SpawnListener \/ SpawnMonitor \/ FreeArgs
    BY <1>3 DEF ConnectToFE, LockAddresses, SpawnListener, SpawnMonitor, FreeArgs
  <1>4. CASE ConsumerStep \/ ApplyReplicated
    BY <1>4 DEF ConsumerStep, ApplyReplicated, Take, SendToSession
  <1>5. CASE \E f \in FE : FeDies(f) \/ ReceiveMessage(f) \/ TimeOut(f)
    BY <1>5 DEF FeDies, ReceiveMessage, TimeOut
  <1>6. CASE \E f \in FE, t \in Thread : ThreadStep(f, t)
    BY <1>6 DEF ThreadStep, CopyArgs, NoticeDeath, CloseCheck, PurgeFeConnection
  <1>7. CASE UNCHANGED vars
    BY <1>7 DEF vars
  <1> QED
    BY <1>1, <1>2, <1>3, <1>4, <1>5, <1>6, <1>7 DEF Next, MainStep

(* A thread moves on, and marks the end of its FE only once that is gone or   *)
(* timed out.                                                                *)
Moves(f, t) ==
    /\ thread[f][t] # "off"
    /\ \A g \in FE, u \in Thread :
          \/ thread'[g][u] = thread[g][u]
          \/ g = f /\ u = t /\ thread'[g][u] = "run"
          \/ g = f /\ u = t /\ f \notin feUp \ timedOut'
    /\ UNCHANGED <<main, i, feUp>>
    /\ timedOut \subseteq timedOut'
    /\ \A g \in FE : g \in feUp \ timedOut /\ g \in book => g \in book'

LEMMA ThreadsMove ==
    ASSUME AInv, NEW f \in FE, NEW t \in Thread, ThreadStep(f, t)
    PROVE  Moves(f, t)
  <1> USE DEF AInv, IInv, Tables, Connecting, Goto, Moves
  <1>1. CASE CopyArgs(f, t)
    BY <1>1 DEF CopyArgs, connections
  <1>2. CASE NoticeDeath(f, t)
    <2>1. f \notin feUp \ timedOut
      <3>1. main \notin Starts \cup {"connect", "lock"}
        BY <1>2 DEF NoticeDeath
      <3> QED
        BY <1>2, <3>1 DEF NoticeDeath, Starts
    <2> QED
      BY <1>2, <2>1 DEF NoticeDeath, connections
  <1>3. CASE CloseCheck(f, t)
    BY <1>3 DEF CloseCheck, connections
  <1>4. CASE PurgeFeConnection(f, t)
    BY <1>4 DEF PurgeFeConnection
  <1> QED
    BY <1>1, <1>2, <1>3, <1>4 DEF ThreadStep

(* So do a message and the time-out of an FE that is up.                     *)
LEMMA TimeOutMoves ==
    ASSUME AInv, NEW f \in FE, ReceiveMessage(f) \/ TimeOut(f)
    PROVE  \E t \in Thread : Moves(f, t)
  <1> USE DEF AInv, IInv, Tables, Connecting, Goto, Moves
  <1>1. CASE ReceiveMessage(f)
    <2>1. f \in book \/ f \notin feUp \ timedOut
      <3>1. main \notin Starts \cup {"connect", "lock"}
        BY <1>1 DEF ReceiveMessage, Thread
      <3> QED
        BY <3>1 DEF Starts
    <2>2. Moves(f, "listener")
      BY <1>1, <2>1 DEF ReceiveMessage, connections, Thread
    <2> QED
      BY <2>2 DEF Thread
  <1>2. CASE TimeOut(f)
    <2>1. Moves(f, "monitor")
      BY <1>2 DEF TimeOut, Thread
    <2> QED
      BY <2>1 DEF Thread
  <1> QED
    BY <1>1, <1>2

(* The connections main has made.                                            *)
LEMMA ConnectingStep == AInv /\ [Next]_vars => Connecting'
  <1> SUFFICES ASSUME AInv, [Next]_vars PROVE Connecting'
    OBVIOUS
  <1> USE DEF AInv, Connecting, Starts, connections, handover
  <1>1. CASE Win \/ TellServer
    BY <1>1 DEF Win, TellServer
  <1>2. CASE ReadFlag \/ StoreFlag
    BY <1>2 DEF ReadFlag, StoreFlag
  <1>3. CASE WaitForPromotion
    BY <1>3, ConstantsAssumption DEF WaitForPromotion, FE
  <1>4. CASE ConnectToFE
    <2>1. /\ i \in 1 .. NumFe /\ \A f \in feUp : f < i => f \in book
          /\ \A f \in feUp : f \in 1 .. NumFe /\ (f = i => f \in book')
          /\ book \subseteq book' /\ UNCHANGED <<feUp, timedOut, thread>>
          /\ \A f \in FE, t \in Thread : thread[f][t] = "off"
      BY <1>4 DEF ConnectToFE, FE
    <2>2. CASE i = NumFe
      <3>1. main' = "lock" /\ i' = 1
        BY <1>4, <2>2 DEF ConnectToFE
      <3>2. feUp' \subseteq book'
        BY <2>1, <2>2, ConstantsAssumption
      <3> QED
        BY <2>1, <3>1, <3>2
    <2>3. CASE i # NumFe
      <3>1. main' = "connect" /\ i' = i + 1
        BY <1>4, <2>3 DEF ConnectToFE
      <3>2. i' \in 1 .. NumFe /\ \A f \in feUp' : f < i' => f \in book'
        BY <2>1, <2>3, <3>1, ConstantsAssumption
      <3> QED
        BY <2>1, <3>1, <3>2
    <2> QED
      BY <2>2, <2>3
  <1>5. CASE LockAddresses \/ FreeArgs
    BY <1>5 DEF LockAddresses, FreeArgs
  <1>6. CASE SpawnListener
    <2>1. \A g \in FE, u \in Thread : thread'[g][u] \in {thread[g][u], "start"}
      BY <1>6 DEF SpawnListener, IInv, Tables
    <2> QED
      BY <1>6, <2>1 DEF SpawnListener
  <1>7. CASE SpawnMonitor
    <2>1. \A g \in FE, u \in Thread : thread'[g][u] \in {thread[g][u], "start"}
      BY <1>7 DEF SpawnMonitor, IInv, Tables
    <2> QED
      BY <1>7, <2>1 DEF SpawnMonitor
  <1>8. CASE ConsumerStep \/ ApplyReplicated
    BY <1>8 DEF ConsumerStep, ApplyReplicated, Take, SendToSession
  <1>9. CASE \E f \in FE : FeDies(f)
    BY <1>9 DEF FeDies
  <1>10. ASSUME NEW f \in FE, NEW t \in Thread, Moves(f, t) PROVE Connecting'
    BY <1>10 DEF Moves
  <1>11. CASE \E f \in FE : \/ ReceiveMessage(f) \/ TimeOut(f)
                            \/ \E t \in Thread : ThreadStep(f, t)
    BY <1>10, <1>11, ThreadsMove, TimeOutMoves
  <1>12. CASE UNCHANGED vars
    BY <1>12 DEF vars
  <1> QED
    BY <1>1, <1>2, <1>3, <1>4, <1>5, <1>6, <1>7, <1>8, <1>9, <1>10, <1>11, <1>12
    DEF Next, MainStep

(* What the queue holds, and the consumer has taken.                         *)
LEMMA QueuedStep == AInv /\ [Next]_vars => Queued'
  <1> SUFFICES ASSUME AInv, [Next]_vars PROVE Queued'
    OBVIOUS
  <1> DEFINE Early == main \in Starts \cup {"connect", "lock"}
  <1> USE DEF AInv, Queued
  <1>1. CASE UNCHANGED <<queue, item>> /\ (main' \in Starts \cup {"connect", "lock"} => Early)
    BY <1>1
  <1>2. CASE \E f \in FE : ReceiveMessage(f)
    <2>1. PICK f \in FE : ReceiveMessage(f)
      BY <1>2
    <2>2. ~Early /\ main' = main
      BY <2>1 DEF ReceiveMessage, Connecting, Thread
    <2>3. queue' \in Seq(FE \cup {None})
      BY <2>1 DEF ReceiveMessage
    <2> QED
      BY <2>2, <2>3
  <1>3. CASE ApplyReplicated
    <2>1. queue' = Append(queue, None) /\ UNCHANGED <<main, item>>
      BY <1>3 DEF ApplyReplicated
    <2> QED
      BY <2>1
  <1>4. CASE Take
    <2>1. queue # <<>> /\ queue' = Tail(queue) /\ item' \in {None, Head(queue)} /\ main' = main
      BY <1>4 DEF Take
    <2>2. queue' \in Seq(FE \cup {None})
      BY <2>1
    <2>3. ASSUME Early PROVE item' = None /\ \A k \in 1 .. Len(queue') : queue'[k] = None
      <3>1. Head(queue) = None
        BY <2>1, <2>3
      <3>2. \A k \in 1 .. Len(queue') : k + 1 \in 1 .. Len(queue) /\ queue'[k] = queue[k + 1]
        BY <2>1
      <3> QED
        BY <2>1, <2>3, <3>1, <3>2
    <2> QED
      BY <2>1, <2>2, <2>3
  <1>5. CASE \E f \in FE : SendToSession(f)
    BY <1>5 DEF SendToSession
  <1>6. CASE \/ Win \/ TellServer \/ MainStep
             \/ \E f \in FE : \/ FeDies(f) \/ TimeOut(f)
                             \/ \E t \in Thread : ThreadStep(f, t)
    BY <1>1, <1>6 DEF TimeOut, Win, TellServer, MainStep, ReadFlag, StoreFlag, WaitForPromotion,
       ConnectToFE, LockAddresses, SpawnListener, SpawnMonitor, FreeArgs, FeDies, ThreadStep,
       CopyArgs, NoticeDeath, CloseCheck, PurgeFeConnection, group, Starts
  <1>7. CASE UNCHANGED vars
    BY <1>1, <1>7 DEF vars, group
  <1> QED
    BY <1>2, <1>3, <1>4, <1>5, <1>6, <1>7 DEF Next, ConsumerStep

(* A message leaves the queue only in the hands of the consumer.             *)
LEMMA WhoDrops ==
    ASSUME AInv, [Next]_vars, queue # <<>>, queue' = Tail(queue)
    PROVE  Take
  <1>1. queue' # queue /\ Len(queue') < Len(queue)
    BY DEF AInv, Queued
  <1>2. ~ApplyReplicated /\ \A f \in FE : ~ReceiveMessage(f)
    BY <1>1 DEF ApplyReplicated, ReceiveMessage, AInv, Queued
  <1> QED
    BY <1>1, <1>2 DEF Next, vars, Win, TellServer, MainStep, ReadFlag, StoreFlag,
       WaitForPromotion, ConnectToFE, LockAddresses, SpawnListener, SpawnMonitor, FreeArgs,
       FeDies, TimeOut, ThreadStep, CopyArgs, NoticeDeath, CloseCheck, PurgeFeConnection, group,
       ConsumerStep, SendToSession

(* What a front end sends to this server is written to every front end that  *)
(* is alive and that its monitor has not timed out (a timed-out one has no   *)
(* socket: the write goes to descriptor 0), and is dropped only when         *)
(* isPrimaryServer is not yet set or was overwritten (sendMessageToSession,  *)
(* connectToFE, closeFrontEndConnection, main).                              *)
THEOREM AcceptedMessagesShown == Spec => AcceptedIsShown
  <1>1. AInv /\ [Next]_vars => AInv'
    BY StepKeeps, FlagsStep, ConnectingStep, QueuedStep DEF AInv
  <1>2. ASSUME AInv, [Next]_vars, NEW f \in FE
        PROVE  /\ SentTo(f) /\ item # None /\ f \in feUp \ timedOut => f \in book
               /\ Dropped(f) => ring = "elected" \/ overwritten
    <2>1. ASSUME SentTo(f), item # None, f \in feUp \ timedOut PROVE f \in book
      BY <1>2, <2>1 DEF AInv, Queued, Connecting, Starts
    <2>2. ASSUME Dropped(f) PROVE ring = "elected" \/ overwritten
      <3>1. Take
        BY <1>2, <2>2, WhoDrops DEF Dropped
      <3>2. ~isPrimaryServer
        BY <2>2, <3>1, ConstantsAssumption DEF Dropped, Take, FE
      <3>3. Len(queue) \in Nat \ {0} /\ queue[1] = f /\ f # None
        BY <1>2, <2>2 DEF Dropped, AInv, Queued, FE, None
      <3>4. main \notin Starts
        BY <1>2, <3>3 DEF AInv, Queued
      <3> QED
        BY <1>2, <3>2, <3>4 DEF AInv, Flags, Starts
    <2> QED
      BY <2>1, <2>2
  <1>3. AInv /\ [Next]_vars =>
            [\A f \in FE : /\ SentTo(f) /\ item # None /\ f \in feUp \ timedOut => f \in book
                           /\ Dropped(f) => ring = "elected" \/ overwritten]_vars
    BY <1>2
  <1> QED
    BY InitAccepts, <1>1, <1>3, PTL DEF Spec, AcceptedIsShown
=============================================================================
