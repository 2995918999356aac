----------------------------- MODULE Semaphore ------------------------------
(***************************************************************************)
(* The counting semaphore that guards the shared state of the servers, the *)
(* front ends and the client (Semaphore): a counter, a mutex and a         *)
(* condition variable.                                                     *)
(*                                                                         *)
(* What wait() and post() do under the mutex is one step; a thread blocked *)
(* on the condition variable has given the mutex up, and needs it again    *)
(* to return, which is a step of its own.  The condition variable wakes    *)
(* any of its threads when notified, and may wake one spontaneously.       *)
(*                                                                         *)
(* The names of the specification begin with Sem, so that one module can   *)
(* extend this one and KeepAlive (UtilProofs).                             *)
(***************************************************************************)
EXTENDS Integers, FiniteSets

CONSTANTS
    Thread,
    Permits,      \* Semaphore(init)
    MaxSpurious   \* bound: wake-ups of the condition variable by itself

ASSUME SemaphoreAssumption ==
    /\ IsFiniteSet(Thread)
    /\ Permits \in Nat \ {0}
    /\ MaxSpurious \in Nat

VARIABLES
    value,      \* Semaphore::m_value
    pc,         \* where each thread is
    spurious    \* spontaneous wake-ups so far

semVars == <<value, pc, spurious>>

At(l) == {t \in Thread : pc[t] = l}

SemTypeOK ==
    /\ value \in Int
    /\ pc \in [Thread -> {"outside", "blocked", "woken", "inside"}]
    /\ spurious \in 0 .. MaxSpurious

SemInit ==
    /\ value = Permits
    /\ pc = [t \in Thread |-> "outside"]
    /\ spurious = 0

Goto(t, l) == pc' = [pc EXCEPT ![t] = l]

BugTestBeforeDecrement(t) ==
    /\ pc[t] = "outside"
    /\ value' = value - 1
    /\ Goto(t, IF value < 0 THEN "blocked" ELSE "inside")
    /\ UNCHANGED spurious

(* wait(): the counter tells, when negative, how many threads had to block.  *)
Wait(t) ==
    /\ pc[t] = "outside"
    /\ value' = value - 1
    /\ Goto(t, IF value' < 0 THEN "blocked" ELSE "inside")
    /\ UNCHANGED spurious

(* The thread has the mutex back and returns from wait(): it tests nothing.  *)
Return(t) ==
    /\ pc[t] = "woken"
    /\ Goto(t, "inside")
    /\ UNCHANGED <<value, spurious>>

BugNotifyBelowZero(t) ==
    /\ pc[t] = "inside"
    /\ value' = value + 1
    /\ \/ value' < 0 /\ \E b \in At("blocked") : pc' = [pc EXCEPT ![t] = "outside", ![b] = "woken"]
       \/ (value' >= 0 \/ At("blocked") = {}) /\ Goto(t, "outside")
    /\ UNCHANGED spurious

BugNotifyAll(t) ==
    /\ pc[t] = "inside"
    /\ value' = value + 1
    /\ pc' = [u \in Thread |-> IF u = t THEN "outside"
                               ELSE IF value' <= 0 /\ pc[u] = "blocked" THEN "woken"
                               ELSE pc[u]]
    /\ UNCHANGED spurious

(* post(): one of the blocked threads, if there is one, is notified.         *)
Post(t) ==
    /\ pc[t] = "inside"
    /\ value' = value + 1
    /\ \/ value' <= 0 /\ \E b \in At("blocked") : pc' = [pc EXCEPT ![t] = "outside", ![b] = "woken"]
       \/ (value' > 0 \/ At("blocked") = {}) /\ Goto(t, "outside")
    /\ UNCHANGED spurious

(* std::condition_variable allows it.                                        *)
SpuriousWakeup(t) ==
    /\ pc[t] = "blocked"
    /\ spurious < MaxSpurious
    /\ spurious' = spurious + 1
    /\ Goto(t, "woken")
    /\ UNCHANGED value

SemNext == \E t \in Thread : Wait(t) \/ Return(t) \/ Post(t) \/ SpuriousWakeup(t)

SemSpec == SemInit /\ [][SemNext]_semVars

-----------------------------------------------------------------------------
(* Properties.                                                               *)

(* post() gives way to a blocked thread, never to more than one: more threads *)
(* than permits are in, or on their way in, only as often as the condition    *)
(* variable has woken one by itself.                                          *)
HoldersBounded ==
    Cardinality(At("inside")) + Cardinality(At("woken")) <= Permits + spurious

(* A thread is blocked only while all permits are in use, whatever threads    *)
(* woke up by themselves before: some thread is left to call post().          *)
BlockedOnlyBehindHolders ==
    At("blocked") # {} => Cardinality(At("inside")) + Cardinality(At("woken")) >= Permits

(* One thread too many in a critical section is no lasting damage: when all   *)
(* have left, the counter is what it was.                                     *)
Heals == At("outside") = Thread => value = Permits

(* A semaphore is a lock for Permits threads, and one more for each time the  *)
(* condition variable woke a thread by itself.                                *)
Lock == INSTANCE CountingLock
    WITH inside <- At("inside"), free <- Permits + spurious - Cardinality(At("inside"))

LockSpec == Lock!Spec
=============================================================================
