---------------------------- MODULE CountingLock ----------------------------
(***************************************************************************)
(* What a semaphore promises to the threads that call wait() and post()    *)
(* around a critical section: one gets in only by taking a free permit,    *)
(* and gives it back as it leaves.  Who is next is left open.              *)
(***************************************************************************)
EXTENDS Integers

CONSTANTS Thread

VARIABLES
    inside,   \* threads in their critical sections
    free      \* permits that nobody has

vars == <<inside, free>>

Init ==
    /\ inside = {}
    /\ free \in Nat \ {0}

Enter(t) ==
    /\ t \notin inside
    /\ free > 0
    /\ inside' = inside \cup {t}
    /\ free' = free - 1

Leave(t) ==
    /\ t \in inside
    /\ inside' = inside \ {t}
    /\ free' = free + 1

(* A condition variable may wake a thread that nobody notified.  wait() does *)
(* not test its counter again, so each such wake-up is one permit more.      *)
Breach ==
    /\ free' = free + 1
    /\ UNCHANGED inside

Next == Breach \/ \E t \in Thread : Enter(t) \/ Leave(t)

Spec == Init /\ [][Next]_vars
=============================================================================
