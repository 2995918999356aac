------------------------------ MODULE Replicas ------------------------------
(***************************************************************************)
(* What the replicated servers promise to the front ends: a packet is      *)
(* answered when every live server has it, and a server that has a packet  *)
(* keeps it as long as it lives.  Until the first crash each server gets   *)
(* the packets of a front end one after another, without a gap; afterwards *)
(* a packet that was not answered may be missing from some or all servers. *)
(***************************************************************************)
EXTENDS Naturals

CONSTANTS
    RM,
    FE

VARIABLES
    live,
    sent,     \* packets each front end has sent
    stored,   \* the packets each live server has: front ends and numbers
    answered

vars == <<live, sent, stored, answered>>

Init ==
    /\ live = RM
    /\ sent = [f \in FE |-> 0]
    /\ stored = [r \in RM |-> {}]
    /\ answered = {}

Send(f) ==
    /\ sent' = [sent EXCEPT ![f] = @ + 1]
    /\ UNCHANGED <<live, stored, answered>>

Store(r, f, n) ==
    /\ r \in live
    /\ n \in 1 .. sent[f]
    /\ live = RM => \A k \in 1 .. n - 1 : <<f, k>> \in stored[r]
    /\ stored' = [stored EXCEPT ![r] = @ \cup {<<f, n>>}]
    /\ UNCHANGED <<live, sent, answered>>

Answer(f, n) ==
    /\ \A r \in live : <<f, n>> \in stored[r]
    /\ answered' = answered \cup {<<f, n>>}
    /\ UNCHANGED <<live, sent, stored>>

Crash(r) ==
    /\ live' = live \ {r}
    /\ stored' = [stored EXCEPT ![r] = {}]
    /\ UNCHANGED <<sent, answered>>

Next ==
    \/ \E f \in FE : Send(f)
    \/ \E r \in RM, f \in FE : \E n \in 1 .. sent[f] : Store(r, f, n)
    \/ \E f \in FE : \E n \in 1 .. sent[f] : Answer(f, n)
    \/ \E r \in RM : Crash(r)

Spec == Init /\ [][Next]_vars
=============================================================================
