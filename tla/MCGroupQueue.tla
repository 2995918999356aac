---------------------------- MODULE MCGroupQueue ----------------------------
(***************************************************************************)
(* Instances of GroupQueue for TLC: two sessions of one user behind        *)
(* different front ends, each of which sends messages.                     *)
(***************************************************************************)
EXTENDS GroupQueue

CONSTANTS f1, f2, m1, c1, c2, u1

MCMonitorOf == [f \in {f1} |-> m1]
MCUserOf == [c \in Client |-> u1]
MCFeOf == [c \in Client |-> IF c = c1 THEN f1 ELSE f2]
=============================================================================
