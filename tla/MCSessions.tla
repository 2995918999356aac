----------------------------- MODULE MCSessions -----------------------------
(***************************************************************************)
(* Instances of Sessions for TLC: four clients of one user in two groups   *)
(* behind two front ends, so that a user's joins race with one another,    *)
(* with the creation of a group and with the end of either front end.      *)
(***************************************************************************)
EXTENDS Sessions, TLC

CONSTANTS c1, c2, c3, c4, u1, g1, g2, f1, f2

MCUserOf == [c \in Client |-> u1]
MCGroupOf == [c \in Client |-> IF c = c4 THEN g2 ELSE g1]
MCFeOf == [c \in Client |-> IF c = c2 THEN f2 ELSE f1]
=============================================================================
