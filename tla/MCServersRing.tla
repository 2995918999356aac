--------------------------- MODULE MCServersRing ---------------------------
(***************************************************************************)
(* Instances of ServersRing for TLC.                                       *)
(***************************************************************************)
EXTENDS ServersRing

MCAscending == [s \in 1 .. N |-> s]
MCShuffled == [s \in 1 .. N |-> IF s = 2 THEN N + 1 ELSE s]
=============================================================================
