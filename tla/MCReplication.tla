--------------------------- MODULE MCReplication ---------------------------
(***************************************************************************)
(* Instances of Replication for TLC: three RMs (the fewest at which two    *)
(* backups can disagree).                                                  *)
(***************************************************************************)
EXTENDS Replication, TLC

CONSTANTS f1, f2

MCRM == 1 .. 3

(* The RMs, numbered as they start, the primary first.  One that starts       *)
(* connects to those that run, the latest first, and later accepts the rest. *)
MCSocketOf == [r \in MCRM |-> [p \in MCRM |-> IF p < r THEN r - p ELSE p]]

(* One front end whose client joins and then sends a message, and one that   *)
(* sends a single message.                                                   *)
MCJoinThenMessage == (f1 :> <<{"JOIN"}, {"MESSAGE"}>>) @@ (f2 :> <<{"MESSAGE"}>>)

(* A single front end that sends a single message.                           *)
MCOneMessage == f1 :> <<{"MESSAGE"}>>
=============================================================================
