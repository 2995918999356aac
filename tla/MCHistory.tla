----------------------------- MODULE MCHistory -----------------------------
(***************************************************************************)
(* Instances of History for TLC: one or two readers, a limit of two       *)
(* lines, and enough messages for the file to be cropped several           *)
(* times.                                                                  *)
(***************************************************************************)
EXTENDS History, TLC

CONSTANTS r1, r2

ReaderSymmetry == Permutations(Reader)
=============================================================================
