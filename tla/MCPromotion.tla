---------------------------- MODULE MCPromotion -----------------------------
(***************************************************************************)
(* Instances of Promotion for TLC.                                         *)
(***************************************************************************)
EXTENDS Promotion
=============================================================================
