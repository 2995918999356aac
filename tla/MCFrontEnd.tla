----------------------------- MODULE MCFrontEnd -----------------------------
(* Two clients, one of which may leave, and two servers one after another.  *)
(* The connection of the first server may be taken for silent.              *)
EXTENDS FrontEnd, TLC

CONSTANTS c1, c2, nothing

MCClient == {c1, c2}
MCLeaver == {c1}
MCMessages == (c1 :> 1) @@ (c2 :> 1)
=============================================================================
