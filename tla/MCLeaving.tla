----------------------------- MODULE MCLeaving -----------------------------
(* Leaving for TLC.                                                         *)
EXTENDS Leaving
=============================================================================
