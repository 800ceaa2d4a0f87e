------------------------------ MODULE MCTurns ------------------------------
(* Turns for TLC.                                                           *)
EXTENDS Turns
=============================================================================
