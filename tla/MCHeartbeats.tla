---------------------------- MODULE MCHeartbeats ----------------------------
(* Heartbeats for TLC.                                                     *)
EXTENDS Heartbeats, TLC
=============================================================================
