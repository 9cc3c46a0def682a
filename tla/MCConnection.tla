---------------------------- MODULE MCConnection ----------------------------
(* Connection for TLC: see MCConnection.cfg. *)
EXTENDS Connection
=============================================================================
