---------------------------- MODULE MCLoopThreads ----------------------------
(* LoopThreads for TLC: see MCLoopThreads.cfg. *)
EXTENDS LoopThreads
=============================================================================
