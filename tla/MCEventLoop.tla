----------------------------- MODULE MCEventLoop -----------------------------
(* EventLoop for TLC: see MCEventLoop.cfg. *)
EXTENDS EventLoop
=============================================================================
