------------------------------ MODULE MCBuffer ------------------------------
(* Buffer for TLC: see MCBuffer.cfg.                                          *)
EXTENDS Buffer
=============================================================================
