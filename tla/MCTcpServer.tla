----------------------------- MODULE MCTcpServer -----------------------------
(* TcpServer for TLC: a pool of two io loops. *)
EXTENDS TcpServer

CONSTANTS l1, l2

TwoInPool == <<l1, l2>>
=============================================================================
