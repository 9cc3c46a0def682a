---------------------------- MODULE MCChatClient ----------------------------
(* ChatClient for TLC: see MCChatClient.cfg and MCClientList.cfg. *)
EXTENDS ChatClient
=============================================================================
