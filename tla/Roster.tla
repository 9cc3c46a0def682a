-------------------------------- MODULE Roster --------------------------------
(***************************************************************************)
(* What the chat room's two maps are for: every name belongs to one        *)
(* connection at most, a connection has one name at most, gives it up only *)
(* by leaving, and does not come back.  ChatRoom.tla keeps this with all   *)
(* connections on one loop, and not with several.                          *)
(***************************************************************************)
CONSTANTS
  Conns,
  Names,
  NoConn

VARIABLES
  holder,        \* holder[n]: the connection called n
  gone           \* the connections that have left

vars == <<holder, gone>>

Init ==
  /\ holder = [n \in Names |-> NoConn]
  /\ gone = {}

\* A connection without a name takes a free one.
Take(c, n) ==
  /\ c \notin gone
  /\ holder[n] = NoConn
  /\ \A m \in Names : holder[m] # c
  /\ holder' = [holder EXCEPT ![n] = c]
  /\ UNCHANGED gone

\* A connection leaves, with or without a name, and its name is free again.
Leave(c) ==
  /\ c \notin gone
  /\ holder' = [n \in Names |-> IF holder[n] = c THEN NoConn ELSE holder[n]]
  /\ gone' = gone \cup {c}

Next == \E c \in Conns : Leave(c) \/ \E n \in Names : Take(c, n)

Spec == Init /\ [][Next]_vars
=============================================================================
