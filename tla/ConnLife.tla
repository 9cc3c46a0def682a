------------------------------- MODULE ConnLife -------------------------------
(***************************************************************************)
(* What TcpServer promises about a connection: it comes up once, its       *)
(* message callback is called only while it is up, it goes down once, its  *)
(* memory is given back after that and not before, and one that is down is *)
(* given back in the end.  TcpServer.tla shows how loops, functor queues   *)
(* and shared pointers keep this.                                          *)
(***************************************************************************)
CONSTANT Conns

VARIABLES
  phase,         \* phase[c]: "none", "opening", "up", "down" or "gone"
  served         \* connections whose message callback is running

vars == <<phase, served>>

Init ==
  /\ phase = [c \in Conns |-> "none"]
  /\ served = {}

Become(c, from, to) ==
  /\ phase[c] = from
  /\ c \notin served
  /\ phase' = [phase EXCEPT ![c] = to]
  /\ UNCHANGED served

Serve(c) ==
  /\ phase[c] = "up"
  /\ c \notin served
  /\ served' = served \cup {c}
  /\ UNCHANGED phase

Served(c) ==
  /\ c \in served
  /\ served' = served \ {c}
  /\ UNCHANGED phase

\* What one connection does is independent of the others.
Step(c) ==
  \/ Become(c, "none", "opening")
  \/ Become(c, "opening", "up")
  \/ Become(c, "up", "down")
  \/ Become(c, "down", "gone")
  \/ Serve(c)
  \/ Served(c)

\* One thread may give back the memory of several connections at once.
GiveBack ==
  \E gone \in SUBSET {c \in Conns : phase[c] = "down"} :
    /\ phase' = [c \in Conns |-> IF c \in gone THEN "gone" ELSE phase[c]]
    /\ UNCHANGED served

Next == GiveBack \/ \E c \in Conns : Step(c)

SafeSpec == Init /\ [][Next]_vars

Spec == SafeSpec /\ \A c \in Conns : WF_vars(Become(c, "down", "gone"))
=============================================================================
