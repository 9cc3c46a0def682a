------------------------------ MODULE MCChatRoom ------------------------------
(* ChatRoom for TLC: which connection is on which loop, and who is called    *)
(* what.                                                                     *)
EXTENDS ChatRoom

CONSTANTS c1, c2, c3, l1, l2, ann, bob, junk

\* The first connection alone on its loop, or all of them on one.
TwoLoops == [c \in Conns |-> IF c = c1 THEN l1 ELSE l2]
OneLoop == [c \in Conns |-> l1]

\* c1 and c2 are given the same name.
TwoAnns == [c \in Conns |-> IF c \in {c1, c2} THEN ann ELSE bob]
AllDiffer == [c \in Conns |-> IF c = c1 THEN ann ELSE bob]
=============================================================================
