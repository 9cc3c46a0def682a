--------------------------- MODULE TcpServerProofs ---------------------------
(***************************************************************************)
(* Theorems about TcpServer.tla, for every number of loops, of connections *)
(* and of descriptors.                                                     *)
(***************************************************************************)
EXTENDS TcpServer, SequenceTheorems, TLAPS

\* The one-line operators are expanded throughout.
USE DEF Unregistered, RemoveConnection

\* Where a connection is in its life; "closing" is between the two halves of
\* HandleClose(), "removing" until RemoveConnectionInLoop().
Stage(c) ==
  IF state[c] = "none" THEN "none"
  ELSE IF state[c] = "kConnecting" THEN "opening"
  ELSE IF c \notin connections THEN "ended"
  ELSE IF c \in downed THEN "removing"
  ELSE IF c \in epoll[loopOf[c]] THEN "up"
  ELSE "closing"

\* What the members of the server and the connections say at each stage.
StageInv ==
  \A c \in Conns :
    /\ state[c] # "none" <=> c < nextId
    /\ state[c] # "none" => loopOf[c] \in IoLoops
    /\ c \in connections => Stage(c) # "none"
    /\ Stage(c) = "opening" => c \in connections
    /\ c \in downed => Stage(c) \in {"removing", "ended"}
    /\ Stage(c) = "ended" => c \in downed
    /\ Stage(c) \in {"closing", "removing", "ended"} => state[c] = "kDisconnected"
    /\ Stage(c) = "closing" => pc[loopOf[c]] = "down" /\ at[loopOf[c]] = c

\* A connection is polled by its loop while it is up, its handlers run while
\* it is up or closing, and it is in the maps only then.
PlaceInv ==
  /\ \A l \in Loops :
       /\ active[l] \subseteq epoll[l]
       /\ at[l] # Nobody <=> pc[l] \in {"body", "down"}
       /\ \A c \in Conns :
            /\ c \in epoll[l] => Stage(c) = "up" /\ loopOf[c] = l
            /\ at[l] = c => loopOf[c] = l
            /\ at[l] = c /\ pc[l] = "body" => Stage(c) = "up"
            /\ at[l] = c /\ pc[l] = "down" => Stage(c) = "closing"
  /\ \A c \in reg : Stage(c) \in {"up", "closing"}
  /\ Acceptor \in active[Base] => nextId <= arrived

\* A broadcast goes on under the shared lock, so that it is to connections
\* that are in the maps.
CastInv ==
  \A l \in Loops :
    /\ Broadcasting(l) => pc[l] = "body"
    /\ todo[l] \subseteq reg /\ sending[l] \in reg \cup {Nobody}

\* What a queue has.
Functors == [op : Ops, conn : Conns]

\* Functor f is in the queue that q has for loop l.
In(q, l, f) == \E i \in 1..Len(q[l]) : q[l][i] = f

\* Of two functors of one connection the earlier is a SendInLoop(), or the
\* later that of a private line: the one that establishes it, the one that
\* removes it and the one that destroys it are alone of their kind, and the
\* last is behind all others but private lines.
Ordered(q) ==
  \A l \in Loops : \A i, j \in 1..Len(q[l]) :
    i < j /\ q[l][i].conn = q[l][j].conn =>
      q[l][i].op \in Sends \/ q[l][j].op = "SendPrivate"

\* A functor waits on the right loop, at the right stage; nothing is said of
\* that of a private line.
Waits(l, f) ==
  LET c == f.conn IN
  /\ f.op = "ConnectionEstablished" => l = loopOf[c] /\ Stage(c) = "opening"
  /\ f.op = "RemoveConnectionInLoop" => l = Base /\ Stage(c) = "removing"
  /\ f.op = "ConnectDestroyed" => l = loopOf[c] /\ Stage(c) = "ended"
  /\ f.op = "SendInLoop" =>
       /\ l = loopOf[c] /\ Stage(c) \in {"up", "closing", "removing", "ended"}
       /\ Stage(c) = "ended" => In(queue, l, Functor("ConnectDestroyed", c))

\* Every functor of every queue.
QueueInv ==
  /\ Ordered(queue)
  /\ \A l \in Loops : \A f \in Functors : In(queue, l, f) => Waits(l, f)
  /\ \A l \in Loops : batch[l] <= Len(queue[l])

\* What a batch keeps was accepted.
DoneInv == \A l \in Loops : \A c \in done[l] : Stage(c) \notin {"none", "opening"}

\* The invariant of the server.
ServerInv == TypeOK /\ StageInv /\ PlaceInv /\ CastInv /\ QueueInv /\ DoneInv

-----------------------------------------------------------------------------
(* The queues.                                                             *)

\* Between q and p the oldest functor of loop l is taken out.
Popped(q, p, l) == p[l] = Tail(q[l]) /\ \A k \in Loops \ {l} : p[k] = q[k]

\* Between q and p functor g is put in the queue of loop l.
Added(q, p, l, g) == p[l] = Append(q[l], g) /\ \A k \in Loops \ {l} : p[k] = q[k]

\* Both, on two loops.
Moved(q, p, b, l, g) ==
  /\ p[b] = Tail(q[b]) /\ p[l] = Append(q[l], g)
  /\ \A k \in Loops \ {b, l} : p[k] = q[k]

\* All that waits for connection c in a queue are SendInLoop().
OnlySends(q, l, c) == \A f \in Functors : In(q, l, f) /\ f.conn = c => f.op \in Sends

\* What is so after Popped().
AfterPopped(q, p, l) ==
  /\ p[l] \in Seq(Functors) /\ Len(p[l]) = Len(q[l]) - 1
  /\ Ordered(p)
  /\ Head(q[l]) \in Functors /\ In(q, l, Head(q[l]))
  /\ \A k \in Loops, f \in Functors : In(p, k, f) => In(q, k, f)
  /\ \A k \in Loops, f \in Functors :
       In(q, k, f) => In(p, k, f) \/ (k = l /\ f = Head(q[l]))
  /\ \A f \in Functors :
       In(p, l, f) /\ f.conn = Head(q[l]).conn =>
         Head(q[l]).op \in Sends \/ f.op = "SendPrivate"

\* The oldest functor of a queue is taken out.
LEMMA PopKeeps ==
  ASSUME NEW q \in [Loops -> Seq(Functors)], Ordered(q), NEW l \in Loops, Len(q[l]) > 0,
         NEW p, Popped(q, p, l)
  PROVE  AfterPopped(q, p, l)
<1>1. q[l] \in Seq(Functors) /\ q[l] # <<>> /\ Len(q[l]) \in Nat /\ 1 \in 1..Len(q[l])
  BY EmptySeq
<1>2. /\ Head(q[l]) = q[l][1] /\ Head(q[l]) \in Functors
      /\ Tail(q[l]) \in Seq(Functors) /\ Len(Tail(q[l])) = Len(q[l]) - 1
      /\ \A i \in 1..Len(Tail(q[l])) : Tail(q[l])[i] = q[l][i + 1]
  BY <1>1, HeadTailProperties
<1>3. p[l] = Tail(q[l]) /\ \A k \in Loops \ {l} : p[k] = q[k]
  BY DEF Popped
<1>4. /\ Len(p[l]) = Len(q[l]) - 1
      /\ \A i \in 1..Len(p[l]) : p[l][i] = q[l][i + 1] /\ i + 1 \in 1..Len(q[l])
  BY <1>1, <1>2, <1>3
<1>5. \A k \in Loops : Len(p[k]) \in Nat
  BY <1>2, <1>3, LenProperties
<1>6. Ordered(p)
  <2> SUFFICES ASSUME NEW k \in Loops, NEW i \in 1..Len(p[k]), NEW j \in 1..Len(p[k]),
                      i < j, p[k][i].conn = p[k][j].conn
               PROVE  p[k][i].op \in Sends \/ p[k][j].op = "SendPrivate"
    BY DEF Ordered
  <2>1. CASE k = l
    <3>1. i + 1 < j + 1
      BY <1>5
    <3> QED
      BY <1>4, <2>1, <3>1 DEF Ordered
  <2>2. CASE k # l
    BY <1>3, <2>2 DEF Ordered
  <2> QED
    BY <2>1, <2>2
<1>7. In(q, l, Head(q[l]))
  BY <1>1, <1>2 DEF In
<1>8. \A k \in Loops, f \in Functors : In(p, k, f) => In(q, k, f)
  <2> SUFFICES ASSUME NEW k \in Loops, NEW f \in Functors, In(p, k, f) PROVE In(q, k, f)
    OBVIOUS
  <2>1. PICK i \in 1..Len(p[k]) : p[k][i] = f
    BY DEF In
  <2>2. CASE k = l
    BY <1>4, <2>1, <2>2 DEF In
  <2>3. CASE k # l
    BY <1>3, <2>1, <2>3 DEF In
  <2> QED
    BY <2>2, <2>3
<1>9. ASSUME NEW k \in Loops, NEW f \in Functors, In(q, k, f)
      PROVE  In(p, k, f) \/ (k = l /\ f = Head(q[l]))
  <2>1. CASE k = l
    <3>1. PICK i \in 1..Len(q[l]) : q[l][i] = f
      BY <1>9, <2>1 DEF In
    <3>2. CASE i = 1
      BY <1>2, <2>1, <3>1, <3>2
    <3>3. CASE i # 1
      <4>1. i - 1 \in 1..Len(p[l]) /\ (i - 1) + 1 = i
        BY <1>1, <1>4, <3>3
      <4> QED
        BY <1>4, <2>1, <3>1, <4>1 DEF In
    <3> QED
      BY <3>2, <3>3
  <2>2. CASE k # l
    BY <1>3, <1>9, <2>2 DEF In
  <2> QED
    BY <2>1, <2>2
<1>10. ASSUME NEW f \in Functors, In(p, l, f), f.conn = Head(q[l]).conn
       PROVE  Head(q[l]).op \in Sends \/ f.op = "SendPrivate"
  <2>1. PICK i \in 1..Len(p[l]) : p[l][i] = f
    BY <1>10 DEF In
  <2>2. q[l][i + 1] = f /\ i + 1 \in 1..Len(q[l]) /\ 1 < i + 1
    BY <1>4, <1>5, <2>1
  <2> QED
    BY <1>1, <1>2, <1>10, <2>2 DEF Ordered
<1> QED
  BY <1>2, <1>3, <1>4, <1>6, <1>7, <1>8, <1>9, <1>10 DEF AfterPopped

\* What is in the queues once a functor is put in one.
LEMMA InAdded ==
  ASSUME NEW q \in [Loops -> Seq(Functors)], NEW l \in Loops, NEW g \in Functors,
         NEW p, Added(q, p, l, g)
  PROVE  /\ \A k \in Loops, f \in Functors : In(p, k, f) => In(q, k, f) \/ (k = l /\ f = g)
         /\ \A k \in Loops, f \in Functors : In(q, k, f) => In(p, k, f)
         /\ In(p, l, g)
<1>1. p[l] = Append(q[l], g) /\ \A k \in Loops \ {l} : p[k] = q[k]
  BY DEF Added
<1>2. q[l] \in Seq(Functors) /\ Len(q[l]) \in Nat
  BY LenProperties
<1>3. /\ Len(p[l]) = Len(q[l]) + 1 /\ p[l][Len(q[l]) + 1] = g
      /\ \A i \in 1..Len(q[l]) : p[l][i] = q[l][i]
  BY <1>1, <1>2, AppendProperties
<1>4. /\ \A i \in 1..Len(p[l]) : i \in 1..Len(q[l]) \/ i = Len(q[l]) + 1
      /\ Len(q[l]) + 1 \in 1..Len(p[l])
  BY <1>2, <1>3
<1>5. ASSUME NEW k \in Loops, NEW f \in Functors, In(p, k, f)
      PROVE  In(q, k, f) \/ (k = l /\ f = g)
  BY <1>1, <1>3, <1>4, <1>5 DEF In
<1>6. ASSUME NEW k \in Loops, NEW f \in Functors, In(q, k, f)
      PROVE  In(p, k, f)
  <2>1. PICK i \in 1..Len(q[k]) : q[k][i] = f
    BY <1>6 DEF In
  <2>2. CASE k = l
    <3>1. i \in 1..Len(p[l])
      BY <1>2, <1>3, <2>1, <2>2
    <3> QED
      BY <1>3, <2>1, <2>2, <3>1 DEF In
  <2>3. CASE k # l
    BY <1>1, <1>6, <2>3 DEF In
  <2> QED
    BY <2>2, <2>3
<1> QED
  BY <1>3, <1>4, <1>5, <1>6 DEF In

\* What is so after Added().
AfterAdded(q, p, l, g) ==
  /\ p[l] \in Seq(Functors) /\ Ordered(p)
  /\ \A k \in Loops : Len(p[k]) >= Len(q[k])
  /\ \A k \in Loops, f \in Functors : In(p, k, f) <=> In(q, k, f) \/ (k = l /\ f = g)

\* A functor is put behind the others of its connection, which are all
\* SendInLoop() unless it is that of a private line.
LEMMA PutKeeps ==
  ASSUME NEW q \in [Loops -> Seq(Functors)], Ordered(q), NEW l \in Loops,
         NEW g \in Functors, OnlySends(q, l, g.conn) \/ g.op = "SendPrivate",
         NEW p, Added(q, p, l, g)
  PROVE  AfterAdded(q, p, l, g)
<1>1. q[l] \in Seq(Functors) /\ Len(q[l]) \in Nat /\ \A i \in 1..Len(q[l]) : q[l][i] \in Functors
  BY LenProperties, ElementOfSeq
<1>2. /\ Append(q[l], g) \in Seq(Functors) /\ Len(Append(q[l], g)) = Len(q[l]) + 1
      /\ \A i \in 1..Len(q[l]) : Append(q[l], g)[i] = q[l][i]
      /\ Append(q[l], g)[Len(q[l]) + 1] = g
  BY <1>1, AppendProperties
<1>3. p[l] = Append(q[l], g) /\ \A k \in Loops \ {l} : p[k] = q[k]
  BY DEF Added
<1>4. /\ Len(p[l]) = Len(q[l]) + 1 /\ p[l][Len(q[l]) + 1] = g
      /\ \A i \in 1..Len(q[l]) : p[l][i] = q[l][i]
  BY <1>2, <1>3
<1>5. \A k \in Loops : Len(q[k]) \in Nat
  BY LenProperties
<1>6. \A i \in 1..Len(p[l]) : i \in 1..Len(q[l]) \/ i = Len(q[l]) + 1
  BY <1>1, <1>4
<1>7. Ordered(p)
  <2> SUFFICES ASSUME NEW k \in Loops, NEW i \in 1..Len(p[k]), NEW j \in 1..Len(p[k]),
                      i < j, p[k][i].conn = p[k][j].conn
               PROVE  p[k][i].op \in Sends \/ p[k][j].op = "SendPrivate"
    BY DEF Ordered
  <2>1. CASE k = l
    <3>1. i \in 1..Len(q[l])
      BY <1>1, <1>4, <2>1
    <3>2. CASE j \in 1..Len(q[l])
      BY <1>4, <2>1, <3>1, <3>2 DEF Ordered
    <3>3. CASE j = Len(q[l]) + 1
      <4>1. q[l][i] \in Functors /\ In(q, l, q[l][i]) /\ q[l][i].conn = g.conn
        BY <1>1, <1>4, <2>1, <3>1, <3>3 DEF In
      <4> QED
        BY <1>4, <2>1, <3>1, <3>3, <4>1 DEF OnlySends
    <3> QED
      BY <1>6, <2>1, <3>2, <3>3
  <2>2. CASE k # l
    BY <1>3, <2>2 DEF Ordered
  <2> QED
    BY <2>1, <2>2
<1>8. \A k \in Loops : Len(p[k]) >= Len(q[k])
  BY <1>3, <1>4, <1>5
<1>9. \A k \in Loops, f \in Functors : In(p, k, f) <=> In(q, k, f) \/ (k = l /\ f = g)
  BY InAdded
<1> QED
  BY <1>2, <1>3, <1>7, <1>8, <1>9 DEF AfterAdded

\* What is so after Moved().
AfterMoved(q, p, b, l, g) ==
  /\ \A k \in Loops : p[k] \in Seq(Functors)
  /\ Len(p[b]) = Len(q[b]) - 1 /\ \A k \in Loops \ {b} : Len(p[k]) >= Len(q[k])
  /\ Ordered(p)
  /\ \A k \in Loops, f \in Functors : In(p, k, f) => In(q, k, f) \/ (k = l /\ f = g)
  /\ \A k \in Loops, f \in Functors :
       In(q, k, f) => In(p, k, f) \/ (k = b /\ f = Head(q[b]))
  /\ In(p, l, g)
  /\ \A f \in Functors :
       In(p, b, f) /\ f.conn = Head(q[b]).conn =>
         Head(q[b]).op \in Sends \/ f.op = "SendPrivate"

\* The oldest functor of one queue is taken out and another is put in a
\* second queue.
LEMMA MoveKeeps ==
  ASSUME NEW q \in [Loops -> Seq(Functors)], Ordered(q), NEW b \in Loops, Len(q[b]) > 0,
         NEW l \in Loops \ {b}, NEW g \in Functors, OnlySends(q, l, g.conn),
         NEW p, Moved(q, p, b, l, g)
  PROVE  AfterMoved(q, p, b, l, g)
<1>1. PICK r : r = [k \in Loops |-> IF k = b THEN Tail(q[b]) ELSE q[k]]
  OBVIOUS
<1>2. r[b] = Tail(q[b]) /\ \A k \in Loops \ {b} : r[k] = q[k]
  BY <1>1
<1>3. Popped(q, r, b)
  BY <1>2 DEF Popped
<1>4. AfterPopped(q, r, b)
  BY <1>3, PopKeeps
<1>5. r[b] \in Seq(Functors) /\ Len(r[b]) = Len(q[b]) - 1 /\ Ordered(r)
  BY <1>4 DEF AfterPopped
<1>6. \A k \in Loops, f \in Functors : In(r, k, f) => In(q, k, f)
  BY <1>4 DEF AfterPopped
<1>7. \A k \in Loops, f \in Functors : In(q, k, f) => In(r, k, f) \/ (k = b /\ f = Head(q[b]))
  BY <1>4 DEF AfterPopped
<1>8. \A f \in Functors : In(r, b, f) /\ f.conn = Head(q[b]).conn =>
        Head(q[b]).op \in Sends \/ f.op = "SendPrivate"
  BY <1>4 DEF AfterPopped
<1>9. r \in [Loops -> Seq(Functors)]
  BY <1>1, <1>2, <1>5
<1>10. OnlySends(r, l, g.conn)
  BY <1>6 DEF OnlySends
<1>11. p[l] = Append(r[l], g) /\ \A k \in Loops \ {l} : p[k] = r[k]
  BY <1>2 DEF Moved
<1>12. Added(r, p, l, g)
  BY <1>11 DEF Added
<1>13. AfterAdded(r, p, l, g)
  BY <1>5, <1>9, <1>10, <1>12, PutKeeps
<1>14. p[l] \in Seq(Functors) /\ Ordered(p) /\ \A k \in Loops : Len(p[k]) >= Len(r[k])
  BY <1>13 DEF AfterAdded
<1>15. \A k \in Loops, f \in Functors : In(p, k, f) <=> In(r, k, f) \/ (k = l /\ f = g)
  BY <1>13 DEF AfterAdded
<1>16. \A k \in Loops : p[k] \in Seq(Functors)
  BY <1>9, <1>11, <1>14
<1>17. Len(p[b]) = Len(q[b]) - 1 /\ \A k \in Loops \ {b} : Len(p[k]) >= Len(q[k])
  BY <1>2, <1>5, <1>11, <1>14
<1>18. \A k \in Loops, f \in Functors : In(p, k, f) => In(q, k, f) \/ (k = l /\ f = g)
  BY <1>6, <1>15
<1>19. \A k \in Loops, f \in Functors : In(q, k, f) => In(p, k, f) \/ (k = b /\ f = Head(q[b]))
  BY <1>7, <1>15
<1>20. \A f \in Functors :
         In(p, b, f) /\ f.conn = Head(q[b]).conn =>
           Head(q[b]).op \in Sends \/ f.op = "SendPrivate"
  BY <1>8, <1>15
<1> QED
  BY <1>14, <1>15, <1>16, <1>17, <1>18, <1>19, <1>20 DEF AfterMoved

-----------------------------------------------------------------------------
(* What a step leaves as it was.                                           *)

\* The stages of all connections.
LEMMA StageSame ==
  ASSUME UNCHANGED <<state, connections, downed, epoll, loopOf>>
  PROVE  \A c \in Conns : Stage(c)' = Stage(c)
BY DEF Stage

\* A functor that waits goes on waiting when its connection stays at its
\* stage, a SendInLoop() at the later ones too, and that of a private line
\* at all of them.
LEMMA WaitsKeeps ==
  ASSUME NEW l \in Loops, NEW f \in Functors, Waits(l, f),
         loopOf'[f.conn] = loopOf[f.conn],
         \/ Stage(f.conn)' = Stage(f.conn)
         \/ f.op = "SendInLoop" /\ Stage(f.conn)' \in {"up", "closing", "removing", "ended"}
         \/ f.op = "SendPrivate",
         f.op = "SendInLoop" /\ Stage(f.conn)' = "ended" =>
           In(queue', l, Functor("ConnectDestroyed", f.conn))
  PROVE  Waits(l, f)'
BY DEF Waits

\* The queues, when none of them changes and a connection at most begins to
\* close.
LEMMA QueueSame ==
  ASSUME QueueInv, UNCHANGED <<queue, loopOf>>,
         \A c \in Conns : Stage(c)' = Stage(c) \/ (Stage(c) = "up" /\ Stage(c)' = "closing"),
         \A l \in Loops : batch'[l] <= Len(queue[l])
  PROVE  QueueInv'
<1>1. ASSUME NEW l \in Loops, NEW f \in Functors, In(queue, l, f) PROVE Waits(l, f)'
  <2>1. Waits(l, f) /\ f.conn \in Conns /\ f.op \in Ops
    BY <1>1 DEF QueueInv, Functors
  <2>2. Stage(f.conn) = "up" => f.op \in Sends
    BY <2>1 DEF Waits, Ops
  <2>3. f.op = "SendInLoop" /\ Stage(f.conn)' = "ended" =>
          In(queue', l, Functor("ConnectDestroyed", f.conn))
    BY <2>1 DEF Waits
  <2> QED
    BY <2>1, <2>2, <2>3, WaitsKeeps DEF Sends
<1> QED
  BY <1>1 DEF QueueInv

\* A functor other than RemoveConnectionInLoop() has been called.
LEMMA QueuePop ==
  ASSUME TypeOK, QueueInv, NEW l \in Loops, NEW h, h = Head(queue[l]),
         batch[l] > 0, batch' = [batch EXCEPT ![l] = @ - 1], Pop(l), UNCHANGED loopOf,
         \A c \in Conns : Stage(c)' = Stage(c) \/ (c = h.conn /\ h.op = "ConnectionEstablished")
  PROVE  QueueInv' /\ queue' \in [Loops -> Seq(Functors)] /\ batch' \in [Loops -> Nat]
<1>1. /\ queue \in [Loops -> Seq(Functors)] /\ batch \in [Loops -> Nat]
      /\ \A k \in Loops : Len(queue[k]) \in Nat
  BY LenProperties DEF TypeOK, Functors
<1>2. Ordered(queue) /\ Len(queue[l]) > 0 /\ queue' = [queue EXCEPT ![l] = Tail(@)]
  BY <1>1 DEF QueueInv, Pop
<1>3. /\ queue' \in [Loops -> Seq(Functors)] /\ Len(queue'[l]) = Len(queue[l]) - 1
      /\ Ordered(queue')
      /\ h \in Functors /\ In(queue, l, h)
      /\ \A k \in Loops, f \in Functors : In(queue', k, f) => In(queue, k, f)
      /\ \A k \in Loops, f \in Functors :
           In(queue, k, f) => In(queue', k, f) \/ (k = l /\ f = h)
      /\ \A f \in Functors : In(queue', l, f) /\ f.conn = h.conn =>
           h.op \in Sends \/ f.op = "SendPrivate"
  <2>1. queue \in [Loops -> Seq(Functors)] /\ Ordered(queue) /\ Len(queue[l]) > 0
    BY <1>1, <1>2
  <2>2. Popped(queue, queue', l) /\ queue'[l] = Tail(queue[l])
    BY <1>1, <1>2 DEF Popped
  <2>3. AfterPopped(queue, queue', l)
    BY <2>1, <2>2, PopKeeps
  <2>4. queue' \in [Loops -> Seq(Functors)]
    BY <1>2, <2>1, <2>2, <2>3 DEF AfterPopped
  <2> QED
    BY <2>3, <2>4 DEF AfterPopped
<1>4. ASSUME NEW k \in Loops PROVE batch'[k] <= Len(queue'[k])
  <2>1. CASE k = l
    BY <1>1, <1>3, <2>1 DEF QueueInv
  <2>2. CASE k # l
    BY <1>1, <1>2, <2>2 DEF QueueInv
  <2> QED
    BY <2>1, <2>2
<1>5. ASSUME NEW k \in Loops, NEW f \in Functors, In(queue', k, f) PROVE Waits(k, f)'
  <2>1. Waits(k, f) /\ Waits(l, h) /\ f.conn \in Conns /\ h.conn \in Conns /\ f.op \in Ops
    BY <1>3, <1>5 DEF QueueInv, Functors
  <2>2. CASE f.op = "SendPrivate"
    BY <2>1, <2>2 DEF Waits
  <2>3. CASE f.op # "SendPrivate" /\ f.conn = h.conn /\ h.op = "ConnectionEstablished"
    <3>1. k = l
      BY <2>1, <2>3 DEF Waits, Ops, Sends
    <3> QED
      BY <1>3, <1>5, <2>3, <3>1 DEF Sends
  <2>4. CASE ~(f.conn = h.conn /\ h.op = "ConnectionEstablished")
    <3>1. Stage(f.conn)' = Stage(f.conn)
      BY <2>1, <2>4
    <3>2. ASSUME f.op = "SendInLoop", Stage(f.conn)' = "ended"
          PROVE  In(queue', k, Functor("ConnectDestroyed", f.conn))
      <4> DEFINE d == Functor("ConnectDestroyed", f.conn)
      <4>1. d \in Functors /\ d.conn = f.conn /\ d.op = "ConnectDestroyed"
        BY <2>1 DEF Functor, Functors, Ops
      <4>2. In(queue, k, d)
        BY <2>1, <3>1, <3>2 DEF Waits
      <4> HIDE DEF d
      <4>3. ~(k = l /\ d = h)
        BY <1>3, <1>5, <3>2, <4>1 DEF Sends
      <4> QED
        BY <1>3, <4>1, <4>2, <4>3 DEF d
    <3> QED
      BY <2>1, <3>1, <3>2, WaitsKeeps
  <2> QED
    BY <2>2, <2>3, <2>4
<1>6. batch' \in [Loops -> Nat]
  BY <1>1
<1> QED
  BY <1>3, <1>4, <1>5, <1>6 DEF QueueInv

\* A functor has been queued.
LEMMA QueuePut ==
  ASSUME TypeOK, QueueInv, NEW l \in Loops, NEW g \in Functors, Put(l, g), UNCHANGED batch,
         \A c \in Conns \ {g.conn} : Stage(c)' = Stage(c) /\ loopOf'[c] = loopOf[c],
         Waits(l, g)',
         \A k \in Loops, f \in Functors :
           In(queue, k, f) /\ f.conn = g.conn /\ f.op # "SendPrivate" =>
             /\ f.op = "SendInLoop" /\ k = loopOf'[f.conn]
             /\ Stage(f.conn)' \in {"up", "closing", "removing"}
  PROVE  QueueInv' /\ queue' \in [Loops -> Seq(Functors)]
<1>1. /\ queue \in [Loops -> Seq(Functors)] /\ batch \in [Loops -> Nat]
      /\ \A k \in Loops : Len(queue[k]) \in Nat
  BY LenProperties DEF TypeOK, Functors
<1>2. /\ queue' \in [Loops -> Seq(Functors)] /\ Ordered(queue')
      /\ \A k \in Loops : Len(queue'[k]) >= Len(queue[k])
      /\ \A k \in Loops, f \in Functors :
           In(queue', k, f) <=> In(queue, k, f) \/ (k = l /\ f = g)
  <2>1. queue \in [Loops -> Seq(Functors)] /\ Ordered(queue)
    BY <1>1 DEF QueueInv
  <2>2. Added(queue, queue', l, g)
    BY <2>1 DEF Put, Added
  <2>3. OnlySends(queue, l, g.conn)
    BY DEF OnlySends, Sends
  <2>4. AfterAdded(queue, queue', l, g)
    BY <2>1, <2>2, <2>3, PutKeeps
  <2> QED
    BY <2>1, <2>2, <2>4 DEF Put, Added, AfterAdded
<1>3. ASSUME NEW k \in Loops PROVE batch'[k] <= Len(queue'[k])
  <2>1. Len(queue'[k]) \in Nat
    BY <1>2, LenProperties
  <2> QED
    BY <1>1, <1>2, <2>1 DEF QueueInv
<1>4. ASSUME NEW k \in Loops, NEW f \in Functors, In(queue', k, f) PROVE Waits(k, f)'
  <2>1. CASE k = l /\ f = g
    BY <2>1
  <2>2. CASE In(queue, k, f) /\ f.conn = g.conn
    BY <2>2 DEF Waits
  <2>3. CASE In(queue, k, f) /\ f.conn # g.conn
    <3>1. Waits(k, f) /\ f.conn \in Conns
      BY <2>3 DEF QueueInv, Functors
    <3>2. Functor("ConnectDestroyed", f.conn) \in Functors
      BY <3>1 DEF Functor, Functors, Ops
    <3>3. f.op = "SendInLoop" /\ Stage(f.conn)' = "ended" =>
            In(queue', k, Functor("ConnectDestroyed", f.conn))
      BY <1>2, <2>3, <3>1, <3>2 DEF Waits
    <3> QED
      BY <2>3, <3>1, <3>3, WaitsKeeps
  <2> QED
    BY <1>2, <1>4, <2>1, <2>2, <2>3
<1> QED
  BY <1>2, <1>3, <1>4 DEF QueueInv

\* The SendInLoop() of a private line has been queued.
LEMMA QueuePutPrivate ==
  ASSUME TypeOK, QueueInv, NEW l \in Loops, NEW g \in Functors, g.op = "SendPrivate",
         Put(l, g), UNCHANGED <<batch, loopOf>>, \A c \in Conns : Stage(c)' = Stage(c)
  PROVE  QueueInv' /\ queue' \in [Loops -> Seq(Functors)]
<1>1. /\ queue \in [Loops -> Seq(Functors)] /\ batch \in [Loops -> Nat]
      /\ \A k \in Loops : Len(queue[k]) \in Nat
  BY LenProperties DEF TypeOK, Functors
<1>2. queue \in [Loops -> Seq(Functors)] /\ Ordered(queue)
  BY <1>1 DEF QueueInv
<1>3. Added(queue, queue', l, g)
  BY <1>2 DEF Put, Added
<1>4. AfterAdded(queue, queue', l, g)
  BY <1>2, <1>3, PutKeeps
<1>5. /\ queue' \in [Loops -> Seq(Functors)] /\ Ordered(queue')
      /\ \A k \in Loops : Len(queue'[k]) >= Len(queue[k])
      /\ \A k \in Loops, f \in Functors :
           In(queue', k, f) <=> In(queue, k, f) \/ (k = l /\ f = g)
  BY <1>2, <1>3, <1>4 DEF Put, Added, AfterAdded
<1>6. ASSUME NEW k \in Loops PROVE batch'[k] <= Len(queue'[k])
  <2>1. Len(queue'[k]) \in Nat
    BY <1>5, LenProperties
  <2> QED
    BY <1>1, <1>5, <2>1 DEF QueueInv
<1>7. ASSUME NEW k \in Loops, NEW f \in Functors, In(queue', k, f) PROVE Waits(k, f)'
  <2>1. CASE f = g
    BY <2>1 DEF Waits
  <2>2. CASE f # g
    <3>1. Waits(k, f) /\ f.conn \in Conns /\ In(queue, k, f)
      BY <1>5, <1>7, <2>2 DEF QueueInv, Functors
    <3>2. Functor("ConnectDestroyed", f.conn) \in Functors
      BY <3>1 DEF Functor, Functors, Ops
    <3>3. f.op = "SendInLoop" /\ Stage(f.conn)' = "ended" =>
            In(queue', k, Functor("ConnectDestroyed", f.conn))
      BY <1>5, <3>1, <3>2 DEF Waits
    <3> QED
      BY <3>1, <3>3, WaitsKeeps
  <2> QED
    BY <2>1, <2>2
<1> QED
  BY <1>5, <1>6, <1>7 DEF QueueInv

-----------------------------------------------------------------------------
(* The steps that leave the queues and the stages as they are.             *)

\* The loops and the connections.
LEMMA Constants ==
  /\ Base \in Loops /\ IoLoops \subseteq Loops /\ Base \notin IoLoops
  /\ Nobody \notin Conns /\ Acceptor \notin Conns /\ Conns \subseteq Nat
BY PoolAssumption, BoundAssumption DEF Loops, Nobody, Acceptor, Conns

\* The invariant holds when the server is made.
LEMMA ServerInit == Init => ServerInv
<1> SUFFICES ASSUME Init PROVE ServerInv
  OBVIOUS
<1>1. 1 \in 1..(MaxConns + 1) /\ 1 \in 1..Len(Pool) /\ 0 \in 0..MaxSends /\ 0 \in 0..MaxConns
  BY PoolAssumption, BoundAssumption, EmptySeq
<1>2. <<>> \in Seq([op : Ops, conn : Conns]) /\ Len(<<>>) = 0
  BY EmptySeq
<1>3. TypeOK
  BY <1>1, <1>2 DEF Init, TypeOK, Pcs
<1>4. \A c \in Conns : Stage(c) = "none" /\ ~(c < nextId)
  BY Constants DEF Init, Stage, Conns
<1>5. StageInv
  BY <1>4 DEF Init, StageInv
<1>6. PlaceInv
  BY <1>4, Constants DEF Init, PlaceInv
<1>7. CastInv
  BY DEF Init, CastInv, Broadcasting
<1>8. QueueInv
  BY <1>2 DEF Init, QueueInv, Ordered, In
<1>9. DoneInv
  BY DEF Init, DoneInv
<1> QED
  BY <1>3, <1>5, <1>6, <1>7, <1>8, <1>9 DEF ServerInv

\* The queues and the batch vectors.
LEMMA QueueFrame ==
  ASSUME ServerInv, UNCHANGED <<queue, loopOf, batch, done>>,
         \A c \in Conns : Stage(c)' = Stage(c)
  PROVE  QueueInv' /\ DoneInv'
<1>1. QueueInv'
  <2>1. \A l \in Loops : batch'[l] <= Len(queue[l])
    BY DEF ServerInv, QueueInv
  <2> QED
    BY <2>1, QueueSame DEF ServerInv
<1> QED
  BY <1>1 DEF ServerInv, DoneInv, TypeOK

\* Start().
LEMMA StartKeeps ==
  ASSUME ServerInv, Start
  PROVE  ServerInv'
<1>1. TypeOK /\ StageInv /\ PlaceInv /\ CastInv
  BY DEF ServerInv
<1>2. TypeOK'
  BY <1>1, Constants
     DEF Start, Goto, TypeOK, Pcs, pool, life, run, app, peer
<1>3. \A c \in Conns : Stage(c)' = Stage(c)
  <2>1. epoll' = [epoll EXCEPT ![Base] = {Acceptor}] /\ UNCHANGED <<state, connections, downed, loopOf>>
    BY DEF Start, life, pool
  <2>2. ASSUME NEW c \in Conns, state[c] # "none"
        PROVE  epoll'[loopOf[c]] = epoll[loopOf[c]]
    BY <1>1, <2>1, <2>2, Constants DEF StageInv, TypeOK
  <2> QED
    BY <2>1, <2>2 DEF Stage
<1>4. StageInv'
  BY <1>1, <1>3 DEF Start, Goto, StageInv, TypeOK, pool, life
<1>5. PlaceInv'
  <2>1. pc[Base] = "start" /\ at[Base] = Nobody /\ active[Base] \subseteq epoll[Base]
    BY <1>1, Constants DEF Start, Goto, PlaceInv
  <2>2. \A c \in Conns : c \notin epoll[Base]
    BY <1>1, Constants DEF PlaceInv, StageInv, Stage
  <2>3. active[Base] \subseteq {Acceptor}
    <3>1. epoll[Base] \subseteq Conns \cup {Acceptor}
      BY <1>1, Constants DEF TypeOK
    <3> QED
      BY <2>1, <2>2, <3>1
  <2> QED
    BY <1>1, <1>3, <2>1, <2>2, <2>3, Constants DEF Start, Goto, PlaceInv, TypeOK, pool, peer
<1>6. CastInv'
  BY <1>1 DEF Start, Goto, CastInv, Broadcasting, TypeOK, app
<1>7. QueueInv' /\ DoneInv'
  BY <1>3, QueueFrame DEF Start, pool, run
<1> QED
  BY <1>2, <1>4, <1>5, <1>6, <1>7 DEF ServerInv

\* The steps of a loop from one place to the next.
LEMMA LoopKeeps ==
  ASSUME ServerInv, NEW l \in Loops,
         Poll(l) \/ HandleRead(l) \/ BodyDone(l) \/ DispatchDone(l) \/ BatchDone(l)
  PROVE  ServerInv'
<1>1. TypeOK /\ StageInv /\ PlaceInv /\ CastInv /\ QueueInv /\ DoneInv
  BY DEF ServerInv
<1>2. UNCHANGED <<state, connections, downed, epoll, loopOf, nextId, queue, reg, arrived>>
  BY DEF Poll, HandleRead, BodyDone, DispatchDone, BatchDone, pool, life, peer, poller
<1>3. \A c \in Conns : Stage(c)' = Stage(c)
  BY <1>2, StageSame
<1>4. \A k \in Loops \ {l} : pc'[k] = pc[k] /\ at'[k] = at[k]
  BY <1>1 DEF Poll, HandleRead, BodyDone, DispatchDone, BatchDone, Goto, HandleEvent, TypeOK
<1>5. StageInv'
  <2>1. pc[l] # "down"
    BY DEF Poll, HandleRead, BodyDone, DispatchDone, BatchDone, Goto
  <2> QED
    BY <1>1, <1>2, <1>3, <1>4, <2>1, Constants DEF StageInv, Stage
<1>6. CASE Poll(l)
  <2>1. /\ pc' = [pc EXCEPT ![l] = "dispatch"] /\ pc[l] = "poll"
        /\ active' = [active EXCEPT ![l] = epoll[l] \cap Ready]
        /\ UNCHANGED <<at, app, pool, batch, done, data, eof>>
    BY <1>6 DEF Poll, Goto, run, app, peer
  <2>2. TypeOK'
    BY <1>1, <1>2, <2>1 DEF TypeOK, Pcs, pool, app
  <2>3. Acceptor \in active'[Base] => nextId <= arrived
    BY <1>1, <2>1, Constants DEF TypeOK, PlaceInv, Ready
  <2>4. PlaceInv'
    BY <1>1, <1>2, <1>3, <2>1, <2>3 DEF PlaceInv, TypeOK
  <2>5. CastInv'
    BY <1>1, <1>2, <2>1 DEF CastInv, Broadcasting, TypeOK, app
  <2>6. QueueInv' /\ DoneInv'
    BY <1>2, <1>3, <2>1, QueueFrame
  <2> QED
    BY <1>5, <2>2, <2>4, <2>5, <2>6 DEF ServerInv
<1>7. CASE HandleRead(l)
  <2>1. PICK c \in active[l] \cap data :
          /\ pc' = [pc EXCEPT ![l] = "body"] /\ pc[l] = "dispatch"
          /\ active' = [active EXCEPT ![l] = @ \ {c}]
          /\ at' = [at EXCEPT ![l] = c]
          /\ data' = data \ {c}
          /\ UNCHANGED <<pool, batch, done, eof, todo, sending, made, found, passed, crashed>>
    BY <1>7 DEF HandleRead, HandleEvent, Goto, run, app
  <2>2. c \in Conns /\ Stage(c) = "up" /\ loopOf[c] = l /\ c # Nobody
    BY <1>1, <2>1, Constants DEF TypeOK, PlaceInv
  <2>3. TypeOK'
    BY <1>1, <1>2, <2>1, <2>2 DEF TypeOK, Pcs, pool
  <2>4. PlaceInv'
    BY <1>1, <1>2, <1>3, <2>1, <2>2, Constants DEF PlaceInv, TypeOK
  <2>5. CastInv'
    BY <1>1, <1>2, <2>1 DEF CastInv, Broadcasting, TypeOK
  <2>6. QueueInv' /\ DoneInv'
    BY <1>2, <1>3, <2>1, QueueFrame
  <2> QED
    BY <1>5, <2>3, <2>4, <2>5, <2>6 DEF ServerInv
<1>8. CASE BodyDone(l)
  <2>1. /\ pc' = [pc EXCEPT ![l] = "dispatch"] /\ pc[l] = "body"
        /\ todo[l] = {} /\ sending[l] = Nobody
        /\ at' = [at EXCEPT ![l] = Nobody]
        /\ UNCHANGED <<pool, active, batch, done, data, eof, todo, sending, made, found, passed, crashed>>
    BY <1>8 DEF BodyDone, Busy, Broadcasting, Goto, run, app, poller, peer
  <2>2. TypeOK'
    BY <1>1, <1>2, <2>1 DEF TypeOK, Pcs, pool
  <2>3. PlaceInv'
    BY <1>1, <1>2, <1>3, <2>1, Constants DEF PlaceInv, TypeOK
  <2>4. CastInv'
    BY <1>1, <1>2, <2>1 DEF CastInv, Broadcasting, TypeOK
  <2>5. QueueInv' /\ DoneInv'
    BY <1>2, <1>3, <2>1, QueueFrame
  <2> QED
    BY <1>5, <2>2, <2>3, <2>4, <2>5 DEF ServerInv
<1>9. CASE DispatchDone(l) \/ BatchDone(l)
  <2>1. /\ \/ pc' = [pc EXCEPT ![l] = "functors"] /\ pc[l] = "dispatch"
           \/ pc' = [pc EXCEPT ![l] = "poll"] /\ pc[l] = "functors"
        /\ batch' \in {batch, [batch EXCEPT ![l] = Len(queue[l])]}
        /\ done' \in {done, [done EXCEPT ![l] = {}]}
        /\ UNCHANGED <<pool, active, at, data, eof, todo, sending, made, found, passed, crashed>>
    BY <1>9 DEF DispatchDone, BatchDone, Goto, run, app, poller, peer
  <2>2. Len(queue[l]) \in Nat
    BY <1>1, LenProperties DEF TypeOK
  <2>3. batch' \in [Loops -> Nat] /\ \A k \in Loops : batch'[k] <= Len(queue[k])
    <3>1. batch \in [Loops -> Nat] /\ \A k \in Loops : batch[k] <= Len(queue[k])
      BY <1>1 DEF TypeOK, QueueInv
    <3>2. CASE batch' = batch
      BY <3>1, <3>2
    <3>3. CASE batch' = [batch EXCEPT ![l] = Len(queue[l])]
      BY <2>2, <3>1, <3>3
    <3> QED
      BY <2>1, <3>2, <3>3
  <2>4. done' \in [Loops -> SUBSET Conns] /\ \A k \in Loops : done'[k] \subseteq done[k]
    BY <1>1, <2>1 DEF TypeOK
  <2>5. pc' \in [Loops -> Pcs]
    BY <1>1, <2>1 DEF TypeOK, Pcs
  <2>6. TypeOK'
    BY <1>1, <1>2, <2>1, <2>3, <2>4, <2>5 DEF TypeOK, pool
  <2>7. PlaceInv'
    <3>1. pc[l] \notin {"body", "down"} /\ pc'[l] \notin {"body", "down"}
      BY <1>1, <2>1 DEF TypeOK
    <3>2. at[l] = Nobody
      BY <1>1, <3>1 DEF PlaceInv
    <3> QED
      <4>1. UNCHANGED <<active, epoll, at, loopOf, reg, nextId, arrived>>
        BY <1>2, <2>1
      <4>2. \A k \in Loops : (at[k] # Nobody <=> pc'[k] \in {"body", "down"})
                            /\ (at[k] # Nobody => pc'[k] = pc[k])
        BY <1>1, <1>4, <3>1, <3>2 DEF PlaceInv
      <4>3. \A c \in Conns, k \in Loops : at[k] = c => at[k] # Nobody
        BY Constants
      <4> QED
        BY <1>1, <1>3, <4>1, <4>2, <4>3 DEF PlaceInv, TypeOK
  <2>8. CastInv'
    BY <1>1, <1>2, <2>1 DEF CastInv, Broadcasting, TypeOK
  <2>9. QueueInv'
    BY <1>1, <1>2, <1>3, <2>3, QueueSame
  <2>10. DoneInv'
    BY <1>1, <1>3, <2>4 DEF DoneInv, TypeOK
  <2> QED
    BY <1>5, <2>6, <2>7, <2>8, <2>9, <2>10 DEF ServerInv
<1> QED
  BY <1>6, <1>7, <1>8, <1>9

\* What the application does, but for what it queues.
LEMMA AppKeeps ==
  ASSUME ServerInv, NEW l \in Loops,
         \/ Register(l) \/ Shutdown(l) \/ Broadcast(l) \/ SendCheck(l)
         \/ PrivateFind(l) \/ PrivateCheck(l) \/ UseAfterFree(l)
  PROVE  ServerInv'
<1>1. TypeOK /\ StageInv /\ PlaceInv /\ CastInv /\ QueueInv /\ DoneInv
  BY DEF ServerInv
<1>2. UNCHANGED <<pool, connections, downed, epoll, active, loopOf, nextId, queue, batch, done, pc,
                 at, arrived, data>>
  BY DEF Register, Shutdown, Broadcast, SendCheck, PrivateFind, PrivateCheck, UseAfterFree,
         pool, life, peer, poller, run, control
<1>3. CASE Register(l)
  <2>1. /\ pc[l] = "body" /\ reg' = reg \cup {at[l]}
        /\ UNCHANGED <<state, todo, sending, made, found, passed, crashed, eof>>
    BY <1>3 DEF Register, life, app, peer
  <2>2. at[l] \in Conns /\ Stage(at[l]) = "up"
    BY <1>1, <2>1 DEF TypeOK, PlaceInv
  <2>3. \A c \in Conns : Stage(c)' = Stage(c)
    BY <1>2, <2>1, StageSame
  <2>4. TypeOK'
    BY <1>1, <1>2, <2>1, <2>2 DEF TypeOK, pool
  <2>5. StageInv'
    BY <1>1, <1>2, <2>1, <2>3 DEF StageInv
  <2>6. PlaceInv'
    <3>1. \A c \in reg' : Stage(c)' \in {"up", "closing"}
      BY <1>1, <2>1, <2>2, <2>3 DEF PlaceInv, TypeOK
    <3> QED
      BY <1>1, <1>2, <2>3, <3>1 DEF PlaceInv
  <2>7. CastInv'
    BY <1>1, <1>2, <2>1 DEF CastInv, Broadcasting
  <2>8. QueueInv' /\ DoneInv'
    BY <1>2, <2>3, QueueFrame
  <2> QED
    BY <2>4, <2>5, <2>6, <2>7, <2>8 DEF ServerInv
<1>4. CASE Shutdown(l)
  <2>1. /\ pc[l] = "body" /\ state[at[l]] = "kConnected"
        /\ state' = [state EXCEPT ![at[l]] = "kDisconnected"]
        /\ eof' = eof \cup {at[l]}
        /\ UNCHANGED <<reg, todo, sending, made, found, passed, crashed>>
    BY <1>4 DEF Shutdown, app
  <2>2. at[l] \in Conns /\ Stage(at[l]) = "up"
    BY <1>1, <2>1 DEF TypeOK, PlaceInv
  <2>3. \A c \in Conns : Stage(c)' = Stage(c)
    BY <1>1, <1>2, <2>1, <2>2 DEF Stage, TypeOK
  <2>4. TypeOK'
    BY <1>1, <1>2, <2>1, <2>2 DEF TypeOK, pool
  <2>5. StageInv'
    BY <1>1, <1>2, <2>1, <2>2, <2>3 DEF StageInv, TypeOK
  <2>6. PlaceInv'
    BY <1>1, <1>2, <2>1, <2>3 DEF PlaceInv, TypeOK
  <2>7. CastInv'
    BY <1>1, <1>2, <2>1 DEF CastInv, Broadcasting
  <2>8. QueueInv' /\ DoneInv'
    BY <1>2, <2>3, QueueFrame
  <2> QED
    BY <2>4, <2>5, <2>6, <2>7, <2>8 DEF ServerInv
<1>5. CASE Broadcast(l) \/ SendCheck(l)
  <2>1. UNCHANGED <<state, reg, eof, found, passed, crashed>> /\ pc[l] = "body"
    BY <1>1, <1>5 DEF Broadcast, SendCheck, CastInv, Broadcasting, life, peer, private
  <2>2. /\ todo' \in [Loops -> SUBSET Conns] /\ sending' \in [Loops -> Conns \cup {Nobody}]
        /\ made' \in 0..MaxSends
        /\ todo'[l] \subseteq reg /\ sending'[l] \in reg \cup {Nobody}
        /\ \A k \in Loops \ {l} : todo'[k] = todo[k] /\ sending'[k] = sending[k]
    <3>1. CASE Broadcast(l)
      <4>1. made' = made + 1 /\ made < MaxSends /\ made \in 0..MaxSends
        BY <1>1, <3>1 DEF Broadcast, TypeOK
      <4>2. made' \in 0..MaxSends
        BY <4>1, BoundAssumption
      <4>3. todo' = [todo EXCEPT ![l] = reg] /\ UNCHANGED sending
        BY <3>1 DEF Broadcast
      <4> QED
        BY <1>1, <4>2, <4>3 DEF TypeOK, CastInv
    <3>2. CASE SendCheck(l)
      BY <1>1, <3>2 DEF SendCheck, TypeOK, CastInv
    <3> QED
      BY <1>5, <3>1, <3>2
  <2>3. \A c \in Conns : Stage(c)' = Stage(c)
    BY <1>2, <2>1, StageSame
  <2>4. TypeOK'
    BY <1>1, <1>2, <2>1, <2>2 DEF TypeOK, pool
  <2>5. StageInv'
    BY <1>1, <1>2, <2>1, <2>3 DEF StageInv
  <2>6. PlaceInv'
    BY <1>1, <1>2, <2>1, <2>3 DEF PlaceInv, TypeOK
  <2>7. CastInv'
    BY <1>1, <1>2, <2>1, <2>2 DEF CastInv, Broadcasting
  <2>8. QueueInv' /\ DoneInv'
    BY <1>2, <2>3, QueueFrame
  <2> QED
    BY <2>4, <2>5, <2>6, <2>7, <2>8 DEF ServerInv
<1>6. CASE PrivateFind(l) \/ PrivateCheck(l) \/ UseAfterFree(l)
  <2>1. UNCHANGED <<state, reg, eof, todo, sending>>
    BY <1>6 DEF PrivateFind, PrivateCheck, UseAfterFree, life, peer
  <2>2. made' \in 0..MaxSends
    <3>1. made \in 0..MaxSends /\ (made' = made \/ (made < MaxSends /\ made' = made + 1))
      BY <1>1, <1>6 DEF PrivateFind, PrivateCheck, UseAfterFree, TypeOK
    <3> QED
      BY <3>1, BoundAssumption
  <2>3. /\ found' \in [Loops -> Conns \cup {Nobody}]
        /\ passed' \in [Loops -> Conns \cup {Nobody}]
        /\ crashed' \in BOOLEAN
    <3>1. /\ found \in [Loops -> Conns \cup {Nobody}] /\ passed \in [Loops -> Conns \cup {Nobody}]
          /\ reg \subseteq Conns /\ crashed \in BOOLEAN
      BY <1>1 DEF TypeOK
    <3>2. CASE PrivateFind(l)
      BY <3>1, <3>2 DEF PrivateFind
    <3>3. CASE PrivateCheck(l)
      <4>1. found[l] \in Conns \cup {Nobody}
        BY <3>1
      <4>2. passed' \in {[passed EXCEPT ![l] = found[l]], [passed EXCEPT ![l] = Nobody]}
        BY <3>3 DEF PrivateCheck
      <4> QED
        BY <3>1, <3>3, <4>1, <4>2 DEF PrivateCheck
    <3>4. CASE UseAfterFree(l)
      BY <3>1, <3>4 DEF UseAfterFree
    <3> QED
      BY <1>6, <3>2, <3>3, <3>4
  <2>4. \A c \in Conns : Stage(c)' = Stage(c)
    BY <1>2, <2>1, StageSame
  <2>5. TypeOK'
    BY <1>1, <1>2, <2>1, <2>2, <2>3 DEF TypeOK, pool
  <2>6. StageInv'
    BY <1>1, <1>2, <2>1, <2>4 DEF StageInv
  <2>7. PlaceInv'
    BY <1>1, <1>2, <2>1, <2>4 DEF PlaceInv, TypeOK
  <2>8. CastInv'
    BY <1>1, <1>2, <2>1 DEF CastInv, Broadcasting
  <2>9. QueueInv' /\ DoneInv'
    BY <1>2, <2>4, QueueFrame
  <2> QED
    BY <2>5, <2>6, <2>7, <2>8, <2>9 DEF ServerInv
<1> QED
  BY <1>3, <1>4, <1>5, <1>6

\* The peers.
LEMMA PeersKeep ==
  ASSUME ServerInv, PeerConnect \/ PeerSend \/ PeerClose
  PROVE  ServerInv'
<1>1. TypeOK /\ StageInv /\ PlaceInv /\ CastInv
  BY DEF ServerInv
<1>2. UNCHANGED server
  BY DEF PeerConnect, PeerSend, PeerClose
<1>3. \A c \in Conns : Stage(c)' = Stage(c)
  BY <1>2, StageSame DEF server, life, poller, pool
<1>4. arrived' \in 0..MaxConns /\ arrived' >= arrived /\ data' \subseteq Conns /\ eof' \subseteq Conns
  <2>1. 1..arrived \subseteq Conns /\ arrived \in 0..MaxConns
    BY <1>1, BoundAssumption DEF TypeOK, Conns
  <2> QED
    BY <1>1, <2>1, BoundAssumption DEF PeerConnect, PeerSend, PeerClose, TypeOK
<1>5. TypeOK'
  BY <1>1, <1>2, <1>4 DEF TypeOK, server, pool, life, poller, run, control, app
<1>6. StageInv'
  BY <1>1, <1>2, <1>3 DEF StageInv, server, pool, life, control
<1>7. PlaceInv'
  <2>1. nextId <= arrived => nextId <= arrived'
    BY <1>1, <1>4 DEF TypeOK
  <2> QED
    BY <1>1, <1>2, <1>3, <2>1 DEF PlaceInv, TypeOK, server, pool, life, poller, control
<1>8. CastInv'
  BY <1>1, <1>2 DEF CastInv, Broadcasting, server, control, app
<1>9. QueueInv' /\ DoneInv'
  BY <1>2, <1>3, QueueFrame DEF server, pool, run
<1> QED
  BY <1>5, <1>6, <1>7, <1>8, <1>9 DEF ServerInv

-----------------------------------------------------------------------------
(* The steps of a connection from one stage to the next.                   *)

\* A connection that waits in the queue of the acceptor becomes one of the
\* server's, at the stage "opening".
LEMMA AcceptKeeps ==
  ASSUME ServerInv, HandleAccept
  PROVE  ServerInv'
<1>1. TypeOK /\ StageInv /\ PlaceInv /\ CastInv /\ QueueInv /\ DoneInv
  BY DEF ServerInv
<1>2. /\ UNCHANGED <<limit, downed, epoll, batch, done, pc, at, todo, sending, made, found, passed, crashed, reg,
                     arrived, data, eof>>
      /\ active' = [active EXCEPT ![Base] = @ \ {Acceptor}]
  BY DEF HandleAccept, run, control, app, peer
<1>3. /\ active' \in [Loops -> SUBSET (Conns \cup {Acceptor})]
      /\ \A k \in Loops : active'[k] \subseteq active[k]
      /\ Acceptor \notin active'[Base]
  BY <1>1, <1>2, Constants DEF TypeOK
<1>4. CastInv'
  BY <1>1, <1>2 DEF CastInv, Broadcasting
<1>5. CASE UNCHANGED <<nextId, next, loopOf, connections, state, queue>>
  <2>1. \A c \in Conns : Stage(c)' = Stage(c)
    BY <1>2, <1>5, StageSame
  <2>2. TypeOK'
    BY <1>1, <1>2, <1>3, <1>5 DEF TypeOK
  <2>3. StageInv'
    BY <1>1, <1>2, <1>5, <2>1 DEF StageInv
  <2>4. PlaceInv'
    BY <1>1, <1>2, <1>3, <1>5, <2>1 DEF PlaceInv, TypeOK
  <2>5. QueueInv' /\ DoneInv'
    BY <1>2, <1>5, <2>1, QueueFrame
  <2> QED
    BY <1>4, <2>2, <2>3, <2>4, <2>5 DEF ServerInv
<1>6. CASE NewConnection
  <2> PICK c : c = nextId
    OBVIOUS
  <2> PICK l : l = Pool[next]
    OBVIOUS
  <2> PICK g : g = Functor("ConnectionEstablished", c)
    OBVIOUS
  <2>1. c \in Conns /\ c + 1 \in 1..(MaxConns + 1)
    <3>1. nextId <= arrived
      BY <1>1 DEF HandleAccept, PlaceInv
    <3> QED
      BY <1>1, <3>1, BoundAssumption DEF TypeOK, Conns
  <2>2. l \in IoLoops /\ l \in Loops
    BY <1>1, PoolAssumption, ElementOfSeq, Constants DEF TypeOK
  <2>3. /\ nextId' = c + 1 /\ next' = NextLoop
        /\ loopOf' = [loopOf EXCEPT ![c] = l]
        /\ state' = [state EXCEPT ![c] = "kConnecting"]
        /\ connections' = connections \cup {c}
        /\ Put(l, g)
    BY <1>6 DEF NewConnection
  <2>4. g \in Functors /\ g.op = "ConnectionEstablished" /\ g.conn = c
    BY <2>1 DEF Functor, Functors, Ops
  <2>5. next' \in 1..Len(Pool)
    <3>1. Len(Pool) \in Nat /\ next \in 1..Len(Pool)
      BY <1>1, PoolAssumption, LenProperties DEF TypeOK
    <3> QED
      BY <2>3, <3>1 DEF NextLoop
  <2>6. state[c] = "none" /\ Stage(c) = "none"
    BY <1>1, <2>1 DEF StageInv, Stage, TypeOK
  <2>7. Stage(c)' = "opening" /\ loopOf'[c] = l /\ state'[c] = "kConnecting"
    <3>1. state'[c] = "kConnecting" /\ loopOf'[c] = l
      BY <1>1, <2>1, <2>3 DEF TypeOK
    <3> QED
      BY <3>1 DEF Stage
  <2>8. \A d \in Conns \ {c} : /\ Stage(d)' = Stage(d) /\ loopOf'[d] = loopOf[d]
                               /\ state'[d] = state[d]
    BY <1>1, <1>2, <2>1, <2>3 DEF Stage, TypeOK
  <2>9. QueueInv' /\ queue' \in [Loops -> Seq(Functors)]
    <3>1. Waits(l, g)'
      BY <2>4, <2>7 DEF Waits
    <3>2. \A k \in Loops, f \in Functors :
            In(queue, k, f) /\ f.conn = g.conn /\ f.op # "SendPrivate" =>
              /\ f.op = "SendInLoop" /\ k = loopOf'[f.conn]
              /\ Stage(f.conn)' \in {"up", "closing", "removing"}
      BY <1>1, <2>4, <2>6 DEF QueueInv, Waits, Functors, Ops, Sends
    <3> QED
      BY <1>1, <1>2, <2>2, <2>3, <2>4, <2>8, <3>1, <3>2, QueuePut
  <2>10. TypeOK'
    BY <1>1, <1>2, <1>3, <2>1, <2>2, <2>3, <2>5, <2>9 DEF TypeOK, Functors
  <2>11. StageInv'
    <3>1. \A d \in Conns : d # c => (d < nextId' <=> d < nextId)
      BY <1>1, <2>1, <2>3, Constants DEF TypeOK, Conns
    <3>2. c < nextId'
      BY <2>1, <2>3, Constants
    <3>3. c \in connections' /\ c \notin downed
      BY <1>1, <2>1, <2>3, <2>6 DEF StageInv
    <3>4. \A d \in Conns \ {c} : d \in connections' <=> d \in connections
      BY <2>3
    <3>5. UNCHANGED <<pc, at, downed>>
      BY <1>2
    <3> SUFFICES ASSUME NEW d \in Conns
                 PROVE  /\ state'[d] # "none" <=> d < nextId'
                        /\ state'[d] # "none" => loopOf'[d] \in IoLoops
                        /\ d \in connections' => Stage(d)' # "none"
                        /\ Stage(d)' = "opening" => d \in connections'
                        /\ d \in downed => Stage(d)' \in {"removing", "ended"}
                        /\ Stage(d)' = "ended" => d \in downed
                        /\ Stage(d)' \in {"closing", "removing", "ended"} =>
                             state'[d] = "kDisconnected"
                        /\ Stage(d)' = "closing" => pc[loopOf'[d]] = "down" /\ at[loopOf'[d]] = d
      BY <3>5 DEF StageInv
    <3>6. CASE d = c
      BY <2>2, <2>7, <3>2, <3>3, <3>6
    <3>7. CASE d # c
      BY <1>1, <2>8, <3>1, <3>4, <3>7 DEF StageInv
    <3> QED
      BY <3>6, <3>7
  <2>12. PlaceInv'
    <3>1. ASSUME NEW k \in Loops
          PROVE  active'[k] \subseteq epoll[k] /\ (at[k] # Nobody <=> pc[k] \in {"body", "down"})
      BY <1>1, <1>3 DEF PlaceInv
    <3>2. ASSUME NEW k \in Loops, NEW d \in Conns
          PROVE  /\ d \in epoll[k] => Stage(d)' = "up" /\ loopOf'[d] = k
                 /\ at[k] = d => loopOf'[d] = k
                 /\ at[k] = d /\ pc[k] = "body" => Stage(d)' = "up"
                 /\ at[k] = d /\ pc[k] = "down" => Stage(d)' = "closing"
      <4>1. at[k] = d => pc[k] \in {"body", "down"}
        BY <1>1, Constants DEF PlaceInv
      <4>2. d = c => d \notin epoll[k] /\ at[k] # d
        BY <1>1, <2>6, <4>1 DEF PlaceInv
      <4> QED
        BY <1>1, <2>8, <4>2 DEF PlaceInv
    <3>3. \A d \in reg : Stage(d)' \in {"up", "closing"}
      <4>1. reg \subseteq Conns
        BY <1>1 DEF TypeOK
      <4> QED
        BY <1>1, <2>6, <2>8, <4>1 DEF PlaceInv
    <3> QED
      BY <1>2, <1>3, <3>1, <3>2, <3>3 DEF PlaceInv
  <2>13. DoneInv'
    BY <1>1, <1>2, <2>6, <2>8 DEF DoneInv, TypeOK
  <2> QED
    BY <1>4, <2>9, <2>10, <2>11, <2>12, <2>13 DEF ServerInv
<1> QED
  BY <1>5, <1>6 DEF HandleAccept

\* The first half of HandleClose(): "up" to "closing".
LEMMA CloseKeeps ==
  ASSUME ServerInv, NEW l \in Loops, HandleClose(l)
  PROVE  ServerInv'
<1>1. TypeOK /\ StageInv /\ PlaceInv /\ CastInv /\ QueueInv /\ DoneInv
  BY DEF ServerInv
<1>2. PICK c \in (active[l] \cap eof) \ data :
        /\ active' = [active EXCEPT ![l] = @ \ {c}]
        /\ at' = [at EXCEPT ![l] = c]
        /\ state' = [state EXCEPT ![c] = "kDisconnected"]
        /\ epoll' = [epoll EXCEPT ![l] = @ \ {c}]
  BY DEF HandleClose, HandleEvent, Disabled
<1>3. /\ pc' = [pc EXCEPT ![l] = "down"] /\ pc[l] = "dispatch"
      /\ UNCHANGED <<nextId, next, loopOf, limit, connections, downed, queue, batch, done,
                     todo, sending, made, found, passed, crashed, reg, arrived, data, eof>>
  BY DEF HandleClose, Goto, pool, run, app, peer
<1>4. c \in Conns /\ Stage(c) = "up" /\ loopOf[c] = l /\ c # Nobody
  BY <1>1, <1>2, Constants DEF TypeOK, PlaceInv
<1>5. Stage(c)' = "closing" /\ state'[c] = "kDisconnected"
  BY <1>1, <1>2, <1>3, <1>4 DEF Stage, TypeOK
<1>6. \A d \in Conns \ {c} : Stage(d)' = Stage(d) /\ state'[d] = state[d]
  BY <1>1, <1>2, <1>3, <1>4 DEF Stage, TypeOK, StageInv
<1>7. /\ \A k \in Loops \ {l} : /\ pc'[k] = pc[k] /\ at'[k] = at[k]
                                /\ active'[k] = active[k] /\ epoll'[k] = epoll[k]
      /\ pc'[l] = "down" /\ at'[l] = c
      /\ active'[l] = active[l] \ {c} /\ epoll'[l] = epoll[l] \ {c}
  BY <1>1, <1>2, <1>3 DEF TypeOK
<1>8. TypeOK'
  BY <1>1, <1>2, <1>3, <1>4 DEF TypeOK, Pcs
<1>9. StageInv'
  <2>1. ASSUME NEW d \in Conns \ {c}, Stage(d) = "closing"
        PROVE  pc'[loopOf[d]] = "down" /\ at'[loopOf[d]] = d
    <3>1. loopOf[d] \in Loops /\ pc[loopOf[d]] = "down" /\ at[loopOf[d]] = d
      BY <1>1, <2>1, Constants DEF StageInv, Stage
    <3> QED
      BY <1>3, <1>7, <3>1
  <2>2. /\ c < nextId /\ loopOf[c] \in IoLoops /\ c \in connections /\ c \notin downed
    BY <1>1, <1>4 DEF StageInv, Stage
  <2> QED
    BY <1>1, <1>3, <1>4, <1>5, <1>6, <1>7, <2>1, <2>2 DEF StageInv
<1>10. PlaceInv'
  <2>1. ASSUME NEW k \in Loops
        PROVE  /\ active'[k] \subseteq epoll'[k]
               /\ at'[k] # Nobody <=> pc'[k] \in {"body", "down"}
    BY <1>1, <1>4, <1>7 DEF PlaceInv
  <2>2. ASSUME NEW k \in Loops, NEW d \in Conns
        PROVE  /\ d \in epoll'[k] => Stage(d)' = "up" /\ loopOf[d] = k
               /\ at'[k] = d => loopOf[d] = k
               /\ at'[k] = d /\ pc'[k] = "body" => Stage(d)' = "up"
               /\ at'[k] = d /\ pc'[k] = "down" => Stage(d)' = "closing"
    <3>1. CASE k = l
      BY <1>1, <1>4, <1>5, <1>6, <1>7, <3>1 DEF PlaceInv
    <3>2. CASE k # l
      <4>1. d = c => d \notin epoll[k] /\ at[k] # d
        BY <1>1, <1>4, <3>2 DEF PlaceInv
      <4> QED
        BY <1>1, <1>6, <1>7, <3>2, <4>1 DEF PlaceInv
    <3> QED
      BY <3>1, <3>2
  <2>3. \A d \in reg : Stage(d)' \in {"up", "closing"}
    <3>1. reg \subseteq Conns
      BY <1>1 DEF TypeOK
    <3> QED
      BY <1>1, <1>5, <1>6, <3>1 DEF PlaceInv
  <2>4. Acceptor \in active'[Base] => nextId <= arrived
    BY <1>1, <1>7, Constants DEF PlaceInv
  <2> QED
    BY <1>3, <2>1, <2>2, <2>3, <2>4 DEF PlaceInv
<1>11. CastInv'
  BY <1>1, <1>3, <1>7 DEF CastInv, Broadcasting
<1>12. QueueInv'
  <2>1. \A d \in Conns : Stage(d)' = Stage(d) \/ (Stage(d) = "up" /\ Stage(d)' = "closing")
    BY <1>4, <1>5, <1>6
  <2>2. \A k \in Loops : batch'[k] <= Len(queue[k])
    BY <1>1, <1>3 DEF QueueInv
  <2> QED
    BY <1>1, <1>3, <2>1, <2>2, QueueSame
<1>13. DoneInv'
  BY <1>1, <1>3, <1>5, <1>6 DEF DoneInv, TypeOK
<1> QED
  BY <1>8, <1>9, <1>10, <1>11, <1>12, <1>13 DEF ServerInv

\* The functor at the head of a batch.
LEMMA HeadWaits ==
  ASSUME ServerInv, NEW l \in Loops, NEW op \in Ops, NEW c \in Conns, Call(l, op, c)
  PROVE  /\ Functor(op, c) \in Functors /\ Functor(op, c) = Head(queue[l])
         /\ Len(queue[l]) > 0 /\ In(queue, l, Functor(op, c)) /\ Waits(l, Functor(op, c))
<1>1. queue[l] \in Seq(Functors) /\ batch[l] <= Len(queue[l]) /\ batch[l] > 0 /\ batch[l] \in Nat
  BY DEF ServerInv, TypeOK, QueueInv, Call, Functors
<1>2. Len(queue[l]) \in Nat /\ Len(queue[l]) > 0 /\ queue[l] # <<>> /\ 1 \in 1..Len(queue[l])
  BY <1>1, LenProperties, EmptySeq
<1>3. Head(queue[l]) = queue[l][1]
  BY <1>1, <1>2, HeadTailProperties
<1>4. Functor(op, c) = Head(queue[l])
  BY DEF Call
<1>5. Functor(op, c) \in Functors
  BY DEF Functor, Functors
<1>6. In(queue, l, Functor(op, c))
  BY <1>2, <1>3, <1>4 DEF In
<1> QED
  BY <1>2, <1>4, <1>5, <1>6 DEF ServerInv, QueueInv

\* What a functor does that leaves the stages alone.
LEMMA PopOnly ==
  ASSUME ServerInv, NEW l \in Loops, NEW op \in Ops, NEW c \in Conns, Call(l, op, c), Pop(l),
         op # "ConnectionEstablished",
         op = "SendPrivate" \/ Stage(c) \notin {"none", "opening"},
         UNCHANGED <<pool, life, poller, control, app, reg, peer>>
  PROVE  ServerInv'
<1>1. TypeOK /\ StageInv /\ PlaceInv /\ CastInv /\ QueueInv /\ DoneInv
  BY DEF ServerInv
<1>2. \A d \in Conns : Stage(d)' = Stage(d)
  BY StageSame DEF pool, life, poller
<1>3. /\ batch[l] > 0 /\ batch' = [batch EXCEPT ![l] = @ - 1]
      /\ done' \in {done, [done EXCEPT ![l] = @ \cup {c}]}
      /\ op = "SendPrivate" => done' = done
  BY DEF Call, Sends
<1>4. QueueInv' /\ queue' \in [Loops -> Seq(Functors)] /\ batch' \in [Loops -> Nat]
  <2>1. Functor(op, c) = Head(queue[l])
    BY HeadWaits
  <2> QED
    BY <1>1, <1>2, <1>3, <2>1, QueuePop DEF pool
<1>5. TypeOK'
  <2>1. done' \in [Loops -> SUBSET Conns]
    <3>1. done \in [Loops -> SUBSET Conns]
      BY <1>1 DEF TypeOK
    <3>2. CASE done' = done
      BY <3>1, <3>2
    <3>3. CASE done' = [done EXCEPT ![l] = @ \cup {c}]
      BY <3>1, <3>3
    <3> QED
      BY <1>3, <3>2, <3>3
  <2> QED
    BY <1>1, <1>4, <2>1 DEF TypeOK, Functors, pool, life, poller, control, app, peer
<1>6. StageInv'
  BY <1>1, <1>2 DEF StageInv, pool, life, control
<1>7. PlaceInv'
  BY <1>1, <1>2 DEF PlaceInv, TypeOK, pool, poller, control, peer
<1>8. CastInv'
  BY <1>1 DEF CastInv, Broadcasting, control, app
<1>9. DoneInv'
  <2>1. \A k \in Loops : done[k] \subseteq Conns /\ done'[k] \subseteq done[k] \cup {c}
    <3>1. done \in [Loops -> SUBSET Conns]
      BY <1>1 DEF TypeOK
    <3>2. CASE done' = done
      BY <3>1, <3>2
    <3>3. CASE done' = [done EXCEPT ![l] = @ \cup {c}]
      BY <3>1, <3>3
    <3> QED
      BY <1>3, <3>2, <3>3
  <2>2. CASE op = "SendPrivate"
    BY <1>1, <1>2, <1>3, <2>1, <2>2 DEF DoneInv
  <2>3. CASE op # "SendPrivate"
    BY <1>1, <1>2, <2>1, <2>3 DEF DoneInv
  <2> QED
    BY <2>2, <2>3
<1> QED
  BY <1>4, <1>5, <1>6, <1>7, <1>8, <1>9 DEF ServerInv

\* SendInLoop() and ConnectDestroyed(), which finds nothing to undo.
LEMMA LateKeeps ==
  ASSUME ServerInv, NEW l \in Loops, SendInLoop(l) \/ ConnectDestroyed(l)
  PROVE  ServerInv'
<1>1. CASE SendInLoop(l)
  <2>1. PICK op \in Sends, c \in Conns : Call(l, op, c)
    BY <1>1 DEF SendInLoop
  <2>2. op \in Ops /\ op # "ConnectionEstablished"
    BY DEF Ops, Sends
  <2>3. op = "SendInLoop" => Stage(c) \in {"up", "closing", "removing", "ended"}
    BY <2>1, <2>2, HeadWaits DEF Waits, Functor
  <2> QED
    BY <1>1, <2>1, <2>2, <2>3, PopOnly DEF SendInLoop, Sends
<1>2. CASE ConnectDestroyed(l)
  <2>1. PICK c \in Conns :
          /\ Call(l, "ConnectDestroyed", c)
          /\ epoll' = [epoll EXCEPT ![l] = @ \ {c}]
          /\ state[c] # "kConnected" => UNCHANGED <<state, downed>>
    BY <1>2 DEF ConnectDestroyed
  <2>2. Stage(c) = "ended"
    BY <2>1, HeadWaits DEF Waits, Functor, Ops
  <2>3. UNCHANGED <<state, downed>>
    BY <2>1, <2>2 DEF ServerInv, StageInv
  <2>4. UNCHANGED epoll
    BY <2>1, <2>2 DEF ServerInv, PlaceInv, TypeOK
  <2> QED
    BY <1>2, <2>1, <2>2, <2>3, <2>4, PopOnly DEF ConnectDestroyed, Ops, life, poller
<1> QED
  BY <1>1, <1>2

\* ConnectionEstablished(): "opening" to "up".
LEMMA EstablishKeeps ==
  ASSUME ServerInv, NEW l \in Loops, ConnectionEstablished(l)
  PROVE  ServerInv'
<1>1. TypeOK /\ StageInv /\ PlaceInv /\ CastInv /\ QueueInv /\ DoneInv
  BY DEF ServerInv
<1>2. PICK c \in Conns : /\ Call(l, "ConnectionEstablished", c)
                         /\ state' = [state EXCEPT ![c] = "kConnected"]
                         /\ epoll' = [epoll EXCEPT ![l] = @ \cup {c}]
  BY DEF ConnectionEstablished
<1>3. /\ Pop(l) /\ batch[l] > 0 /\ batch' = [batch EXCEPT ![l] = @ - 1]
      /\ done' = [done EXCEPT ![l] = @ \cup {c}]
      /\ UNCHANGED <<nextId, next, loopOf, limit, connections, downed, active, pc, at,
                     todo, sending, made, found, passed, crashed, reg, arrived, data, eof>>
  BY <1>2 DEF ConnectionEstablished, Call, Sends, pool, control, app, peer
<1>4. l = loopOf[c] /\ Stage(c) = "opening" /\ Functor("ConnectionEstablished", c) = Head(queue[l])
  BY <1>2, HeadWaits DEF Waits, Functor, Ops, Sends
<1>5. c \in connections /\ c \notin downed /\ state'[c] = "kConnected"
  BY <1>1, <1>2, <1>4 DEF StageInv, TypeOK
<1>6. /\ epoll'[l] = epoll[l] \cup {c}
      /\ \A k \in Loops \ {l} : epoll'[k] = epoll[k]
  BY <1>1, <1>2 DEF TypeOK
<1>7. Stage(c)' = "up"
  BY <1>3, <1>4, <1>5, <1>6 DEF Stage
<1>8. \A d \in Conns \ {c} : Stage(d)' = Stage(d) /\ state'[d] = state[d]
  <2>1. ASSUME NEW d \in Conns \ {c}, state[d] # "none"
        PROVE  d \in epoll'[loopOf[d]] <=> d \in epoll[loopOf[d]]
    BY <1>1, <1>6, <2>1, Constants DEF StageInv
  <2>2. \A d \in Conns \ {c} : state'[d] = state[d]
    BY <1>1, <1>2 DEF TypeOK
  <2> QED
    BY <1>3, <2>1, <2>2 DEF Stage
<1>9. QueueInv' /\ queue' \in [Loops -> Seq(Functors)] /\ batch' \in [Loops -> Nat]
  <2> PICK h : h = Functor("ConnectionEstablished", c)
    OBVIOUS
  <2>1. h = Head(queue[l]) /\ h.conn = c /\ h.op = "ConnectionEstablished"
    BY <1>4 DEF Functor
  <2>2. \A d \in Conns : Stage(d)' = Stage(d) \/ (d = h.conn /\ h.op = "ConnectionEstablished")
    BY <1>8, <2>1
  <2> QED
    BY <1>1, <1>3, <2>1, <2>2, QueuePop
<1>10. TypeOK'
  BY <1>1, <1>2, <1>3, <1>9 DEF TypeOK, Functors
<1>11. StageInv'
  <2>1. c < nextId /\ loopOf[c] \in IoLoops
    BY <1>1, <1>4 DEF StageInv, Stage
  <2> QED
    BY <1>1, <1>3, <1>5, <1>7, <1>8, <2>1 DEF StageInv
<1>12. PlaceInv'
  <2>1. ASSUME NEW k \in Loops
        PROVE  active[k] \subseteq epoll'[k] /\ (at[k] # Nobody <=> pc[k] \in {"body", "down"})
    BY <1>1, <1>6 DEF PlaceInv
  <2>2. ASSUME NEW k \in Loops, NEW d \in Conns
        PROVE  /\ d \in epoll'[k] => Stage(d)' = "up" /\ loopOf[d] = k
               /\ at[k] = d => loopOf[d] = k
               /\ at[k] = d /\ pc[k] = "body" => Stage(d)' = "up"
               /\ at[k] = d /\ pc[k] = "down" => Stage(d)' = "closing"
    <3>1. CASE d = c
      <4>1. at[k] # c
        BY <1>1, <1>4, Constants DEF PlaceInv
      <4>2. c \in epoll'[k] => k = l
        BY <1>1, <1>4, <1>6 DEF PlaceInv
      <4> QED
        BY <1>4, <1>7, <3>1, <4>1, <4>2
    <3>2. CASE d # c
      <4>1. d \in epoll'[k] <=> d \in epoll[k]
        BY <1>6, <3>2
      <4> QED
        BY <1>1, <1>8, <3>2, <4>1 DEF PlaceInv
    <3> QED
      BY <3>1, <3>2
  <2>3. \A d \in reg : Stage(d)' \in {"up", "closing"}
    <3>1. reg \subseteq Conns
      BY <1>1 DEF TypeOK
    <3> QED
      BY <1>1, <1>7, <1>8, <3>1 DEF PlaceInv
  <2> QED
    BY <1>1, <1>3, <2>1, <2>2, <2>3 DEF PlaceInv
<1>13. CastInv'
  BY <1>1, <1>3 DEF CastInv, Broadcasting
<1>14. DoneInv'
  <2>1. \A k \in Loops : done[k] \subseteq Conns /\ done'[k] \subseteq done[k] \cup {c}
    BY <1>1, <1>3 DEF TypeOK
  <2> QED
    BY <1>1, <1>7, <1>8, <2>1 DEF DoneInv
<1> QED
  BY <1>9, <1>10, <1>11, <1>12, <1>13, <1>14 DEF ServerInv

\* The second half of HandleClose(): "closing" to "removing".
LEMMA DownKeeps ==
  ASSUME ServerInv, NEW l \in Loops, Down(l)
  PROVE  ServerInv'
<1>1. TypeOK /\ StageInv /\ PlaceInv /\ CastInv /\ QueueInv /\ DoneInv
  BY DEF ServerInv
<1> PICK c : c = at[l]
  OBVIOUS
<1> PICK g : g = Functor("RemoveConnectionInLoop", c)
  OBVIOUS
<1>2. /\ pc' = [pc EXCEPT ![l] = "dispatch"] /\ pc[l] = "down" /\ NoReader(l)
      /\ at' = [at EXCEPT ![l] = Nobody]
      /\ downed' = downed \cup {c} /\ reg' = reg \ {c} /\ Put(Base, g)
      /\ UNCHANGED <<nextId, next, loopOf, limit, connections, state, epoll, active, batch,
                     done, todo, sending, made, found, passed, crashed, arrived, data, eof>>
  BY DEF Down, Goto, pool, poller, run, app, peer
<1>3. c \in Conns /\ Stage(c) = "closing" /\ loopOf[c] = l
  BY <1>1, <1>2 DEF TypeOK, PlaceInv
<1>4. /\ state[c] = "kDisconnected" /\ c \in connections /\ c < nextId /\ l \in IoLoops
      /\ c \notin downed
  BY <1>1, <1>3 DEF StageInv, Stage
<1>5. Stage(c)' = "removing"
  BY <1>2, <1>4 DEF Stage
<1>6. \A d \in Conns \ {c} : Stage(d)' = Stage(d)
  BY <1>2 DEF Stage
<1>7. \A k \in Loops : ~Broadcasting(k)
  BY <1>1, <1>2 DEF NoReader, CastInv
<1>8. /\ \A k \in Loops \ {l} : pc'[k] = pc[k] /\ at'[k] = at[k]
      /\ pc'[l] = "dispatch" /\ at'[l] = Nobody
  BY <1>1, <1>2 DEF TypeOK
<1>9. QueueInv' /\ queue' \in [Loops -> Seq(Functors)]
  <2>1. g \in Functors /\ g.op = "RemoveConnectionInLoop" /\ g.conn = c
    BY <1>3 DEF Functor, Functors, Ops
  <2>2. Waits(Base, g)'
    BY <1>5, <2>1 DEF Waits
  <2>3. \A k \in Loops, f \in Functors :
          In(queue, k, f) /\ f.conn = g.conn /\ f.op # "SendPrivate" =>
            /\ f.op = "SendInLoop" /\ k = loopOf'[f.conn]
            /\ Stage(f.conn)' \in {"up", "closing", "removing"}
    BY <1>1, <1>2, <1>3, <1>5, <2>1 DEF QueueInv, Waits, Functors, Ops, Sends
  <2>4. \A d \in Conns \ {g.conn} : Stage(d)' = Stage(d) /\ loopOf'[d] = loopOf[d]
    BY <1>2, <1>6, <2>1
  <2> QED
    BY <1>1, <1>2, <2>1, <2>2, <2>3, <2>4, Constants, QueuePut
<1>10. TypeOK'
  BY <1>1, <1>2, <1>3, <1>9 DEF TypeOK, Functors, Pcs
<1>11. StageInv'
  <2>1. ASSUME NEW d \in Conns \ {c}, Stage(d) = "closing"
        PROVE  pc'[loopOf[d]] = "down" /\ at'[loopOf[d]] = d
    <3>1. loopOf[d] \in Loops /\ pc[loopOf[d]] = "down" /\ at[loopOf[d]] = d
      BY <1>1, <2>1, Constants DEF StageInv, Stage
    <3> QED
      BY <1>8, <3>1
  <2> QED
    BY <1>1, <1>2, <1>3, <1>4, <1>5, <1>6, <2>1 DEF StageInv
<1>12. PlaceInv'
  <2>1. ASSUME NEW k \in Loops
        PROVE  active[k] \subseteq epoll[k] /\ (at'[k] # Nobody <=> pc'[k] \in {"body", "down"})
    BY <1>1, <1>8 DEF PlaceInv
  <2>2. ASSUME NEW k \in Loops, NEW d \in Conns
        PROVE  /\ d \in epoll[k] => Stage(d)' = "up" /\ loopOf[d] = k
               /\ at'[k] = d => loopOf[d] = k
               /\ at'[k] = d /\ pc'[k] = "body" => Stage(d)' = "up"
               /\ at'[k] = d /\ pc'[k] = "down" => Stage(d)' = "closing"
    <3>1. d \in epoll[k] => d # c
      BY <1>1, <1>3 DEF PlaceInv
    <3>2. at'[k] = d => k # l /\ at[k] = d /\ pc'[k] = pc[k]
      BY <1>8, Constants
    <3>3. at'[k] = d => d # c
      BY <1>1, <1>3, <3>2 DEF PlaceInv
    <3> QED
      BY <1>1, <1>6, <3>1, <3>2, <3>3 DEF PlaceInv
  <2>3. \A d \in reg' : Stage(d)' \in {"up", "closing"}
    <3>1. reg \subseteq Conns
      BY <1>1 DEF TypeOK
    <3> QED
      BY <1>1, <1>2, <1>6, <3>1 DEF PlaceInv
  <2> QED
    BY <1>1, <1>2, <2>1, <2>2, <2>3 DEF PlaceInv
<1>13. CastInv'
  BY <1>2, <1>7 DEF CastInv, Broadcasting
<1>14. DoneInv'
  <2>1. \A k \in Loops : done[k] \subseteq Conns
    BY <1>1 DEF TypeOK
  <2> QED
    BY <1>1, <1>2, <1>5, <1>6, <2>1 DEF DoneInv
<1> QED
  BY <1>9, <1>10, <1>11, <1>12, <1>13, <1>14 DEF ServerInv

\* Send() on another loop queues SendInLoop().
LEMMA SendKeeps ==
  ASSUME ServerInv, NEW l \in Loops, SendQueue(l)
  PROVE  ServerInv'
<1>1. TypeOK /\ StageInv /\ PlaceInv /\ CastInv /\ QueueInv /\ DoneInv
  BY DEF ServerInv
<1> PICK c : c = sending[l]
  OBVIOUS
<1> PICK g : g = Functor("SendInLoop", c)
  OBVIOUS
<1>2. /\ sending' = [sending EXCEPT ![l] = Nobody] /\ sending[l] # Nobody
      /\ Put(loopOf[c], g)
      /\ UNCHANGED <<nextId, next, loopOf, limit, connections, state, downed, epoll, active,
                     batch, done, pc, at, todo, made, found, passed, crashed, reg, arrived,
                     data, eof>>
  BY DEF SendQueue, pool, life, poller, run, control, peer, private
<1>3. c \in Conns /\ Stage(c) \in {"up", "closing"}
  BY <1>1, <1>2 DEF TypeOK, CastInv, PlaceInv
<1>4. loopOf[c] \in Loops
  BY <1>1, <1>3, Constants DEF StageInv, Stage
<1>5. \A d \in Conns : Stage(d)' = Stage(d)
  BY <1>2, StageSame
<1>6. QueueInv' /\ queue' \in [Loops -> Seq(Functors)]
  <2>1. g \in Functors /\ g.op = "SendInLoop" /\ g.conn = c
    BY <1>3 DEF Functor, Functors, Ops, Sends
  <2>2. Waits(loopOf[c], g)'
    BY <1>2, <1>3, <1>5, <2>1 DEF Waits
  <2>3. \A k \in Loops, f \in Functors :
          In(queue, k, f) /\ f.conn = g.conn /\ f.op # "SendPrivate" =>
            /\ f.op = "SendInLoop" /\ k = loopOf'[f.conn]
            /\ Stage(f.conn)' \in {"up", "closing", "removing"}
    BY <1>1, <1>2, <1>3, <1>5, <2>1 DEF QueueInv, Waits, Functors, Ops, Sends
  <2>4. \A d \in Conns \ {g.conn} : Stage(d)' = Stage(d) /\ loopOf'[d] = loopOf[d]
    BY <1>2, <1>5
  <2> QED
    BY <1>1, <1>2, <1>4, <2>1, <2>2, <2>3, <2>4, QueuePut
<1>7. TypeOK'
  BY <1>1, <1>2, <1>6 DEF TypeOK, Functors
<1>8. StageInv'
  BY <1>1, <1>2, <1>5 DEF StageInv
<1>9. PlaceInv'
  BY <1>1, <1>2, <1>5 DEF PlaceInv, TypeOK
<1>10. CastInv'
  <2>1. \A k \in Loops : sending'[k] \in {sending[k], Nobody}
    BY <1>1, <1>2 DEF TypeOK
  <2> QED
    BY <1>1, <1>2, <2>1 DEF CastInv, Broadcasting
<1>11. DoneInv'
  BY <1>1, <1>2, <1>5 DEF DoneInv, TypeOK
<1> QED
  BY <1>6, <1>7, <1>8, <1>9, <1>10, <1>11 DEF ServerInv

\* Send() of a private line queues SendInLoop() on some loop, or nothing.
LEMMA PrivateKeeps ==
  ASSUME ServerInv, NEW l \in Loops, PrivateQueue(l)
  PROVE  ServerInv'
<1>1. TypeOK /\ StageInv /\ PlaceInv /\ CastInv /\ QueueInv /\ DoneInv
  BY DEF ServerInv
<1> PICK c : c = passed[l]
  OBVIOUS
<1>2. /\ passed' = [passed EXCEPT ![l] = Nobody] /\ c # Nobody
      /\ UNCHANGED <<nextId, next, loopOf, limit, connections, state, downed, epoll, active,
                     batch, done, pc, at, todo, sending, made, found, crashed, reg, arrived,
                     data, eof>>
  BY DEF PrivateQueue, pool, life, poller, run, control, peer
<1>3. PICK k \in Read(c, loopOf[c], IoLoops) :
        IF k = l THEN UNCHANGED queue ELSE Put(k, Functor("SendPrivate", c))
  BY DEF PrivateQueue
<1>4. c \in Conns /\ passed' \in [Loops -> Conns \cup {Nobody}]
  BY <1>1, <1>2 DEF TypeOK
<1>5. \A d \in Conns : Stage(d)' = Stage(d)
  BY <1>2, StageSame
<1>6. QueueInv' /\ queue' \in [Loops -> Seq(Functors)]
  <2>1. CASE UNCHANGED queue
    BY <1>1, <1>2, <1>5, <2>1, QueueFrame DEF TypeOK, Functors
  <2>2. CASE queue' # queue
    <3>1. Put(k, Functor("SendPrivate", c)) /\ queue \in [Loops -> Seq(Functors)]
      BY <1>1, <1>3, <2>2 DEF TypeOK, Functors
    <3>2. k \in Loops
      BY <2>2, <3>1 DEF Put
    <3> PICK g : g = Functor("SendPrivate", c)
      OBVIOUS
    <3>3. g \in Functors /\ g.op = "SendPrivate"
      BY <1>4 DEF Functor, Functors, Ops, Sends
    <3> QED
      BY <1>1, <1>2, <1>5, <3>1, <3>2, <3>3, QueuePutPrivate
  <2> QED
    BY <2>1, <2>2
<1>7. TypeOK'
  BY <1>1, <1>2, <1>4, <1>6 DEF TypeOK, Functors
<1>8. StageInv'
  BY <1>1, <1>2, <1>5 DEF StageInv
<1>9. PlaceInv'
  BY <1>1, <1>2, <1>5 DEF PlaceInv, TypeOK
<1>10. CastInv'
  BY <1>1, <1>2 DEF CastInv, Broadcasting
<1>11. DoneInv'
  BY <1>1, <1>2, <1>5 DEF DoneInv, TypeOK
<1> QED
  BY <1>6, <1>7, <1>8, <1>9, <1>10, <1>11 DEF ServerInv

\* What RemoveConnectionInLoop() does: of the functors of connection c only
\* SendInLoop() may be left, that of a broadcast on its own loop.
Removes(c) ==
  LET h == Functor("RemoveConnectionInLoop", c)
      g == Functor("ConnectDestroyed", c)
  IN
  /\ Stage(c) = "removing" /\ Stage(c)' = "ended"
  /\ \A d \in Conns \ {c} : Stage(d)' = Stage(d)
  /\ h = Head(queue[Base]) /\ AfterMoved(queue, queue', Base, loopOf[c], g)
  /\ \A k \in Loops, f \in Functors :
       In(queue, k, f) /\ f.conn = c /\ k # Base =>
         f.op = "SendPrivate" \/ (f.op = "SendInLoop" /\ k = loopOf[c])
  /\ connections' = connections \ {c} /\ queue' = [k \in Loops |-> queue'[k]]
  /\ batch' = [batch EXCEPT ![Base] = @ - 1] /\ batch[Base] > 0
  /\ done' = [done EXCEPT ![Base] = @ \cup {c}]

\* RemoveConnectionInLoop() is about one connection.
LEMMA RemoveDoes ==
  ASSUME ServerInv, RemoveConnectionInLoop
  PROVE  \E c \in Conns : Removes(c)
<1>1. TypeOK /\ StageInv /\ PlaceInv /\ CastInv /\ QueueInv /\ DoneInv
  BY DEF ServerInv
<1>2. PICK c \in Conns :
        /\ Call(Base, "RemoveConnectionInLoop", c)
        /\ connections' = connections \ {c}
        /\ queue' = [queue EXCEPT ![Base] = Tail(@),
                       ![loopOf[c]] = Append(@, Functor("ConnectDestroyed", c))]
  BY DEF RemoveConnectionInLoop
<1>3. PICK h, g, l : /\ h = Functor("RemoveConnectionInLoop", c)
                     /\ g = Functor("ConnectDestroyed", c)
                     /\ l = loopOf[c]
  OBVIOUS
<1>4. /\ batch[Base] > 0 /\ batch' = [batch EXCEPT ![Base] = @ - 1]
      /\ done' = [done EXCEPT ![Base] = @ \cup {c}]
      /\ UNCHANGED <<nextId, next, loopOf, limit, state, downed, epoll, active, pc, at,
                     todo, sending, made, found, passed, crashed, reg, arrived, data, eof>>
  BY <1>2 DEF RemoveConnectionInLoop, Call, Sends, pool, poller, control, app, peer
<1>5. /\ h \in Functors /\ h = Head(queue[Base]) /\ Len(queue[Base]) > 0 /\ Waits(Base, h)
      /\ h.op = "RemoveConnectionInLoop" /\ h.conn = c
  <2>1. "RemoveConnectionInLoop" \in Ops
    BY DEF Ops
  <2>2. h.op = "RemoveConnectionInLoop" /\ h.conn = c
    BY <1>3 DEF Functor
  <2> QED
    BY <1>2, <1>3, <2>1, <2>2, Constants, HeadWaits
<1>6. Stage(c) = "removing"
  BY <1>5 DEF Waits
<1>7. /\ state[c] = "kDisconnected" /\ c \in connections /\ c \in downed /\ c < nextId
      /\ l \in IoLoops /\ l \in Loops \ {Base}
  BY <1>1, <1>3, <1>6, Constants DEF StageInv, Stage
<1>8. g \in Functors /\ g.op = "ConnectDestroyed" /\ g.conn = c
  BY <1>3 DEF Functor, Functors, Ops
<1>9. Stage(c)' = "ended"
  BY <1>2, <1>4, <1>7 DEF Stage
<1>10. \A d \in Conns \ {c} : Stage(d)' = Stage(d)
  BY <1>2, <1>4 DEF Stage
<1>11. /\ queue \in [Loops -> Seq(Functors)] /\ batch \in [Loops -> Nat]
       /\ \A k \in Loops : Len(queue[k]) \in Nat /\ batch[k] <= Len(queue[k])
       /\ Ordered(queue)
  BY <1>1, LenProperties DEF TypeOK, Functors, QueueInv
<1>12. ASSUME NEW k \in Loops, NEW f \in Functors, In(queue, k, f), f.conn = c, k # Base
       PROVE  f.op = "SendPrivate" \/ (f.op = "SendInLoop" /\ k = l)
  <2>1. Waits(k, f)
    BY <1>1, <1>12 DEF QueueInv
  <2> QED
    BY <1>3, <1>6, <1>12, <2>1 DEF Waits, Functors, Ops, Sends
<1>13. OnlySends(queue, l, g.conn)
  BY <1>7, <1>8, <1>12 DEF OnlySends, Sends
<1>14. /\ queue'[Base] = Tail(queue[Base]) /\ queue'[l] = Append(queue[l], g)
       /\ \A k \in Loops \ {Base, l} : queue'[k] = queue[k]
  BY <1>2, <1>3, <1>7, <1>11, Constants
<1>15. /\ queue \in [Loops -> Seq(Functors)] /\ Ordered(queue) /\ Base \in Loops
       /\ Moved(queue, queue', Base, l, g)
  BY <1>11, <1>14, Constants DEF Moved
<1>16. AfterMoved(queue, queue', Base, l, g)
  BY <1>5, <1>7, <1>8, <1>13, <1>15, MoveKeeps
<1>17. queue' = [k \in Loops |-> queue'[k]]
  BY <1>2, <1>11
<1> QED
  BY <1>2, <1>3, <1>4, <1>5, <1>6, <1>9, <1>10, <1>12, <1>16, <1>17 DEF Removes

\* RemoveConnectionInLoop(): "removing" to "ended".
LEMMA RemoveKeeps ==
  ASSUME ServerInv, RemoveConnectionInLoop
  PROVE  ServerInv'
<1>1. TypeOK /\ StageInv /\ PlaceInv /\ CastInv /\ QueueInv /\ DoneInv
  BY DEF ServerInv
<1>2. PICK c \in Conns : Removes(c)
  BY RemoveDoes
<1>3. PICK h, g, l : /\ h = Functor("RemoveConnectionInLoop", c)
                     /\ g = Functor("ConnectDestroyed", c)
                     /\ l = loopOf[c]
  OBVIOUS
<1>4. /\ batch[Base] > 0 /\ batch' = [batch EXCEPT ![Base] = @ - 1]
      /\ done' = [done EXCEPT ![Base] = @ \cup {c}]
      /\ connections' = connections \ {c}
      /\ UNCHANGED <<nextId, next, loopOf, limit, state, downed, epoll, active, pc, at,
                     todo, sending, made, found, passed, crashed, reg, arrived, data, eof>>
  BY <1>2 DEF Removes, RemoveConnectionInLoop, pool, poller, control, app, peer
<1>5. /\ h = Head(queue[Base]) /\ h \in Functors
      /\ h.op = "RemoveConnectionInLoop" /\ h.conn = c
  BY <1>2, <1>3 DEF Removes, Functor, Functors, Ops
<1>6. Stage(c) = "removing"
  BY <1>2 DEF Removes
<1>7. /\ state[c] = "kDisconnected" /\ c \in connections /\ c \in downed /\ c < nextId
      /\ l \in IoLoops /\ l \in Loops \ {Base}
  BY <1>1, <1>3, <1>6, Constants DEF StageInv, Stage
<1>8. g \in Functors /\ g.op = "ConnectDestroyed" /\ g.conn = c
  BY <1>3 DEF Functor, Functors, Ops
<1>9. Stage(c)' = "ended"
  BY <1>2 DEF Removes
<1>10. \A d \in Conns \ {c} : Stage(d)' = Stage(d)
  BY <1>2 DEF Removes
<1>11. /\ queue \in [Loops -> Seq(Functors)] /\ batch \in [Loops -> Nat]
       /\ \A k \in Loops : Len(queue[k]) \in Nat /\ batch[k] <= Len(queue[k])
  BY <1>1, LenProperties DEF TypeOK, Functors, QueueInv
<1>12. ASSUME NEW k \in Loops, NEW f \in Functors, In(queue, k, f), f.conn = c, k # Base
       PROVE  f.op = "SendPrivate" \/ (f.op = "SendInLoop" /\ k = l)
  BY <1>2, <1>3, <1>12 DEF Removes
<1>13. AfterMoved(queue, queue', Base, l, g)
  BY <1>2, <1>3 DEF Removes
<1>14. /\ \A k \in Loops : queue'[k] \in Seq(Functors)
       /\ Len(queue'[Base]) = Len(queue[Base]) - 1
       /\ \A k \in Loops \ {Base} : Len(queue'[k]) >= Len(queue[k])
  BY <1>13 DEF AfterMoved
<1>15. /\ Ordered(queue') /\ In(queue', l, g)
       /\ \A k \in Loops, f \in Functors : In(queue', k, f) => In(queue, k, f) \/ (k = l /\ f = g)
  BY <1>13 DEF AfterMoved
<1>16. \A k \in Loops, f \in Functors : In(queue, k, f) => In(queue', k, f) \/ (k = Base /\ f = h)
  BY <1>5, <1>13 DEF AfterMoved
<1>17. \A f \in Functors : In(queue', Base, f) => f.conn # c \/ f.op = "SendPrivate"
  BY <1>5, <1>13 DEF AfterMoved, Sends
<1>18. queue' \in [Loops -> Seq(Functors)]
  BY <1>2, <1>14 DEF Removes
<1>19. batch' \in [Loops -> Nat] /\ \A k \in Loops : batch'[k] <= Len(queue'[k])
  <2>1. batch'[Base] = batch[Base] - 1 /\ \A k \in Loops \ {Base} : batch'[k] = batch[k]
    BY <1>4, <1>11, Constants
  <2>2. batch'[Base] <= Len(queue'[Base])
    BY <1>11, <1>14, <2>1, Constants
  <2>3. ASSUME NEW k \in Loops \ {Base} PROVE batch'[k] <= Len(queue'[k])
    <3>1. batch'[k] = batch[k] /\ Len(queue'[k]) >= Len(queue[k]) /\ Len(queue'[k]) \in Nat
      BY <1>14, <2>1, LenProperties
    <3>2. batch[k] \in Nat /\ Len(queue[k]) \in Nat /\ batch[k] <= Len(queue[k])
      BY <1>11
    <3> QED
      BY <3>1, <3>2
  <2>4. batch' \in [Loops -> Nat]
    BY <1>4, <1>11, Constants
  <2> QED
    BY <2>2, <2>3, <2>4
<1>20. ASSUME NEW k \in Loops, NEW f \in Functors, In(queue', k, f) PROVE Waits(k, f)'
  <2>1. CASE k = l /\ f = g
    BY <1>3, <1>4, <1>8, <1>9, <2>1 DEF Waits
  <2>2. CASE In(queue, k, f) /\ f.conn = c
    <3>1. f.op = "SendPrivate" \/ (f.op = "SendInLoop" /\ k = l)
      BY <1>12, <1>17, <1>20, <2>2
    <3> QED
      BY <1>3, <1>4, <1>9, <1>15, <2>2, <3>1 DEF Waits
  <2>3. CASE In(queue, k, f) /\ f.conn # c
    <3>1. Waits(k, f) /\ f.conn \in Conns
      BY <1>1, <2>3 DEF QueueInv, Functors
    <3>2. /\ Functor("ConnectDestroyed", f.conn) \in Functors
          /\ Functor("ConnectDestroyed", f.conn) # h
      BY <1>5, <3>1 DEF Functor, Functors, Ops
    <3>3. f.op = "SendInLoop" /\ Stage(f.conn)' = "ended" =>
            In(queue', k, Functor("ConnectDestroyed", f.conn))
      BY <1>10, <1>16, <2>3, <3>1, <3>2 DEF Waits
    <3> QED
      BY <1>4, <1>10, <2>3, <3>1, <3>3, WaitsKeeps
  <2> QED
    BY <1>15, <1>20, <2>1, <2>2, <2>3
<1>21. QueueInv'
  BY <1>15, <1>19, <1>20 DEF QueueInv
<1>22. TypeOK'
  <2>1. done' \in [Loops -> SUBSET Conns]
    BY <1>1, <1>4 DEF TypeOK
  <2> QED
    BY <1>1, <1>4, <1>18, <1>19, <2>1 DEF TypeOK, Functors
<1>23. StageInv'
  BY <1>1, <1>3, <1>4, <1>7, <1>9, <1>10 DEF StageInv
<1>24. PlaceInv'
  <2>1. ASSUME NEW k \in Loops, NEW d \in Conns, d \in epoll[k] \/ at[k] = d
        PROVE  d # c
    BY <1>1, <1>6, <2>1, Constants DEF PlaceInv
  <2>2. \A d \in reg : d \in Conns /\ d # c
    BY <1>1, <1>6 DEF PlaceInv, TypeOK
  <2> QED
    BY <1>1, <1>4, <1>10, <2>1, <2>2 DEF PlaceInv
<1>25. CastInv'
  BY <1>1, <1>4 DEF CastInv, Broadcasting
<1>26. DoneInv'
  <2>1. \A k \in Loops : done[k] \subseteq Conns /\ done'[k] \subseteq done[k] \cup {c}
    BY <1>1, <1>4 DEF TypeOK
  <2> QED
    BY <1>1, <1>9, <1>10, <2>1 DEF DoneInv
<1> QED
  BY <1>21, <1>22, <1>23, <1>24, <1>25, <1>26 DEF ServerInv

-----------------------------------------------------------------------------
(* The theorems.                                                           *)

\* Every step keeps the invariant.
LEMMA ServerStep == ServerInv /\ [Next]_vars => ServerInv'
<1> SUFFICES ASSUME ServerInv, [Next]_vars PROVE ServerInv'
  OBVIOUS
<1>1. ASSUME NEW l \in Loops, LoopStep(l) PROVE ServerInv'
  BY <1>1, StartKeeps, AcceptKeeps, RemoveKeeps, LoopKeeps, CloseKeeps, AppKeeps, SendKeeps,
     PrivateKeeps, DownKeeps, EstablishKeeps, LateKeeps DEF LoopStep
<1>2. ASSUME NEW l \in Loops, AppStep(l) PROVE ServerInv'
  BY <1>2, AppKeeps DEF AppStep
<1>3. CASE UNCHANGED vars
  <2>1. \A c \in Conns : Stage(c)' = Stage(c)
    BY <1>3, StageSame DEF vars, life, poller, pool
  <2>2. TypeOK'
    BY <1>3 DEF ServerInv, TypeOK, vars, pool, life, poller, run, control, app, peer
  <2>3. StageInv'
    BY <1>3, <2>1 DEF ServerInv, StageInv, vars, pool, life, control
  <2>4. PlaceInv'
    BY <1>3, <2>1 DEF ServerInv, TypeOK, PlaceInv, vars, pool, poller, control, peer
  <2>5. CastInv'
    BY <1>3 DEF ServerInv, CastInv, Broadcasting, vars, control, app
  <2>6. QueueInv' /\ DoneInv'
    BY <1>3, <2>1, QueueFrame DEF vars, pool, run
  <2> QED
    BY <2>2, <2>3, <2>4, <2>5, <2>6 DEF ServerInv
<1> QED
  BY <1>1, <1>2, <1>3, PeersKeep DEF Next, Terminated

\* The strengthened invariant, which the other theorems follow from.
THEOREM ServerInvariant == SafeSpec => []ServerInv
BY ServerInit, ServerStep, PTL DEF SafeSpec

\* Every variable stays of its type.
THEOREM TypeCorrect == SafeSpec => []TypeOK
<1>1. ServerInv => TypeOK
  BY DEF ServerInv
<1> QED
  BY <1>1, ServerInvariant, PTL

\* A shared_ptr to a connection exists until it has ended, and after that as
\* long as ConnectDestroyed() is queued or a batch keeps what it bound.
Kept(c) == \E l \in Loops : c \in done[l] \/ In(queue, l, Functor("ConnectDestroyed", c))

\* A shared pointer is held until the connection has ended, and after that as
\* long as a functor or a batch has one.
LEMMA HeldWhen ==
  ServerInv =>
    \A c \in Conns :
      /\ Stage(c) \in {"opening", "up", "closing", "removing"} => Held(c)
      /\ Stage(c) = "ended" => (Held(c) <=> Kept(c))
<1> SUFFICES ASSUME ServerInv, NEW c \in Conns
             PROVE  /\ Stage(c) \in {"opening", "up", "closing", "removing"} => Held(c)
                    /\ Stage(c) = "ended" => (Held(c) <=> Kept(c))
  OBVIOUS
<1>1. TypeOK /\ StageInv /\ PlaceInv /\ QueueInv
  BY DEF ServerInv
<1>2. ASSUME Stage(c) \in {"opening", "up", "closing", "removing"} PROVE Held(c)
  <2>1. c \in connections
    BY <1>1, <1>2 DEF StageInv, Stage
  <2> QED
    BY <2>1 DEF Held
<1>3. \A l \in Loops : Len(queue[l]) \in Nat /\ DOMAIN queue[l] = 1..Len(queue[l])
                       /\ \A i \in 1..Len(queue[l]) : queue[l][i] \in Functors
  BY <1>1, LenProperties, ElementOfSeq DEF TypeOK, Functors
<1>4. ASSUME Stage(c) = "ended", Held(c) PROVE Kept(c)
  <2>1. c \notin connections \cup reg /\ \A l \in Loops : c # at[l]
    BY <1>1, <1>4, Constants DEF PlaceInv, Stage
  <2>2. PICK l \in Loops : \/ c \in done[l]
                           \/ \E i \in 1..Len(queue[l]) :
                                queue[l][i].conn = c /\ HoldsConn(queue[l][i])
    BY <1>3, <1>4, <2>1 DEF Held
  <2>3. CASE c \in done[l]
    BY <2>3 DEF Kept
  <2>4. ASSUME NEW i \in 1..Len(queue[l]), queue[l][i].conn = c, HoldsConn(queue[l][i])
        PROVE  Kept(c)
    <3>1. PICK f \in Functors : f = queue[l][i]
      BY <1>3
    <3>2. In(queue, l, f)
      BY <3>1 DEF In
    <3>3. f.conn = c /\ f.op \notin Sends /\ Waits(l, f)
      BY <1>1, <2>4, <3>1, <3>2 DEF HoldsConn, QueueInv
    <3>4. f = Functor("ConnectDestroyed", c)
      BY <1>4, <3>3 DEF Waits, Functors, Functor, Ops
    <3> QED
      BY <3>2, <3>4 DEF Kept
  <2> QED
    BY <2>2, <2>3, <2>4
<1>5. ASSUME Kept(c) PROVE Held(c)
  <2>1. PICK l \in Loops : c \in done[l] \/ In(queue, l, Functor("ConnectDestroyed", c))
    BY <1>5 DEF Kept
  <2>2. CASE c \in done[l]
    BY <2>2 DEF Held
  <2>3. ASSUME In(queue, l, Functor("ConnectDestroyed", c)) PROVE Held(c)
    <3>1. PICK i \in 1..Len(queue[l]) : queue[l][i] = Functor("ConnectDestroyed", c)
      BY <2>3 DEF In
    <3>2. queue[l][i].conn = c /\ HoldsConn(queue[l][i]) /\ i \in DOMAIN queue[l]
      BY <1>3, <3>1 DEF HoldsConn, Functor, Sends
    <3> QED
      BY <3>2 DEF Held
  <2> QED
    BY <2>1, <2>2, <2>3
<1> QED
  BY <1>2, <1>4, <1>5

\* No raw pointer to a connection outlives it but that of a private line:
\* neither the "this" that the SendInLoop() of a broadcast is bound to, nor
\* the Channel pointers that epoll and the active lists have, nor those that
\* a broadcast goes through.
THEOREM NothingDangles == SafeSpec => []NoDangling
<1>1. ServerInv => NoDangling
  <2> SUFFICES ASSUME ServerInv, NEW l \in Loops
               PROVE  /\ \A i \in DOMAIN queue[l] :
                           queue[l][i].op # "SendPrivate" => Held(queue[l][i].conn)
                      /\ \A c \in (epoll[l] \cup active[l] \cup todo[l] \cup {sending[l]})
                                   \ {Nobody, Acceptor} : Held(c)
    BY DEF NoDangling
  <2>1. TypeOK /\ PlaceInv /\ CastInv /\ QueueInv
    BY DEF ServerInv
  <2>2. ASSUME NEW i \in DOMAIN queue[l], queue[l][i].op # "SendPrivate"
        PROVE  Held(queue[l][i].conn)
    <3>1. queue[l] \in Seq(Functors) /\ DOMAIN queue[l] = 1..Len(queue[l])
      BY <2>1, LenProperties DEF TypeOK, Functors
    <3>2. PICK f \in Functors : f = queue[l][i]
      BY <2>2, <3>1, ElementOfSeq
    <3>3. In(queue, l, f)
      BY <2>2, <3>1, <3>2 DEF In
    <3>4. Waits(l, f) /\ f.conn \in Conns /\ f.op \in Ops
      BY <2>1, <3>3 DEF QueueInv, Functors
    <3>5. CASE f.op = "SendInLoop"
      <4>1. Stage(f.conn) = "ended" => Kept(f.conn)
        BY <3>4, <3>5 DEF Waits, Kept
      <4> QED
        BY <3>2, <3>4, <3>5, <4>1, HeldWhen DEF Waits
    <3>6. CASE f.op # "SendInLoop"
      BY <2>2, <3>2, <3>6 DEF Held, HoldsConn, Sends
    <3> QED
      BY <3>5, <3>6
  <2>3. ASSUME NEW c \in epoll[l] \cup active[l], c # Acceptor PROVE Held(c)
    <3>1. c \in Conns /\ c \in epoll[l]
      BY <2>1, <2>3 DEF TypeOK, PlaceInv
    <3>2. Stage(c) = "up"
      BY <2>1, <3>1 DEF PlaceInv
    <3> QED
      BY <3>1, <3>2, HeldWhen
  <2>4. \A c \in todo[l] \cup ({sending[l]} \ {Nobody}) : Held(c)
    BY <2>1 DEF CastInv, Held
  <2> QED
    BY <2>2, <2>3, <2>4
<1> QED
  BY <1>1, ServerInvariant, PTL

\* ConnectDestroyed() waits behind all that the queues have for its
\* connection but private lines, and the connection by then is in no map and
\* polled by no loop.
THEOREM DestroysLast == SafeSpec => []DestroyedLast
<1>1. ServerInv => DestroyedLast
  <2> SUFFICES ASSUME ServerInv, NEW l \in Loops, NEW i \in DOMAIN queue[l],
                      queue[l][i].op = "ConnectDestroyed", NEW c, c = queue[l][i].conn
               PROVE  /\ \A k \in Loops : \A j \in DOMAIN queue[k] :
                           queue[k][j].conn = c /\ queue[k][j].op # "SendPrivate" =>
                             k = l /\ j <= i
                      /\ c \notin connections \cup reg
                      /\ \A k \in Loops : c \notin epoll[k] \cup active[k]
    BY DEF DestroyedLast
  <2>1. TypeOK /\ StageInv /\ PlaceInv /\ QueueInv
    BY DEF ServerInv
  <2>2. \A k \in Loops : DOMAIN queue[k] = 1..Len(queue[k]) /\ Len(queue[k]) \in Nat
                         /\ \A j \in 1..Len(queue[k]) : queue[k][j] \in Functors
    BY <2>1, LenProperties, ElementOfSeq DEF TypeOK, Functors
  <2>3. c \in Conns /\ l = loopOf[c] /\ Stage(c) = "ended"
    <3>1. PICK f \in Functors : f = queue[l][i]
      BY <2>2
    <3>2. In(queue, l, f)
      BY <2>2, <3>1 DEF In
    <3> QED
      BY <2>1, <3>1, <3>2 DEF QueueInv, Waits, Functors
  <2>4. ASSUME NEW k \in Loops, NEW j \in DOMAIN queue[k], queue[k][j].conn = c,
               queue[k][j].op # "SendPrivate"
        PROVE  k = l /\ j <= i
    <3>1. PICK f \in Functors : f = queue[k][j]
      BY <2>2
    <3>2. In(queue, k, f)
      BY <2>2, <3>1 DEF In
    <3>3. Waits(k, f)
      BY <2>1, <3>2 DEF QueueInv
    <3>4. k = l
      BY <2>3, <2>4, <3>1, <3>3 DEF Waits, Functors, Ops, Sends
    <3>5. ~(i < j)
      BY <2>1, <2>2, <2>4, <3>4 DEF QueueInv, Ordered, Sends
    <3>6. i \in Nat /\ j \in Nat
      BY <2>2
    <3> QED
      BY <3>4, <3>5, <3>6
  <2>5. c \notin connections \cup reg
    BY <2>1, <2>3 DEF Stage, PlaceInv
  <2>6. \A k \in Loops : c \notin epoll[k] \cup active[k]
    BY <2>1, <2>3 DEF PlaceInv
  <2> QED
    BY <2>4, <2>5, <2>6
<1> QED
  BY <1>1, ServerInvariant, PTL

-----------------------------------------------------------------------------
(* The life of a connection.                                               *)

\* Where the phase of a connection comes from.
PhaseOf(c) ==
  IF Stage(c) \in {"none", "opening"} THEN Stage(c)
  ELSE IF Stage(c) \in {"up", "closing"} THEN "up"
  ELSE IF Stage(c) = "removing" \/ Kept(c) THEN "down"
  ELSE "gone"

\* The connections whose handlers run.
Serving == {c \in Conns : \E l \in Loops : pc[l] = "body" /\ at[l] = c}

\* The phase ConnLife gives a connection follows from its stage, while the
\* process lives.
LEMMA PhaseIs == ServerInv /\ ~crashed => Phase = [c \in Conns |-> PhaseOf(c)]
<1> SUFFICES ASSUME ServerInv, ~crashed, NEW c \in Conns PROVE Phase[c] = PhaseOf(c)
  BY DEF Phase
<1>1. StageInv
  BY DEF ServerInv
<1>2. CASE state[c] = "none"
  <2>1. Stage(c) = "none"
    BY <1>2 DEF Stage
  <2>2. c \notin downed /\ ~Gone(c)
    BY <1>1, <1>2, <2>1 DEF StageInv, Gone
  <2>3. Phase[c] = "none"
    BY <1>2, <2>2 DEF Phase
  <2> QED
    BY <2>1, <2>3 DEF PhaseOf
<1>3. CASE state[c] = "kConnecting"
  <2>1. Stage(c) = "opening"
    BY <1>3 DEF Stage
  <2>2. c \notin downed /\ ~Gone(c)
    BY <1>1, <2>1, HeldWhen DEF StageInv, Gone
  <2>3. Phase[c] = "opening"
    BY <1>3, <2>2 DEF Phase
  <2> QED
    BY <2>1, <2>3 DEF PhaseOf
<1>4. CASE state[c] \notin {"none", "kConnecting"}
  <2>1. Stage(c) \in {"up", "closing", "removing", "ended"}
    BY <1>4 DEF Stage
  <2>2. c \in downed <=> Stage(c) \in {"removing", "ended"}
    BY <1>1, <1>4 DEF StageInv, Stage
  <2>3. Held(c) <=> Stage(c) # "ended" \/ Kept(c)
    BY <2>1, HeldWhen
  <2>4. Phase[c] = IF ~Held(c) THEN "gone" ELSE IF c \in downed THEN "down" ELSE "up"
    BY <1>4 DEF Phase, Gone
  <2> QED
    BY <2>1, <2>2, <2>3, <2>4 DEF PhaseOf
<1> QED
  BY <1>2, <1>3, <1>4

\* A connection that is served is up, and so is no other stage.
LEMMA ServedUp == ServerInv => \A c \in Serving : c \in Conns /\ Stage(c) = "up"
BY DEF ServerInv, PlaceInv, Serving

\* Who is still kept, after a step that queues no ConnectDestroyed() and frees
\* no functor.
LEMMA KeptSame ==
  ASSUME UNCHANGED <<done, queue>>
  PROVE  \A c \in Conns : Kept(c)' <=> Kept(c)
BY DEF Kept, In

\* Putting a functor in a queue keeps nothing else alive.
LEMMA KeptPut ==
  ASSUME ServerInv, NEW l \in Loops, NEW op \in Ops, NEW d \in Conns,
         Put(l, Functor(op, d)), op # "ConnectDestroyed", UNCHANGED done
  PROVE  \A c \in Conns : Kept(c)' <=> Kept(c)
<1>1. PICK g \in Functors : g = Functor(op, d)
  BY DEF Functor, Functors
<1>2. queue \in [Loops -> Seq(Functors)]
  BY DEF ServerInv, TypeOK, Functors
<1>3. Added(queue, queue', l, g)
  BY <1>1, <1>2 DEF Put, Added
<1>4. /\ \A k \in Loops, f \in Functors : In(queue', k, f) => In(queue, k, f) \/ (k = l /\ f = g)
      /\ \A k \in Loops, f \in Functors : In(queue, k, f) => In(queue', k, f)
  BY <1>2, <1>3, InAdded
<1>5. \A c \in Conns : /\ Functor("ConnectDestroyed", c) \in Functors
                       /\ Functor("ConnectDestroyed", c) # g
  BY <1>1 DEF Functor, Functors, Ops
<1> QED
  BY <1>4, <1>5 DEF Kept

\* Running one lets go only of the connection it was about.
LEMMA KeptPop ==
  ASSUME ServerInv, NEW l \in Loops, NEW op \in Ops, NEW d \in Conns, Call(l, op, d), Pop(l)
  PROVE  /\ \A c \in Conns \ {d} : Kept(c)' <=> Kept(c)
         /\ op \in Sends \cup {"ConnectDestroyed"} => (Kept(d)' <=> Kept(d))
<1>1. PICK h \in Functors : h = Functor(op, d) /\ h = Head(queue[l])
  BY HeadWaits
<1>2. queue \in [Loops -> Seq(Functors)] /\ Ordered(queue) /\ Len(queue[l]) > 0
  BY HeadWaits DEF ServerInv, TypeOK, Functors, QueueInv
<1>3. Popped(queue, queue', l)
  BY <1>2 DEF Pop, Popped
<1>4. AfterPopped(queue, queue', l)
  BY <1>2, <1>3, PopKeeps
<1>5. /\ \A k \in Loops, f \in Functors : In(queue', k, f) => In(queue, k, f)
      /\ \A k \in Loops, f \in Functors : In(queue, k, f) => In(queue', k, f) \/ (k = l /\ f = h)
  BY <1>1, <1>4 DEF AfterPopped
<1>6. \A c \in Conns : /\ Functor("ConnectDestroyed", c) \in Functors
                       /\ Functor("ConnectDestroyed", c) = h => c = d /\ op = "ConnectDestroyed"
  BY <1>1 DEF Functor, Functors, Ops
<1>7. /\ \A k \in Loops \ {l} : done'[k] = done[k]
      /\ done'[l] = IF op \in Sends THEN done[l] ELSE done[l] \cup {d}
  BY DEF Call, ServerInv, TypeOK
<1>8. ASSUME NEW c \in Conns \ {d} PROVE Kept(c)' <=> Kept(c)
  BY <1>5, <1>6, <1>7 DEF Kept
<1>9. ASSUME op \in Sends PROVE Kept(d)' <=> Kept(d)
  BY <1>5, <1>6, <1>7, <1>9 DEF Kept, Sends
<1>10. ASSUME op = "ConnectDestroyed" PROVE Kept(d)' /\ Kept(d)
  <2>1. In(queue, l, Functor("ConnectDestroyed", d))
    BY <1>10, HeadWaits
  <2>2. d \in done'[l]
    BY <1>7, <1>10 DEF Sends
  <2> QED
    BY <2>1, <2>2 DEF Kept
<1> QED
  BY <1>8, <1>9, <1>10

\* The removal hands the last pointer on to ConnectDestroyed().
LEMMA KeptMove ==
  ASSUME ServerInv, NEW c \in Conns, Removes(c)
  PROVE  Kept(c)' /\ \A d \in Conns \ {c} : Kept(d)' <=> Kept(d)
<1>1. PICK h, g, l : /\ h = Functor("RemoveConnectionInLoop", c)
                     /\ g = Functor("ConnectDestroyed", c)
                     /\ l = loopOf[c]
  OBVIOUS
<1>2. AfterMoved(queue, queue', Base, l, g) /\ h = Head(queue[Base])
  BY <1>1 DEF Removes
<1>3. /\ \A k \in Loops, f \in Functors : In(queue', k, f) => In(queue, k, f) \/ (k = l /\ f = g)
      /\ \A k \in Loops, f \in Functors : In(queue, k, f) => In(queue', k, f) \/ (k = Base /\ f = h)
      /\ In(queue', l, g)
  BY <1>2 DEF AfterMoved
<1>4. l \in Loops
  BY <1>1, Constants DEF ServerInv, StageInv, Removes, Stage
<1>5. \A d \in Conns \ {c} : /\ Functor("ConnectDestroyed", d) \in Functors
                             /\ Functor("ConnectDestroyed", d) \notin {h, g}
  BY <1>1 DEF Functor, Functors, Ops
<1>6. \A k \in Loops, d \in Conns \ {c} : d \in done'[k] <=> d \in done[k]
  BY DEF Removes, ServerInv, TypeOK
<1>7. Kept(c)'
  BY <1>1, <1>3, <1>4 DEF Kept
<1>8. ASSUME NEW d \in Conns \ {c} PROVE Kept(d)' <=> Kept(d)
  BY <1>3, <1>5, <1>6 DEF Kept
<1> QED
  BY <1>7, <1>8

\* Everything that the abstract specification says in terms of Phase.
Mapped == Phase = [c \in Conns |-> PhaseOf(c)] /\ Phase' = [c \in Conns |-> PhaseOf(c)']

\* One connection goes from a phase to the next.
LEMMA Becomes ==
  ASSUME Mapped, NEW c \in Conns, NEW from, NEW to,
         <<from, to>> \in {<<"none", "opening">>, <<"opening", "up">>, <<"up", "down">>},
         PhaseOf(c) = from, PhaseOf(c)' = to, c \notin Serving, UNCHANGED Serving,
         \A d \in Conns \ {c} : PhaseOf(d)' = PhaseOf(d)
  PROVE  Life!Next
<1>1. Phase[c] = from
  BY DEF Mapped
<1>2. Phase' = [Phase EXCEPT ![c] = to]
  BY DEF Mapped
<1>3. Life!Become(c, from, to)
  BY <1>1, <1>2 DEF Life!Become, Serving
<1>4. \/ from = "none" /\ to = "opening"
      \/ from = "opening" /\ to = "up"
      \/ from = "up" /\ to = "down"
  OBVIOUS
<1> QED
  BY <1>3, <1>4 DEF Life!Next, Life!Step

\* Nothing of it changes.
LEMMA Stutters ==
  ASSUME Mapped, UNCHANGED Serving, \A c \in Conns : PhaseOf(c)' = PhaseOf(c)
  PROVE  UNCHANGED Life!vars
<1>1. Phase' = Phase
  BY DEF Mapped
<1> QED
  BY <1>1 DEF Life!vars, Serving

\* What keeps the stage and the pointers keeps the phase.
LEMMA PhaseSame ==
  ASSUME NEW c \in Conns, Stage(c)' = Stage(c), Kept(c)' <=> Kept(c)
  PROVE  PhaseOf(c)' = PhaseOf(c)
BY DEF PhaseOf

\* A loop that runs no handler before or after serves as before.
LEMMA ServingSame ==
  ASSUME NEW l \in Loops, pc[l] # "body", pc'[l] # "body",
         \A k \in Loops \ {l} : pc'[k] = pc[k] /\ at'[k] = at[k]
  PROVE  UNCHANGED Serving
BY DEF Serving

\* The steps of the base loop.
LEMMA BaseLife ==
  ASSUME ServerInv, Mapped, Start \/ HandleAccept \/ RemoveConnectionInLoop
  PROVE  [Life!Next]_(Life!vars)
<1>1. TypeOK /\ StageInv /\ PlaceInv
  BY DEF ServerInv
<1>2. CASE Start
  <2>1. UNCHANGED <<state, connections, downed, loopOf, done, queue>>
    BY <1>2 DEF Start, life, pool, run
  <2>2. ASSUME NEW c \in Conns, state[c] # "none"
        PROVE  epoll'[loopOf[c]] = epoll[loopOf[c]]
    BY <1>1, <1>2, <2>2, Constants DEF Start, StageInv, TypeOK
  <2>3. \A c \in Conns : Stage(c)' = Stage(c)
    BY <2>1, <2>2 DEF Stage
  <2>4. \A c \in Conns : PhaseOf(c)' = PhaseOf(c)
    BY <2>1, <2>3, KeptSame, PhaseSame
  <2>5. UNCHANGED Serving
    BY <1>1, <1>2, Constants, ServingSame DEF Start, Goto, TypeOK
  <2> QED
    BY <2>4, <2>5, Stutters
<1>3. CASE HandleAccept
  <2>1. UNCHANGED <<downed, epoll, pc, at, done>>
    BY <1>3 DEF HandleAccept, run, control
  <2>2. UNCHANGED Serving
    BY <2>1 DEF Serving
  <2>3. CASE UNCHANGED <<nextId, next, loopOf, connections, state, queue>>
    <3>1. \A c \in Conns : Stage(c)' = Stage(c)
      BY <2>1, <2>3, StageSame
    <3>2. \A c \in Conns : PhaseOf(c)' = PhaseOf(c)
      BY <2>1, <2>3, <3>1, KeptSame, PhaseSame
    <3> QED
      BY <2>2, <3>2, Stutters
  <2>4. CASE NewConnection
    <3> PICK c : c = nextId
      OBVIOUS
    <3> PICK l : l = Pool[next]
      OBVIOUS
    <3>1. c \in Conns
      <4>1. nextId <= arrived
        BY <1>1, <1>3 DEF HandleAccept, PlaceInv
      <4> QED
        BY <1>1, <4>1, BoundAssumption DEF TypeOK, Conns
    <3>2. /\ loopOf' = [loopOf EXCEPT ![c] = l]
          /\ state' = [state EXCEPT ![c] = "kConnecting"]
          /\ connections' = connections \cup {c}
          /\ Put(l, Functor("ConnectionEstablished", c))
      BY <2>4 DEF NewConnection
    <3>3. Stage(c) = "none"
      BY <1>1, <3>1 DEF StageInv, Stage, TypeOK
    <3>4. Stage(c)' = "opening"
      <4>1. state'[c] = "kConnecting"
        BY <1>1, <3>1, <3>2 DEF TypeOK
      <4> QED
        BY <4>1 DEF Stage
    <3>5. \A d \in Conns \ {c} : Stage(d)' = Stage(d)
      BY <1>1, <2>1, <3>1, <3>2 DEF Stage, TypeOK
    <3>6. \A d \in Conns : Kept(d)' <=> Kept(d)
      <4>1. l \in Loops
        BY <1>1, PoolAssumption, ElementOfSeq, Constants DEF TypeOK
      <4>2. "ConnectionEstablished" \in Ops
        BY DEF Ops
      <4> QED
        BY <2>1, <3>1, <3>2, <4>1, <4>2, KeptPut
    <3>7. \A d \in Conns \ {c} : PhaseOf(d)' = PhaseOf(d)
      BY <3>5, <3>6, PhaseSame
    <3>8. PhaseOf(c) = "none" /\ PhaseOf(c)' = "opening"
      BY <3>3, <3>4 DEF PhaseOf
    <3>9. c \notin Serving
      BY <3>3, ServedUp
    <3> QED
      BY <2>2, <3>1, <3>7, <3>8, <3>9, Becomes
  <2> QED
    BY <1>3, <2>3, <2>4 DEF HandleAccept
<1>4. CASE RemoveConnectionInLoop
  <2>1. PICK c \in Conns : Removes(c)
    BY <1>4, RemoveDoes
  <2>2. PhaseOf(c)' = "down" /\ PhaseOf(c) = "down"
    BY <2>1, KeptMove DEF Removes, PhaseOf
  <2>3. \A d \in Conns \ {c} : PhaseOf(d)' = PhaseOf(d)
    BY <2>1, KeptMove, PhaseSame DEF Removes
  <2>4. UNCHANGED Serving
    BY <1>4 DEF RemoveConnectionInLoop, Serving, control
  <2> QED
    BY <2>2, <2>3, <2>4, Stutters
<1> QED
  BY <1>2, <1>3, <1>4

\* The steps that neither move a connection on nor enter or leave a callback.
LEMMA QuietLife ==
  ASSUME ServerInv, Mapped, NEW l \in Loops,
         \/ Poll(l) \/ DispatchDone(l) \/ SendCheck(l) \/ SendQueue(l)
         \/ PrivateCheck(l) \/ PrivateQueue(l)
         \/ SendInLoop(l) \/ ConnectDestroyed(l) \/ AppStep(l)
  PROVE  [Life!Next]_(Life!vars)
<1>1. TypeOK /\ StageInv /\ PlaceInv /\ CastInv
  BY DEF ServerInv
<1>2. CASE Poll(l) \/ DispatchDone(l)
  <2>1. UNCHANGED <<state, connections, downed, loopOf, epoll, done, queue>>
    BY <1>2 DEF Poll, DispatchDone, life, pool, poller, run
  <2>2. \A c \in Conns : Stage(c)' = Stage(c)
    BY <2>1, StageSame
  <2>3. \A c \in Conns : PhaseOf(c)' = PhaseOf(c)
    BY <2>1, <2>2, KeptSame, PhaseSame
  <2>4. UNCHANGED Serving
    BY <1>1, <1>2, ServingSame DEF Poll, DispatchDone, Goto, TypeOK
  <2> QED
    BY <2>3, <2>4, Stutters
<1>3. CASE SendCheck(l) \/ PrivateCheck(l) \/ AppStep(l)
  <2>1. UNCHANGED <<connections, downed, loopOf, epoll, done, queue, pc, at>>
    BY <1>3 DEF SendCheck, PrivateCheck, AppStep, Register, Shutdown, Broadcast, PrivateFind,
                life, pool, poller, run, control
  <2>2. \A c \in Conns : Stage(c)' = Stage(c)
    <3>1. CASE Shutdown(l)
      <4>1. at[l] \in Conns /\ Stage(at[l]) = "up"
        BY <1>1, <3>1 DEF Shutdown, TypeOK, PlaceInv
      <4>2. state[at[l]] = "kConnected" /\ state' = [state EXCEPT ![at[l]] = "kDisconnected"]
        BY <3>1 DEF Shutdown
      <4> QED
        BY <1>1, <2>1, <4>1, <4>2 DEF Stage, TypeOK
    <3>2. CASE UNCHANGED state
      BY <2>1, <3>2, StageSame
    <3> QED
      BY <1>3, <3>1, <3>2
         DEF SendCheck, PrivateCheck, AppStep, Register, Broadcast, PrivateFind, life
  <2>3. \A c \in Conns : PhaseOf(c)' = PhaseOf(c)
    BY <2>1, <2>2, KeptSame, PhaseSame
  <2>4. UNCHANGED Serving
    BY <2>1 DEF Serving
  <2> QED
    BY <2>3, <2>4, Stutters
<1>4. CASE SendQueue(l)
  <2> PICK d : d = sending[l]
    OBVIOUS
  <2>1. /\ UNCHANGED <<state, connections, downed, loopOf, epoll, done, pc, at>>
        /\ Put(loopOf[d], Functor("SendInLoop", d)) /\ d # Nobody
    BY <1>4 DEF SendQueue, life, pool, poller, run, control
  <2>2. d \in Conns /\ loopOf[d] \in Loops
    BY <1>1, <2>1, Constants DEF TypeOK, CastInv, PlaceInv, StageInv, Stage
  <2>3. \A c \in Conns : Stage(c)' = Stage(c)
    BY <2>1, StageSame
  <2>4. \A c \in Conns : Kept(c)' <=> Kept(c)
    BY <2>1, <2>2, KeptPut DEF Ops, Sends
  <2>5. \A c \in Conns : PhaseOf(c)' = PhaseOf(c)
    BY <2>3, <2>4, PhaseSame
  <2>6. UNCHANGED Serving
    BY <2>1 DEF Serving
  <2> QED
    BY <2>5, <2>6, Stutters
<1>5. CASE SendInLoop(l) \/ ConnectDestroyed(l)
  <2>1. PICK d \in Conns, op \in Sends \cup {"ConnectDestroyed"} : Call(l, op, d) /\ Pop(l)
    BY <1>5 DEF SendInLoop, ConnectDestroyed
  <2>2. \A c \in Conns : Kept(c)' <=> Kept(c)
    <3>1. op \in Ops
      BY DEF Ops
    <3> QED
      BY <2>1, <3>1, KeptPop
  <2>3. \A c \in Conns : Stage(c)' = Stage(c)
    <3>1. CASE SendInLoop(l)
      BY <3>1, StageSame DEF SendInLoop, life, pool, poller
    <3>2. CASE ConnectDestroyed(l)
      <4>1. PICK c \in Conns :
              /\ Call(l, "ConnectDestroyed", c)
              /\ epoll' = [epoll EXCEPT ![l] = @ \ {c}]
              /\ state[c] # "kConnected" => UNCHANGED <<state, downed>>
        BY <3>2 DEF ConnectDestroyed
      <4>2. Stage(c) = "ended"
        <5>1. "ConnectDestroyed" \in Ops
          BY DEF Ops
        <5>2. Waits(l, Functor("ConnectDestroyed", c))
          BY <4>1, <5>1, HeadWaits
        <5> QED
          BY <5>2 DEF Waits, Functor
      <4>3. UNCHANGED <<state, downed, epoll>>
        BY <1>1, <4>1, <4>2 DEF StageInv, PlaceInv, TypeOK
      <4> QED
        BY <3>2, <4>3, StageSame DEF ConnectDestroyed, pool
    <3> QED
      BY <1>5, <3>1, <3>2
  <2>4. \A c \in Conns : PhaseOf(c)' = PhaseOf(c)
    BY <2>2, <2>3, PhaseSame
  <2>5. UNCHANGED Serving
    BY <1>5 DEF SendInLoop, ConnectDestroyed, Serving, control
  <2> QED
    BY <2>4, <2>5, Stutters
<1>6. CASE PrivateQueue(l)
  <2>1. /\ UNCHANGED <<state, connections, downed, loopOf, epoll, done, pc, at>>
        /\ passed[l] # Nobody
    BY <1>6 DEF PrivateQueue, life, pool, poller, run, control
  <2>2. PICK k : UNCHANGED queue \/ Put(k, Functor("SendPrivate", passed[l]))
    BY <1>6 DEF PrivateQueue
  <2>3. passed[l] \in Conns /\ queue \in [Loops -> Seq(Functors)]
    BY <1>1, <2>1 DEF TypeOK, Functors
  <2>4. \A c \in Conns : Kept(c)' <=> Kept(c)
    <3>1. CASE UNCHANGED queue
      BY <2>1, <3>1, KeptSame
    <3>2. CASE queue' # queue
      <4>1. k \in Loops /\ Put(k, Functor("SendPrivate", passed[l]))
        BY <2>2, <2>3, <3>2 DEF Put
      <4> QED
        BY <2>1, <2>3, <4>1, KeptPut DEF Ops, Sends
    <3> QED
      BY <3>1, <3>2
  <2>5. \A c \in Conns : Stage(c)' = Stage(c)
    BY <2>1, StageSame
  <2>6. \A c \in Conns : PhaseOf(c)' = PhaseOf(c)
    BY <2>4, <2>5, PhaseSame
  <2>7. UNCHANGED Serving
    BY <2>1 DEF Serving
  <2> QED
    BY <2>6, <2>7, Stutters
<1> QED
  BY <1>2, <1>3, <1>4, <1>5, <1>6

\* The steps in which a connection opens, is served, closes and is freed.
LEMMA LoopLife ==
  ASSUME ServerInv, Mapped, NEW l \in Loops,
         \/ ConnectionEstablished(l) \/ HandleRead(l) \/ BodyDone(l)
         \/ HandleClose(l) \/ Down(l) \/ BatchDone(l)
  PROVE  [Life!Next]_(Life!vars)
<1>1. TypeOK /\ StageInv /\ PlaceInv
  BY DEF ServerInv
<1>2. CASE ConnectionEstablished(l)
  <2>1. PICK c \in Conns : /\ Call(l, "ConnectionEstablished", c)
                           /\ state' = [state EXCEPT ![c] = "kConnected"]
                           /\ epoll' = [epoll EXCEPT ![l] = @ \cup {c}]
    BY <1>2 DEF ConnectionEstablished
  <2>2. Pop(l) /\ UNCHANGED <<loopOf, connections, downed, pc, at>>
    BY <1>2 DEF ConnectionEstablished, pool, control
  <2>3. "ConnectionEstablished" \in Ops
    BY DEF Ops
  <2>4. l = loopOf[c] /\ Stage(c) = "opening"
    <3>1. Waits(l, Functor("ConnectionEstablished", c))
      BY <2>1, <2>3, HeadWaits
    <3> QED
      BY <3>1 DEF Waits, Functor
  <2>5. /\ c \in connections /\ c \notin downed /\ state'[c] = "kConnected"
        /\ c \in epoll'[l]
    BY <1>1, <2>1, <2>4 DEF StageInv, TypeOK
  <2>6. Stage(c)' = "up"
    BY <2>2, <2>4, <2>5 DEF Stage
  <2>7. \A d \in Conns \ {c} : Stage(d)' = Stage(d)
    <3>1. ASSUME NEW d \in Conns \ {c}, state[d] # "none"
          PROVE  d \in epoll'[loopOf[d]] <=> d \in epoll[loopOf[d]]
      BY <1>1, <2>1, <3>1, Constants DEF StageInv, TypeOK
    <3>2. \A d \in Conns \ {c} : state'[d] = state[d]
      BY <1>1, <2>1 DEF TypeOK
    <3> QED
      BY <2>2, <3>1, <3>2 DEF Stage
  <2>8. \A d \in Conns \ {c} : PhaseOf(d)' = PhaseOf(d)
    BY <2>1, <2>2, <2>3, <2>7, KeptPop, PhaseSame
  <2>9. PhaseOf(c) = "opening" /\ PhaseOf(c)' = "up"
    BY <2>4, <2>6 DEF PhaseOf
  <2>10. c \notin Serving /\ UNCHANGED Serving
    BY <2>2, <2>4, ServedUp DEF Serving
  <2> QED
    BY <2>8, <2>9, <2>10, Becomes
<1>3. CASE HandleRead(l) \/ BodyDone(l)
  <2>1. UNCHANGED <<state, connections, downed, loopOf, epoll, done, queue>>
    BY <1>3 DEF HandleRead, BodyDone, life, pool, poller, run
  <2>2. \A c \in Conns : Stage(c)' = Stage(c)
    BY <2>1, StageSame
  <2>3. \A c \in Conns : PhaseOf(c)' = PhaseOf(c)
    BY <2>1, <2>2, KeptSame, PhaseSame
  <2>4. UNCHANGED Phase
    BY <2>3 DEF Mapped
  <2>5. CASE HandleRead(l)
    <3>1. PICK c \in active[l] \cap data : at' = [at EXCEPT ![l] = c]
      BY <2>5 DEF HandleRead, HandleEvent
    <3>2. pc[l] = "dispatch" /\ pc' = [pc EXCEPT ![l] = "body"]
      BY <2>5 DEF HandleRead, Goto
    <3>3. c \in Conns /\ Stage(c) = "up" /\ loopOf[c] = l
      BY <1>1, <3>1, <3>2 DEF TypeOK, PlaceInv
    <3>4. c \notin Serving
      BY <1>1, <3>2, <3>3 DEF Serving, PlaceInv
    <3>5. Serving' = Serving \cup {c}
      BY <1>1, <3>1, <3>2, <3>3 DEF Serving, TypeOK
    <3>6. Phase[c] = "up"
      BY <3>3 DEF Mapped, PhaseOf
    <3>7. Life!Serve(c)
      BY <2>4, <3>4, <3>5, <3>6 DEF Life!Serve, Serving
    <3> QED
      BY <3>3, <3>7 DEF Life!Next, Life!Step
  <2>6. CASE BodyDone(l)
    <3> PICK c : c = at[l]
      OBVIOUS
    <3>1. /\ pc[l] = "body" /\ pc' = [pc EXCEPT ![l] = "dispatch"]
          /\ at' = [at EXCEPT ![l] = Nobody]
      BY <2>6 DEF BodyDone, Goto
    <3>2. c \in Conns /\ loopOf[c] = l
      BY <1>1, <3>1 DEF TypeOK, PlaceInv
    <3>3. c \in Serving
      BY <3>1, <3>2 DEF Serving
    <3>4. Serving' = Serving \ {c}
      BY <1>1, <3>1, <3>2 DEF Serving, TypeOK, PlaceInv
    <3>5. Life!Served(c)
      BY <2>4, <3>3, <3>4 DEF Life!Served, Serving
    <3> QED
      BY <3>2, <3>5 DEF Life!Next, Life!Step
  <2> QED
    BY <1>3, <2>5, <2>6
<1>4. CASE HandleClose(l)
  <2>1. PICK c \in active[l] : /\ at' = [at EXCEPT ![l] = c]
                               /\ state' = [state EXCEPT ![c] = "kDisconnected"]
                               /\ epoll' = [epoll EXCEPT ![l] = @ \ {c}]
                               /\ c \in eof
    BY <1>4 DEF HandleClose, HandleEvent, Disabled
  <2>2. /\ pc' = [pc EXCEPT ![l] = "down"] /\ pc[l] = "dispatch"
        /\ UNCHANGED <<connections, downed, loopOf, queue, done>>
    BY <1>4 DEF HandleClose, Goto, pool, run
  <2>3. c \in Conns /\ Stage(c) = "up" /\ loopOf[c] = l
    BY <1>1, <2>1 DEF TypeOK, PlaceInv
  <2>4. Stage(c)' = "closing"
    BY <1>1, <2>1, <2>2, <2>3 DEF Stage, TypeOK
  <2>5. \A d \in Conns \ {c} : Stage(d)' = Stage(d)
    BY <1>1, <2>1, <2>2, <2>3 DEF Stage, TypeOK, StageInv
  <2>6. \A d \in Conns : PhaseOf(d)' = PhaseOf(d)
    BY <2>2, <2>3, <2>4, <2>5, KeptSame, PhaseSame DEF PhaseOf
  <2>7. UNCHANGED Serving
    BY <1>1, <2>1, <2>2, ServingSame DEF TypeOK
  <2> QED
    BY <2>6, <2>7, Stutters
<1>5. CASE Down(l)
  <2> PICK c : c = at[l]
    OBVIOUS
  <2>1. /\ pc' = [pc EXCEPT ![l] = "dispatch"] /\ pc[l] = "down"
        /\ at' = [at EXCEPT ![l] = Nobody]
        /\ downed' = downed \cup {c} /\ Put(Base, Functor("RemoveConnectionInLoop", c))
        /\ UNCHANGED <<loopOf, connections, state, epoll, done>>
    BY <1>5 DEF Down, Goto, pool, poller, run
  <2>2. c \in Conns /\ Stage(c) = "closing"
    BY <1>1, <2>1 DEF TypeOK, PlaceInv
  <2>3. state[c] = "kDisconnected" /\ c \in connections
    BY <1>1, <2>2 DEF StageInv, Stage
  <2>4. Stage(c)' = "removing"
    BY <2>1, <2>3 DEF Stage
  <2>5. \A d \in Conns \ {c} : Stage(d)' = Stage(d)
    BY <2>1 DEF Stage
  <2>6. \A d \in Conns : Kept(d)' <=> Kept(d)
    BY <2>1, <2>2, Constants, KeptPut DEF Ops
  <2>7. \A d \in Conns \ {c} : PhaseOf(d)' = PhaseOf(d)
    BY <2>5, <2>6, PhaseSame
  <2>8. PhaseOf(c) = "up" /\ PhaseOf(c)' = "down"
    BY <2>2, <2>4 DEF PhaseOf
  <2>9. c \notin Serving
    BY <2>2, ServedUp
  <2>10. UNCHANGED Serving
    BY <1>1, <2>1, ServingSame DEF TypeOK
  <2> QED
    BY <2>2, <2>7, <2>8, <2>9, <2>10, Becomes
<1>6. CASE BatchDone(l)
  <2>1. /\ UNCHANGED <<state, connections, downed, loopOf, epoll, queue, at>>
        /\ done' = [done EXCEPT ![l] = {}]
        /\ pc[l] = "functors" /\ pc' = [pc EXCEPT ![l] = "poll"]
    BY <1>6 DEF BatchDone, Goto, life, pool, poller
  <2>2. \A c \in Conns : Stage(c)' = Stage(c)
    BY <2>1, StageSame
  <2>3. \A c \in Conns : Kept(c)' => Kept(c)
    BY <1>1, <2>1 DEF Kept, In, TypeOK
  <2>4. UNCHANGED Serving
    BY <1>1, <2>1, ServingSame DEF TypeOK
  <2>5. \A c \in Conns : \/ PhaseOf(c)' = PhaseOf(c)
                         \/ PhaseOf(c) = "down" /\ PhaseOf(c)' = "gone"
    BY <2>2, <2>3 DEF PhaseOf
  <2> DEFINE gone == {c \in Conns : PhaseOf(c) = "down" /\ PhaseOf(c)' = "gone"}
  <2>6. gone \in SUBSET {c \in Conns : Phase[c] = "down"}
    BY DEF Mapped
  <2>7. Phase' = [c \in Conns |-> IF c \in gone THEN "gone" ELSE Phase[c]]
    BY <2>5 DEF Mapped
  <2> HIDE DEF gone
  <2>8. Life!GiveBack
    BY <2>4, <2>6, <2>7 DEF Life!GiveBack, Serving
  <2> QED
    BY <2>8 DEF Life!Next
<1> QED
  BY <1>2, <1>3, <1>4, <1>5, <1>6

\* The peers change nothing of it.
LEMMA PeersLife ==
  ASSUME ServerInv, Mapped, PeerConnect \/ PeerSend \/ PeerClose \/ UNCHANGED vars
  PROVE  UNCHANGED Life!vars
<1>1. UNCHANGED server
  BY DEF PeerConnect, PeerSend, PeerClose, vars, server
<1>2. UNCHANGED <<state, connections, downed, loopOf, epoll, queue, done, pc, at>>
  BY <1>1 DEF server, life, pool, poller, run, control
<1>3. \A c \in Conns : Stage(c)' = Stage(c)
  BY <1>2, StageSame
<1>4. \A c \in Conns : PhaseOf(c)' = PhaseOf(c)
  BY <1>2, <1>3, KeptSame, PhaseSame
<1>5. UNCHANGED Serving
  BY <1>2 DEF Serving
<1> QED
  BY <1>4, <1>5, Stutters

\* The use of freed memory, if the process dies of it, gives back all that is
\* down.
LEMMA CrashLife ==
  ASSUME ServerInv, ~crashed, NEW l \in Loops, UseAfterFree(l)
  PROVE  [Life!Next]_(Life!vars)
<1>1. /\ crashed' = TRUE
      /\ UNCHANGED <<state, connections, downed, reg, at, done, queue, pc>>
  BY DEF UseAfterFree, life, run, control
<1>2. \A c \in Conns : (Held(c)' <=> Held(c)) /\ (Gone(c)' <=> Gone(c))
  BY <1>1 DEF Held, Gone
<1>3. UNCHANGED Serving
  BY <1>1 DEF Serving
<1> DEFINE gone == {c \in Conns : Phase[c] = "down"}
<1>4. ASSUME NEW c \in Conns
      PROVE  Phase'[c] = IF Phase[c] = "down" THEN "gone" ELSE Phase[c]
  <2>1. StageInv
    BY DEF ServerInv
  <2>2. c \in downed => state[c] \notin {"none", "kConnecting"}
    BY <2>1 DEF StageInv, Stage
  <2>3. /\ Gone(c) <=> state[c] # "none" /\ ~Held(c)
        /\ state[c] = "kConnecting" => Held(c)
    BY HeldWhen DEF Gone, Stage
  <2>4. Phase[c] = IF state[c] = "none" THEN "none"
                   ELSE IF state[c] = "kConnecting" THEN "opening"
                   ELSE IF Gone(c) THEN "gone"
                   ELSE IF c \in downed /\ Held(c) THEN "down" ELSE "up"
    BY <2>2, <2>3 DEF Phase
  <2>5. Phase'[c] = IF state[c] = "none" THEN "none"
                    ELSE IF state[c] = "kConnecting" THEN "opening"
                    ELSE IF Gone(c) \/ c \in downed THEN "gone" ELSE "up"
    <3>1. (Held(c)' <=> Held(c)) /\ (Gone(c)' <=> Gone(c))
      BY <1>2
    <3> QED
      BY <1>1, <2>2, <2>3, <3>1 DEF Phase
  <2> QED
    BY <2>2, <2>3, <2>4, <2>5
<1>5. Phase' = [c \in Conns |-> IF c \in gone THEN "gone" ELSE Phase[c]]
  BY <1>4 DEF Phase
<1> HIDE DEF gone
<1>6. Life!GiveBack
  BY <1>3, <1>5 DEF Life!GiveBack, Serving, gone
<1> QED
  BY <1>6 DEF Life!Next

\* Nothing else lets the process die.
LEMMA OnlyUseAfterFree ==
  ASSUME ~crashed, Next, crashed'
  PROVE  \E l \in Loops : UseAfterFree(l)
<1>1. UNCHANGED app => ~crashed'
  BY DEF app
<1>2. UNCHANGED private => ~crashed'
  BY DEF private
<1>3. ~(PeerConnect \/ PeerSend \/ PeerClose \/ Terminated)
  BY <1>1 DEF PeerConnect, PeerSend, PeerClose, Terminated, server, vars
<1>4. ASSUME NEW l \in Loops, AppStep(l) PROVE FALSE
  BY <1>1, <1>2, <1>4 DEF AppStep, Register, Shutdown, Broadcast, PrivateFind
<1>5. ASSUME NEW l \in Loops, LoopStep(l) PROVE UseAfterFree(l)
  <2>1. ~(Start \/ HandleAccept \/ RemoveConnectionInLoop)
    BY <1>1 DEF Start, HandleAccept, RemoveConnectionInLoop
  <2>2. ~(Poll(l) \/ HandleRead(l) \/ HandleClose(l) \/ BodyDone(l) \/ Down(l))
    BY <1>1 DEF Poll, HandleRead, HandleClose, BodyDone, Down
  <2>3. ~(SendCheck(l) \/ SendQueue(l) \/ PrivateCheck(l) \/ PrivateQueue(l))
    BY <1>2 DEF SendCheck, SendQueue, PrivateCheck, PrivateQueue
  <2>4. ~(DispatchDone(l) \/ BatchDone(l) \/ ConnectionEstablished(l) \/ SendInLoop(l)
          \/ ConnectDestroyed(l))
    BY <1>1 DEF DispatchDone, BatchDone, ConnectionEstablished, SendInLoop, ConnectDestroyed
  <2> QED
    BY <1>5, <2>1, <2>2, <2>3, <2>4 DEF LoopStep
<1> QED
  BY <1>3, <1>4, <1>5 DEF Next

\* The server keeps the life of ConnLife for every connection: up once, served
\* only while up, down once, freed after that and never before, though a
\* private line may crash the process.
THEOREM LifeIsKept == SafeSpec => Life!SafeSpec
<1>1. Init => Life!Init
  <2> SUFFICES ASSUME Init PROVE Life!Init
    OBVIOUS
  <2>1. ServerInv /\ ~crashed
    BY ServerInit DEF Init
  <2>2. \A c \in Conns : PhaseOf(c) = "none"
    BY DEF Init, PhaseOf, Stage
  <2>3. Phase = [c \in Conns |-> "none"]
    BY <2>1, <2>2, PhaseIs
  <2>4. \A l \in Loops : pc[l] # "body"
    BY DEF Init
  <2> QED
    BY <2>3, <2>4 DEF Life!Init
<1>2. ServerInv /\ ServerInv' /\ [Next]_vars => [Life!Next]_(Life!vars)
  <2>1. ServerInv' /\ ~crashed' => (Phase = [c \in Conns |-> PhaseOf(c)])'
    BY PhaseIs, PTL
  <2> SUFFICES ASSUME ServerInv, ServerInv', [Next]_vars PROVE [Life!Next]_(Life!vars)
    OBVIOUS
  <2>2. CASE UNCHANGED vars
    <3>1. UNCHANGED Phase
      BY <2>2 DEF vars, pool, life, run, control, app, Phase, Gone, Held
    <3>2. UNCHANGED Serving
      BY <2>2 DEF vars, control, Serving
    <3> QED
      BY <3>1, <3>2 DEF Life!vars, Serving
  <2>3. CASE Next /\ ~crashed /\ crashed'
    BY <2>3, OnlyUseAfterFree, CrashLife
  <2>4. CASE Next /\ ~crashed /\ ~crashed'
    <3>1. Mapped
      BY <2>1, <2>4, PhaseIs DEF Mapped
    <3>2. ASSUME NEW l \in Loops, UseAfterFree(l) PROVE FALSE
      BY <2>4, <3>2 DEF UseAfterFree
    <3>3. ASSUME NEW l \in Loops, LoopStep(l) \/ AppStep(l) PROVE [Life!Next]_(Life!vars)
      BY <3>1, <3>2, <3>3, BaseLife, QuietLife, LoopLife DEF LoopStep
    <3>4. CASE PeerConnect \/ PeerSend \/ PeerClose \/ UNCHANGED vars
      BY <3>1, <3>4, PeersLife
    <3> QED
      BY <2>4, <3>3, <3>4 DEF Next, Terminated
  <2>5. CASE Next /\ crashed
    BY <2>2, <2>5 DEF Next, Terminated
  <2> QED
    BY <2>2, <2>3, <2>4, <2>5
<1> QED
  BY <1>1, <1>2, ServerInvariant, PTL DEF SafeSpec, Life!SafeSpec
=============================================================================
