------------------------------ MODULE TcpServer ------------------------------
(***************************************************************************)
(* The life of the connections of an mtd::TcpServer: accepted on the base  *)
(* loop (server/src/tcp_server.cpp, acceptor.cpp), handed to an io loop    *)
(* (event_loop_thread_pool.cpp), served there, taken out on the base loop  *)
(* and destroyed on the io loop again (tcp_connection.cpp, channel.cpp).   *)
(* Memory is the question: who holds a shared_ptr to a connection, who     *)
(* only a raw pointer, and what is still queued when the last shared_ptr   *)
(* goes, and with it the descriptor, of which there is a limited number.   *)
(*                                                                         *)
(* A loop's functors are a first-in first-out queue (LoopQueue.tla), run   *)
(* in batches whose vector keeps what they bind until the batch ends.  The *)
(* application is that of ChatRoom.tla reduced to its use of connections:  *)
(* it registers one in its maps and takes it out under map_mtx, sends to   *)
(* all that are registered under map_mtx shared, and sends a private line  *)
(* to one of them under no lock at all.  That line's raw pointer may be    *)
(* used after its connection is freed; what the code does then is          *)
(* undefined and is modelled by Read and UseAfterFree.  The pool has at    *)
(* least one thread (set_thread_num(3)), so the base loop serves no        *)
(* connection.                                                             *)
(***************************************************************************)
EXTENDS Integers, Sequences, FiniteSets, SequencesExt

CONSTANTS
  Base,          \* loop_
  Pool,          \* loops_ of the thread pool, as a sequence
  Limits,        \* how many descriptors there may be for connections
  MaxConns,      \* bound: peers that connect
  MaxSends       \* bound: broadcasts and private lines

IoLoops == ToSet(Pool)
Loops == IoLoops \cup {Base}

ASSUME PoolAssumption == Pool \in Seq(IoLoops) /\ Pool # <<>> /\ Base \notin IoLoops
ASSUME LimitAssumption == Limits \subseteq Nat \ {0}
ASSUME BoundAssumption == MaxConns \in Nat /\ MaxSends \in Nat

Conns == 1..MaxConns
Acceptor == MaxConns + 1  \* accept_channel_ among the channels
Nobody == 0
NoLoop == "no loop"

VARIABLES
  nextId,        \* next_connection_id_: those before it were accepted
  next,          \* next_ of the thread pool, from 1
  loopOf,        \* loop_ of each connection
  limit,         \* RLIMIT_NOFILE, less what is not a connection
  connections,   \* connections_
  state,         \* state_ of each connection, "none" before it is accepted
  downed,        \* connections whose down callback was called
  epoll,         \* epoll[l]: connections whose channel is registered
  active,        \* what is left of active_channels_ of each loop
  queue,         \* pending_functors_ of each loop
  batch,         \* how many of them are left in the batch being run
  done,          \* connections that the functors already run still hold
  pc,            \* what each loop is at
  at,            \* the connection whose handler each loop is in
  todo,          \* recipients left in the broadcast each loop is making
  sending,       \* the recipient whose Send() each loop is inside
  made,          \* number of broadcasts and private lines made
  found,         \* where the private line of each loop is to go: line 140
  passed,        \* the same once Send() has read that it is connected
  crashed,       \* the process has died of using freed memory
  reg,           \* connections registered in the application's maps
  arrived,       \* number of peers that have connected
  data,          \* connections with bytes to read
  eof            \* connections that will read end-of-file after that

pool == <<nextId, next, loopOf, limit>>
life == <<connections, state, downed>>
poller == <<epoll, active>>
run == <<batch, done>>
control == <<pc, at>>
private == <<found, passed, crashed>>
app == <<todo, sending, made, found, passed, crashed>>
peer == <<arrived, data, eof>>
vars == <<pool, life, poller, queue, run, control, app, reg, peer>>

\* RunInLoop() from another thread, QueueInLoop().  A functor holds the
\* connection by a shared_ptr, except SendInLoop(), which is bound to "this".
\* The SendInLoop() of a private line has a name of its own, because the
\* properties tell it from that of a broadcast.
Sends == {"SendInLoop", "SendPrivate"}
Ops == Sends \cup {"ConnectionEstablished", "RemoveConnectionInLoop", "ConnectDestroyed"}

Functor(op, c) == [op |-> op, conn |-> c]
Put(l, f) == queue' = [queue EXCEPT ![l] = Append(@, f)]
HoldsConn(f) == f.op \notin Sends

\* Some shared_ptr to c exists.
Held(c) ==
  \/ c \in connections \cup reg
  \/ \E l \in Loops :
       \/ c = at[l]
       \/ c \in done[l]
       \/ \E i \in DOMAIN queue[l] : queue[l][i].conn = c /\ HoldsConn(queue[l][i])

\* Freed, and its descriptor closed by ~Socket().
Gone(c) == state[c] # "none" /\ ~Held(c)

Init ==
  /\ nextId = 1 /\ next = 1 /\ limit \in Limits
  /\ loopOf = [c \in Conns |-> NoLoop]
  /\ state = [c \in Conns |-> "none"] /\ connections = {} /\ downed = {}
  /\ epoll = [l \in Loops |-> {}] /\ active = [l \in Loops |-> {}]
  /\ queue = [l \in Loops |-> <<>>]
  /\ batch = [l \in Loops |-> 0] /\ done = [l \in Loops |-> {}]
  /\ pc = [l \in Loops |-> IF l = Base THEN "start" ELSE "poll"]
  /\ at = [l \in Loops |-> Nobody]
  /\ todo = [l \in Loops |-> {}] /\ sending = [l \in Loops |-> Nobody]
  /\ made = 0 /\ reg = {}
  /\ found = [l \in Loops |-> Nobody] /\ passed = [l \in Loops |-> Nobody]
  /\ crashed = FALSE
  /\ arrived = 0 /\ data = {} /\ eof = {}

Goto(l, from, to) == pc[l] = from /\ pc' = [pc EXCEPT ![l] = to]

\* The oldest functor of the batch of loop l, an op on c, is called.
Call(l, op, c) ==
  /\ pc[l] = "functors"
  /\ batch[l] > 0
  /\ Head(queue[l]) = Functor(op, c)
  /\ batch' = [batch EXCEPT ![l] = @ - 1]
  /\ done' = IF op \in Sends THEN done ELSE [done EXCEPT ![l] = @ \cup {c}]

Pop(l) == queue' = [queue EXCEPT ![l] = Tail(@)]

-----------------------------------------------------------------------------
(* The base loop.                                                          *)

\* TcpServer::Start() on the thread of the base loop, before Loop(): Listen()
\* is run at once and registers the accept channel.
Start ==
  /\ Goto(Base, "start", "poll")
  /\ epoll' = [epoll EXCEPT ![Base] = {Acceptor}]
  /\ UNCHANGED <<pool, life, active, queue, run, at, app, reg, peer>>

\* Wrong on purpose: the wrap-around comes one connection late.
NextLoopLate == IF next > Len(Pool) THEN 1 ELSE next + 1

\* get_next_loop(), lines 33-36.
NextLoop == IF next + 1 > Len(Pool) THEN 1 ELSE next + 1

NewConnection ==
  LET c == nextId
      l == Pool[next]
  IN
  /\ nextId' = nextId + 1
  /\ next' = NextLoop
  /\ loopOf' = [loopOf EXCEPT ![c] = l]
  /\ state' = [state EXCEPT ![c] = "kConnecting"]
  /\ connections' = connections \cup {c}
  /\ Put(l, Functor("ConnectionEstablished", c))

\* Wrong on purpose: the descriptors of closed connections are not given back.
AcceptLeaking == Cardinality({c \in Conns : state[c] # "none"}) < limit

\* accept4() finds a descriptor for the peer that has waited longest.
Accept == Cardinality({c \in Conns : state[c] # "none" /\ ~Gone(c)}) < limit

\* Acceptor::HandleRead().  EMFILE is logged and nothing else.
HandleAccept ==
  /\ pc[Base] = "dispatch"
  /\ Acceptor \in active[Base]
  /\ active' = [active EXCEPT ![Base] = @ \ {Acceptor}]
  /\ \/ Accept /\ NewConnection
     \/ ~Accept /\ UNCHANGED <<nextId, next, loopOf, connections, state, queue>>
  /\ UNCHANGED <<limit, downed, epoll, run, control, app, reg, peer>>

RemoveConnectionInLoop ==
  /\ \E c \in Conns :
       /\ Call(Base, "RemoveConnectionInLoop", c)
       /\ connections' = connections \ {c}
       /\ queue' = [queue EXCEPT ![Base] = Tail(@),
                      ![loopOf[c]] = Append(@, Functor("ConnectDestroyed", c))]
  /\ UNCHANGED <<pool, state, downed, poller, control, app, reg, peer>>

-----------------------------------------------------------------------------
(* A loop: epoll_wait, the handlers, a batch of functors.                  *)

\* What epoll_wait, level-triggered, would return if it were registered.
Ready == data \cup eof \cup (IF nextId <= arrived THEN {Acceptor} ELSE {})

Poll(l) ==
  /\ Goto(l, "poll", "dispatch")
  /\ active' = [active EXCEPT ![l] = epoll[l] \cap Ready]
  /\ active'[l] # {} \/ queue[l] # <<>>
  /\ UNCHANGED <<pool, life, epoll, queue, run, at, app, reg, peer>>

\* The loop takes c from the active channels: Channel::HandleEvent() locks
\* tie_, which keeps the connection alive until the handler returns.
HandleEvent(l, c) ==
  /\ Held(c)
  /\ active' = [active EXCEPT ![l] = @ \ {c}]
  /\ at' = [at EXCEPT ![l] = c]

\* HandleRead() finds a message.
HandleRead(l) ==
  /\ Goto(l, "dispatch", "body")
  /\ \E c \in active[l] \cap data : HandleEvent(l, c) /\ data' = data \ {c}
  /\ UNCHANGED <<pool, life, epoll, queue, run, app, reg, arrived, eof>>

\* Wrong on purpose: DisableAll() is missing.
NotDisabled(l, c) == epoll

\* DisableAll(), and Remove() if that was not called before.
Disabled(l, c) == [epoll EXCEPT ![l] = @ \ {c}]

\* HandleRead() finds end-of-file: HandleClose(), up to the callbacks.
HandleClose(l) ==
  /\ Goto(l, "dispatch", "down")
  /\ \E c \in (active[l] \cap eof) \ data :
       /\ HandleEvent(l, c)
       /\ state' = [state EXCEPT ![c] = "kDisconnected"]
       /\ epoll' = Disabled(l, c)
  /\ UNCHANGED <<pool, connections, downed, queue, run, app, reg, peer>>

\* map_mtx is held shared by a loop that is inside a broadcast, and not by
\* one that is inside a private line.
Broadcasting(l) == todo[l] # {} \/ sending[l] # Nobody
Busy(l) == Broadcasting(l) \/ found[l] # Nobody \/ passed[l] # Nobody

BodyDone(l) ==
  /\ Goto(l, "body", "dispatch")
  /\ ~Busy(l)
  /\ at' = [at EXCEPT ![l] = Nobody]
  /\ UNCHANGED <<pool, life, poller, queue, run, app, reg, peer>>

DispatchDone(l) ==
  /\ Goto(l, "dispatch", "functors")
  /\ active[l] = {}
  /\ batch' = [batch EXCEPT ![l] = Len(queue[l])]
  /\ UNCHANGED <<pool, life, poller, queue, done, at, app, reg, peer>>

\* The functors of the batch are destroyed, and what they hold with them.
BatchDone(l) ==
  /\ Goto(l, "functors", "poll")
  /\ batch[l] = 0
  /\ done' = [done EXCEPT ![l] = {}]
  /\ UNCHANGED <<pool, life, poller, queue, batch, at, app, reg, peer>>

-----------------------------------------------------------------------------
(* The functors of an io loop.                                             *)

ConnectionEstablished(l) ==
  /\ \E c \in Conns :
       /\ Call(l, "ConnectionEstablished", c)
       /\ state' = [state EXCEPT ![c] = "kConnected"]
       /\ epoll' = [epoll EXCEPT ![l] = @ \cup {c}]
  /\ Pop(l)
  /\ UNCHANGED <<pool, connections, downed, active, control, app, reg, peer>>

\* The connection is written to, or not; see Connection.tla.
SendInLoop(l) ==
  /\ \E op \in Sends, c \in Conns : Call(l, op, c)
  /\ Pop(l)
  /\ UNCHANGED <<pool, life, poller, control, app, reg, peer>>

\* HandleClose() has run, so state_ is kDisconnected and only Remove() is left.
ConnectDestroyed(l) ==
  /\ \E c \in Conns :
       /\ Call(l, "ConnectDestroyed", c)
       /\ epoll' = [epoll EXCEPT ![l] = @ \ {c}]
       /\ \/ /\ state[c] = "kConnected"
             /\ state' = [state EXCEPT ![c] = "kDisconnected"]
             /\ downed' = downed \cup {c}
          \/ state[c] # "kConnected" /\ UNCHANGED <<state, downed>>
  /\ Pop(l)
  /\ UNCHANGED <<pool, connections, active, control, app, reg, peer>>

-----------------------------------------------------------------------------
(* The application, in the callbacks of a connection.                      *)

\* Wrong on purpose: the maps are changed without waiting for a broadcast.
NoReaderAsked(l) == TRUE

NoReader(l) == \A k \in Loops \ {l} : ~Broadcasting(k)

\* UserLogin(): into the maps, or Shutdown().
Register(l) ==
  /\ pc[l] = "body"
  /\ ~Busy(l) /\ NoReader(l)
  /\ at[l] \notin reg
  /\ reg' = reg \cup {at[l]}
  /\ UNCHANGED <<pool, life, poller, queue, run, control, app, peer>>

Shutdown(l) ==
  /\ pc[l] = "body"
  /\ ~Busy(l)
  /\ state[at[l]] = "kConnected"
  /\ state' = [state EXCEPT ![at[l]] = "kDisconnected"]
  /\ eof' = eof \cup {at[l]}
  /\ UNCHANGED <<pool, connections, downed, poller, queue, run, control, app, reg,
                 arrived, data>>

\* Broadcast(): map_mtx is taken shared.
Broadcast(l) ==
  /\ pc[l] = "body"
  /\ ~Busy(l)
  /\ made < MaxSends
  /\ made' = made + 1
  /\ todo' = [todo EXCEPT ![l] = reg]
  /\ UNCHANGED <<pool, life, poller, queue, run, control, sending, private, reg, peer>>

\* The Send() of a broadcast: on the own loop nothing is queued.
SendCheck(l) ==
  /\ sending[l] = Nobody
  /\ \E c \in todo[l] :
       /\ todo' = [todo EXCEPT ![l] = @ \ {c}]
       /\ sending' = [sending EXCEPT ![l] =
            IF state[c] = "kConnected" /\ loopOf[c] # l THEN c ELSE Nobody]
  /\ UNCHANGED <<pool, life, poller, queue, run, control, made, private, reg, peer>>

SendQueue(l) ==
  /\ sending[l] # Nobody
  /\ Put(loopOf[sending[l]], Functor("SendInLoop", sending[l]))
  /\ sending' = [sending EXCEPT ![l] = Nobody]
  /\ UNCHANGED <<pool, life, poller, run, control, todo, made, private, reg, peer>>

\* SendPrivateMsg(), of a connection that has logged in: the addressee is
\* looked up without map_mtx and only its raw pointer is kept.  A name that
\* goes between lines 137 and 140 is in ChatRoom.tla.
PrivateFind(l) ==
  /\ pc[l] = "body" /\ at[l] \in reg
  /\ ~Busy(l)
  /\ made < MaxSends
  /\ made' = made + 1
  /\ \E c \in reg : found' = [found EXCEPT ![l] = c]
  /\ UNCHANGED <<pool, life, poller, queue, run, control, todo, sending, passed,
                 crashed, reg, peer>>

\* What a member of c is read as: any of all its values once c is freed and
\* the memory may be somebody else's, if the process survives that.
Read(c, value, all) == IF Gone(c) THEN all ELSE {value}

\* Its Send() up to the thread test.
PrivateCheck(l) ==
  /\ found[l] # Nobody
  /\ found' = [found EXCEPT ![l] = Nobody]
  /\ \E connected \in Read(found[l], state[found[l]] = "kConnected", BOOLEAN),
        k \in Read(found[l], loopOf[found[l]], IoLoops) :
       passed' = [passed EXCEPT ![l] = IF connected /\ k # l THEN found[l] ELSE Nobody]
  /\ UNCHANGED <<pool, life, poller, queue, run, control, todo, sending, made,
                 crashed, reg, peer>>

\* RunInLoop() of its SendInLoop(), which finds the loop through the pointer.
PrivateQueue(l) ==
  /\ passed[l] # Nobody
  /\ passed' = [passed EXCEPT ![l] = Nobody]
  /\ \E k \in Read(passed[l], loopOf[passed[l]], IoLoops) :
       IF k = l THEN UNCHANGED queue ELSE Put(k, Functor("SendPrivate", passed[l]))
  /\ UNCHANGED <<pool, life, poller, run, control, todo, sending, made, found,
                 crashed, reg, peer>>

\* What loop l is about to do reads a freed connection: at lines 101 and 105
\* of tcp_connection.cpp, or in SendInLoop().
UsesFreed(l) ==
  \E c \in Conns :
    /\ Gone(c)
    /\ \/ c \in {found[l], passed[l]}
       \/ pc[l] = "functors" /\ batch[l] > 0 /\ Head(queue[l]) = Functor("SendPrivate", c)

\* The other outcome of that.
UseAfterFree(l) ==
  /\ UsesFreed(l)
  /\ crashed' = TRUE
  /\ UNCHANGED <<pool, life, poller, queue, run, control, todo, sending, made, found,
                 passed, reg, peer>>

\* Wrong on purpose: UserExit() leaves the maps alone, or close_cb_ is not set.
StillRegistered(c) == reg
RemoveNothing(c) == UNCHANGED queue

Unregistered(c) == reg \ {c}
RemoveConnection(c) == Put(Base, Functor("RemoveConnectionInLoop", c))

\* HandleClose(), the callbacks: UserExit() under the exclusive lock, which
\* waits for broadcasts and not for private lines, then RemoveConnection().
Down(l) ==
  /\ Goto(l, "down", "dispatch")
  /\ NoReader(l)
  /\ reg' = Unregistered(at[l])
  /\ RemoveConnection(at[l])
  /\ downed' = downed \cup {at[l]}
  /\ at' = [at EXCEPT ![l] = Nobody]
  /\ UNCHANGED <<pool, connections, state, poller, run, app, peer>>

-----------------------------------------------------------------------------
(* The peers, which may connect, send and close before they are accepted.  *)
(* What one sends after a Shutdown(), which the server still reads, is in  *)
(* ChatRoom.tla.                                                           *)

server == <<pool, life, poller, queue, run, control, app, reg>>

PeerConnect ==
  /\ Acceptor \in epoll[Base]
  /\ arrived < MaxConns
  /\ arrived' = arrived + 1
  /\ UNCHANGED <<server, data, eof>>

PeerSend ==
  /\ \E c \in 1..arrived : c \notin data \cup eof /\ data' = data \cup {c}
  /\ UNCHANGED <<server, arrived, eof>>

PeerClose ==
  /\ \E c \in 1..arrived : c \notin eof /\ eof' = eof \cup {c}
  /\ UNCHANGED <<server, arrived, data>>

-----------------------------------------------------------------------------
\* What a loop does by itself.
LoopStep(l) ==
  \/ l = Base /\ (Start \/ HandleAccept \/ RemoveConnectionInLoop)
  \/ Poll(l) \/ HandleRead(l) \/ HandleClose(l)
  \/ SendCheck(l) \/ SendQueue(l) \/ PrivateCheck(l) \/ PrivateQueue(l)
  \/ UseAfterFree(l) \/ BodyDone(l) \/ Down(l)
  \/ DispatchDone(l) \/ BatchDone(l)
  \/ ConnectionEstablished(l) \/ SendInLoop(l) \/ ConnectDestroyed(l)

\* What a callback of the application may do.
AppStep(l) == Register(l) \/ Shutdown(l) \/ Broadcast(l) \/ PrivateFind(l)

\* Every connection has come and gone, and the loops wait; or the process
\* has died.
Terminated ==
  /\ \/ downed = Conns /\ \A l \in Loops : pc[l] = "poll" /\ queue[l] = <<>>
     \/ crashed
  /\ UNCHANGED vars

Next ==
  \/ /\ ~crashed
     /\ \/ \E l \in Loops : LoopStep(l) \/ AppStep(l)
        \/ PeerConnect \/ PeerSend \/ PeerClose
  \/ Terminated

SafeSpec == Init /\ [][Next]_vars

\* A loop goes on; nobody has to connect, to close or to send.
Spec == SafeSpec /\ \A l \in Loops : WF_vars(~crashed /\ LoopStep(l))

-----------------------------------------------------------------------------
(* Properties.                                                             *)

Pcs == {"start", "poll", "dispatch", "body", "down", "functors"}

\* Type invariant.
TypeOK ==
  /\ nextId \in 1..(MaxConns + 1) /\ next \in 1..Len(Pool) /\ limit \in Limits
  /\ loopOf \in [Conns -> IoLoops \cup {NoLoop}]
  /\ state \in [Conns -> {"none", "kConnecting", "kConnected", "kDisconnected"}]
  /\ connections \subseteq Conns /\ downed \subseteq Conns /\ reg \subseteq Conns
  /\ epoll \in [Loops -> SUBSET (Conns \cup {Acceptor})]
  /\ active \in [Loops -> SUBSET (Conns \cup {Acceptor})]
  /\ queue \in [Loops -> Seq([op : Ops, conn : Conns])]
  /\ batch \in [Loops -> Nat] /\ done \in [Loops -> SUBSET Conns]
  /\ pc \in [Loops -> Pcs] /\ at \in [Loops -> Conns \cup {Nobody}]
  /\ todo \in [Loops -> SUBSET Conns]
  /\ sending \in [Loops -> Conns \cup {Nobody}]
  /\ made \in 0..MaxSends
  /\ found \in [Loops -> Conns \cup {Nobody}] /\ passed \in [Loops -> Conns \cup {Nobody}]
  /\ crashed \in BOOLEAN
  /\ arrived \in 0..MaxConns /\ data \subseteq Conns /\ eof \subseteq Conns

\* Whatever a raw pointer leads to is alive: the connection that the
\* SendInLoop() of a broadcast is bound to, the ones a broadcast is about to
\* send to, the ones whose channel epoll or an active list has.  The pointer
\* of a private line is left out, in a Send() and in a functor: nothing
\* keeps its connection from being freed.
NoDangling ==
  \A l \in Loops :
    /\ \A i \in DOMAIN queue[l] :
         queue[l][i].op # "SendPrivate" => Held(queue[l][i].conn)
    /\ \A c \in (epoll[l] \cup active[l] \cup todo[l] \cup {sending[l]})
                 \ {Nobody, Acceptor} : Held(c)

\* ConnectDestroyed() is the last thing queued for a connection, the
\* SendInLoop() of a private line aside, and by then its channel is
\* registered nowhere and it is in no map.
DestroyedLast ==
  \A l \in Loops : \A i \in DOMAIN queue[l] :
    queue[l][i].op = "ConnectDestroyed" =>
      LET c == queue[l][i].conn IN
      /\ \A k \in Loops : \A j \in DOMAIN queue[k] :
           queue[k][j].conn = c /\ queue[k][j].op # "SendPrivate" => k = l /\ j <= i
      /\ c \notin connections \cup reg
      /\ \A k \in Loops : c \notin epoll[k] \cup active[k]

\* A process that has died gives back all that was down.
Phase ==
  [c \in Conns |->
     CASE state[c] = "none" -> "none"
       [] state[c] = "kConnecting" -> "opening"
       [] Gone(c) \/ (crashed /\ c \in downed) -> "gone"
       [] c \in downed /\ Held(c) /\ ~crashed -> "down"
       [] OTHER -> "up"]

Life == INSTANCE ConnLife
  WITH phase <- Phase,
       served <- {c \in Conns : \E l \in Loops : pc[l] = "body" /\ at[l] = c}

\* The life of every connection is that of ConnLife: up once, served only
\* while up, down once, given back after that, and given back in the end.
KeepsLife == Life!Spec

\* A connection that reads end-of-file goes down and is given back, unless a
\* private line crashes the process: neither its memory nor its descriptor
\* leaks.
EveryEndIsFreed == \A c \in Conns : c \in eof /\ c < nextId ~> Gone(c) \/ crashed

\* A peer that finds no descriptor left is accepted once the ones before it
\* have closed, though accept4() failed for it any number of times; again
\* unless a private line crashes the process.
AcceptedInTheEnd ==
  \A c \in Conns : c <= arrived /\ 1..(c - 1) \subseteq eof ~> c < nextId \/ crashed
=============================================================================
