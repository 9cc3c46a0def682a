------------------------------ MODULE Connection ------------------------------
(***************************************************************************)
(* One mtd::TcpConnection (server/src/tcp_connection.cpp) on its io loop:  *)
(* the dispatch of its channel's events, the output buffer, Send() from    *)
(* the loop's own thread and from others, Shutdown(), and the peer.        *)
(*                                                                         *)
(* The loop runs one callback or functor at a time; each is a step, and    *)
(* other threads and the peer come in between.  Send() from another thread *)
(* reads state_ in one step and queues the functor in another.             *)
(*                                                                         *)
(* External: epoll is level-triggered and the socket is a Linux TCP        *)
(* socket, where a hang-up always comes with EPOLLIN and a write after a   *)
(* reset raises SIGPIPE, which nothing in the repository ignores.          *)
(***************************************************************************)
EXTENDS Naturals, Sequences, SequencesExt, Channel

CONSTANTS
  Callers,       \* other threads that call Send()
  MsgLen,        \* bytes in a message
  Room,          \* bytes the kernel holds for a peer that does not read
  HighWater,     \* high_water_mark_
  MaxSends,      \* bound: calls of Send()
  MaxAsks        \* bound: requests of the peer

ASSUME SizeAssumption == {MsgLen, Room, HighWater} \subseteq Nat \ {0}
ASSUME BoundAssumption == MaxSends \in Nat /\ MaxAsks \in Nat

VARIABLES
  state,         \* state_
  ch,            \* *channel_, see Channel
  out,           \* what is readable in output_buf_
  rdshut,        \* the reading side of the socket was shut down
  pc,            \* what the loop is at
  revents,       \* the events of this dispatch still to be handled
  batch,         \* functors left in the batch being run
  queue,         \* functors queued on the loop for this connection
  call,          \* call[t]: the message whose Send() thread t is inside, or 0
  sends,         \* number of messages given to Send()
  removing,      \* RemoveConnectionInLoop() is queued on the base loop
  down,          \* the server was called back: the connection is down
  accepted,      \* the bytes of all messages SendInLoop() took on
  wire,          \* bytes written to the socket and not read by the peer
  soerr,         \* an error is pending on the socket
  killed,        \* SIGPIPE or the call of an empty function ended the process
  peer,          \* "open", "closed" (FIN) or "reset" (RST)
  received,      \* bytes the peer has read
  unread,        \* requests of the peer that were not read
  asks           \* number of requests the peer has made

conn == <<state, ch, out, rdshut>>
loop == <<pc, revents, batch>>
calls == <<call, sends>>
server == <<removing, down>>
sock == <<wire, soerr, killed>>
far == <<peer, received, unread, asks>>
vars == <<conn, loop, queue, calls, server, accepted, sock, far>>

\* Message i as bytes that no other message has.
Bytes(i) == [k \in 1..MsgLen |-> i * MsgLen + k]

Establish == [op |-> "ConnectionEstablished"]
Destroy == [op |-> "ConnectDestroyed"]
HighWaterCb == [op |-> "high_water_mark_cb_"]
SendFunctor(i) == [op |-> "SendInLoop", msg |-> i]

Functors == {Establish, Destroy, HighWaterCb} \cup
            [op : {"SendInLoop"}, msg : 1..MaxSends]

Init ==
  /\ state = "kConnecting" /\ ch = NewChannel /\ out = <<>> /\ rdshut = FALSE
  /\ pc = "poll" /\ revents = {} /\ batch = 0 /\ queue = <<Establish>>
  /\ call = [t \in Callers |-> 0] /\ sends = 0
  /\ removing = FALSE /\ down = FALSE /\ accepted = <<>>
  /\ wire = <<>> /\ soerr = FALSE /\ killed = FALSE
  /\ peer = "open" /\ received = <<>> /\ unread = 0 /\ asks = 0

-----------------------------------------------------------------------------
(* write() on the socket.                                                  *)

\* The first n bytes of data go out.
Written(data, n) ==
  /\ peer # "reset"
  /\ Len(wire) + n <= Room
  /\ wire' = wire \o SubSeq(data, 1, n)
  /\ UNCHANGED <<soerr, killed>>

WouldBlock == peer # "reset" /\ Len(wire) = Room /\ UNCHANGED sock

\* ECONNRESET, which takes the pending error.
WriteFails == peer = "reset" /\ soerr /\ soerr' = FALSE /\ UNCHANGED <<wire, killed>>

\* EPIPE, and the signal that comes with it.
BrokenPipe == peer = "reset" /\ killed' = TRUE /\ UNCHANGED <<wire, soerr>>

-----------------------------------------------------------------------------
(* Sending.                                                                *)

\* Wrong on purpose: the test of line 144 forgets what output_buf_ holds.
MayWriteNowAlways == TRUE

\* Line 144: nothing overtakes bytes that wait in output_buf_.
MayWriteNow == ~IsWriting(ch) /\ out = <<>>

\* Wrong on purpose: the channel is not told to wait for EPOLLOUT.
AskForNothing == ch

\* Lines 169-171: the channel is told to wait for EPOLLOUT.
AskForOut == IF IsWriting(ch) THEN ch ELSE EnableWriting(ch)

\* Lines 162-172: what is left goes to output_buf_.  q is the queue so far.
BufferRest(data, q) ==
  LET high == Len(out) + Len(data) >= HighWater /\ Len(out) < HighWater IN
  IF data = <<>> THEN UNCHANGED <<out, ch>> /\ queue' = q
  ELSE /\ queue' = IF high THEN Append(q, HighWaterCb) ELSE q
       /\ out' = out \o data
       /\ ch' = AskForOut

\* SendInLoop() of message i.
SendInLoop(i, q) ==
  LET data == Bytes(i)
      Drop == UNCHANGED <<out, ch>> /\ queue' = q
  IN
  IF state = "kDisconnected" THEN Drop /\ UNCHANGED <<sock, accepted>>
  ELSE
    /\ accepted' = accepted \o data
    /\ IF ~MayWriteNow THEN BufferRest(data, q) /\ UNCHANGED sock
       ELSE
         \/ \E n \in 1..MsgLen :
              Written(data, n) /\ BufferRest(SubSeq(data, n + 1, MsgLen), q)
         \/ WouldBlock /\ BufferRest(data, q)
         \/ (WriteFails \/ BrokenPipe) /\ Drop

\* Send() on another thread, line 101.
SendCheck(t) ==
  /\ call[t] = 0 /\ ~down /\ sends < MaxSends
  /\ state = "kConnected"
  /\ sends' = sends + 1
  /\ call' = [call EXCEPT ![t] = sends + 1]
  /\ UNCHANGED <<conn, loop, queue, server, accepted, sock, far>>

\* Line 105.
SendQueue(t) ==
  /\ call[t] # 0
  /\ queue' = Append(queue, SendFunctor(call[t]))
  /\ call' = [call EXCEPT ![t] = 0]
  /\ UNCHANGED <<conn, loop, sends, server, accepted, sock, far>>

-----------------------------------------------------------------------------
(* The loop.                                                               *)

\* What epoll_wait reports for the descriptor.
Ready ==
  IF ch.epoll = Absent THEN {}
  ELSE
    {e \in ch.epoll :
       \/ e = "IN" /\ (unread > 0 \/ peer # "open" \/ rdshut)
       \/ e = "OUT" /\ (Len(wire) < Room \/ peer = "reset")}
    \cup {e \in {"HUP"} : peer = "reset"}
    \cup {e \in {"ERR"} : soerr}

\* epoll_wait returns for this channel, or for the loop's wakeup descriptor.
Poll ==
  /\ pc = "poll"
  /\ Ready # {} \/ queue # <<>>
  /\ pc' = "dispatch"
  /\ revents' = Ready
  /\ UNCHANGED <<conn, batch, queue, calls, server, accepted, sock, far>>

\* HandleEventWithGuard() takes the events in this order.
Handling(e) ==
  /\ pc = "dispatch"
  /\ e \in revents
  /\ CASE e = "HUP" -> TRUE
       [] e = "ERR" -> "HUP" \notin revents
       [] e = "IN" -> revents \cap {"HUP", "ERR"} = {}
       [] e = "OUT" -> revents = {"OUT"}
  /\ revents' = revents \ {e}
  /\ UNCHANGED <<batch, calls, server, accepted>>

\* Wrong on purpose: state_ is left as it is.
HandleCloseQuiet == UNCHANGED state /\ ch' = DisableAll(ch) /\ pc' = "down"

\* HandleClose(), up to the callbacks.
HandleClose == state' = "kDisconnected" /\ ch' = DisableAll(ch) /\ pc' = "down"

HangUp ==
  /\ Handling("HUP")
  /\ IF "IN" \in revents THEN UNCHANGED <<state, ch, pc>> ELSE HandleClose
  /\ UNCHANGED <<out, rdshut, queue, sock, far>>

\* getsockopt takes the pending error.
HandleError == soerr' = FALSE /\ UNCHANGED <<conn, pc, queue, wire, killed, far>>

HandleErrorEvent == Handling("ERR") /\ HandleError

\* HandleRead(), n > 0: the message callback is called.
HandleRead ==
  /\ Handling("IN")
  /\ unread > 0
  /\ unread' = 0
  /\ pc' = "body"
  /\ UNCHANGED <<conn, queue, sock, peer, received, asks>>

\* Wrong on purpose: an end-of-file closes only while state_ is kConnected.
AtEndConnected == IF state = "kConnected" THEN HandleClose ELSE UNCHANGED <<state, ch, pc>>

\* Line 43: an end-of-file closes, whatever state_ is.
AtEnd == HandleClose

\* n = 0.
HandleReadEnd ==
  /\ Handling("IN")
  /\ unread = 0 /\ (peer # "open" \/ rdshut)
  /\ AtEnd
  /\ UNCHANGED <<out, rdshut, queue, sock, far>>

\* n < 0: the error is logged, and gone.
HandleReadError == Handling("IN") /\ unread = 0 /\ soerr /\ HandleError

\* Send() from the message callback.
SendNow ==
  /\ pc = "body" /\ sends < MaxSends
  /\ state = "kConnected"
  /\ sends' = sends + 1
  /\ SendInLoop(sends + 1, queue)
  /\ UNCHANGED <<state, rdshut, loop, call, server, far>>

\* It shuts down SHUT_RD, in spite of its name.
ShutdownWrite == rdshut' = TRUE

\* Nothing is shut down while output waits.
ShutdownInLoop(channel) ==
  IF IsWriting(channel) THEN UNCHANGED rdshut ELSE ShutdownWrite

\* Shutdown() from the message callback.
ShutdownNow ==
  /\ pc = "body"
  /\ state = "kConnected"
  /\ state' = "kDisconnected"
  /\ ShutdownInLoop(ch)
  /\ UNCHANGED <<ch, out, loop, queue, calls, server, accepted, sock, far>>

BodyDone ==
  /\ pc = "body"
  /\ pc' = "dispatch"
  /\ UNCHANGED <<conn, revents, batch, queue, calls, server, accepted, sock, far>>

\* HandleClose(), the callbacks.  The connection callback takes the user out
\* of the maps, after which no Send() begins; close_cb_ is
\* TcpServer::RemoveConnection().  A thread may be inside Send() meanwhile: one
\* that sends a private line, for which nobody waits.  What it queues is run,
\* if need be behind ConnectDestroyed(), and drops the message, provided the
\* connection is still there (TcpServer.tla).
Down ==
  /\ pc = "down"
  /\ down' = TRUE
  /\ removing' = TRUE
  /\ pc' = "dispatch"
  /\ UNCHANGED <<conn, revents, batch, queue, calls, accepted, sock, far>>

\* Buffer::Retrive(n) on output_buf_.
Retrive(n) == SubSeq(out, n + 1, Len(out))

\* Wrong on purpose: EPOLLOUT is given up after the first write.
WaitForNothing(left) == DisableWriting(ch)

\* Lines 57-58: the channel, with this left in output_buf_.
WaitForRest(left) == IF left = <<>> THEN DisableWriting(ch) ELSE ch

\* Lines 54-64.  Nothing sets kDisconnecting, so the shutdown that waited for
\* the output never comes.
WriteOut ==
  \E n \in 1..Len(out) :
    /\ Written(out, n)
    /\ out' = Retrive(n)
    /\ ch' = WaitForRest(out')
    /\ IF out' = <<>> /\ state = "kDisconnecting"
         THEN ShutdownInLoop(ch') ELSE UNCHANGED rdshut

HandleWrite ==
  /\ Handling("OUT")
  /\ IF ~IsWriting(ch) THEN UNCHANGED <<out, ch, rdshut, sock>>
     ELSE \/ WriteOut
          \/ (WouldBlock \/ WriteFails \/ BrokenPipe) /\ UNCHANGED <<out, ch, rdshut>>
  /\ UNCHANGED <<state, pc, queue, far>>

DispatchDone ==
  /\ pc = "dispatch" /\ revents = {}
  /\ pc' = "functors"
  /\ batch' = Len(queue)
  /\ UNCHANGED <<conn, revents, queue, calls, server, accepted, sock, far>>

-----------------------------------------------------------------------------
(* DoPendingFunctors(): the functors of this connection, see LoopQueue.    *)

\* The oldest functor of the batch is called.
Run(op) ==
  /\ pc = "functors" /\ batch > 0
  /\ Head(queue).op = op
  /\ batch' = batch - 1
  /\ UNCHANGED <<pc, revents, rdshut, calls, removing, far>>

ConnectionEstablished ==
  /\ Run("ConnectionEstablished")
  /\ queue' = Tail(queue)
  /\ state' = "kConnected"
  /\ ch' = EnableReading(ch)
  /\ UNCHANGED <<out, down, accepted, sock>>

RunSend ==
  /\ Run("SendInLoop")
  /\ SendInLoop(Head(queue).msg, Tail(queue))
  /\ UNCHANGED <<state, down>>

\* The server never sets high_water_mark_cb_: calling it throws, and nothing
\* catches that.
RunHighWater ==
  /\ Run("high_water_mark_cb_")
  /\ queue' = Tail(queue)
  /\ killed' = TRUE
  /\ UNCHANGED <<state, ch, out, down, accepted, wire, soerr>>

\* ConnectDestroyed(): the branch for kConnected is never taken, HandleClose()
\* has run.
ConnectDestroyed ==
  /\ Run("ConnectDestroyed")
  /\ queue' = Tail(queue)
  /\ IF state = "kConnected"
       THEN state' = "kDisconnected" /\ ch' = RemoveChannel(DisableAll(ch)) /\ down' = TRUE
       ELSE ch' = RemoveChannel(ch) /\ UNCHANGED <<state, down>>
  /\ UNCHANGED <<out, accepted, sock>>

\* The batch ends; what was queued meanwhile is left for the next.
FunctorsDone ==
  /\ pc = "functors" /\ batch = 0
  /\ pc' = "poll"
  /\ UNCHANGED <<conn, revents, batch, queue, calls, server, accepted, sock, far>>

\* TcpServer::RemoveConnectionInLoop() on the base loop.
RemoveConnectionInLoop ==
  /\ removing
  /\ removing' = FALSE
  /\ queue' = Append(queue, Destroy)
  /\ UNCHANGED <<conn, loop, calls, down, accepted, sock, far>>

-----------------------------------------------------------------------------
(* The peer.                                                               *)

PeerRead ==
  /\ peer = "open" /\ wire # <<>>
  /\ received' = Append(received, Head(wire))
  /\ wire' = Tail(wire)
  /\ UNCHANGED <<conn, loop, queue, calls, server, accepted, soerr, killed, peer, unread, asks>>

PeerAsk ==
  /\ peer = "open" /\ asks < MaxAsks
  /\ asks' = asks + 1
  /\ unread' = unread + 1
  /\ UNCHANGED <<conn, loop, queue, calls, server, accepted, sock, peer, received>>

PeerClose ==
  /\ peer = "open"
  /\ peer' = "closed"
  /\ UNCHANGED <<conn, loop, queue, calls, server, accepted, sock, received, unread, asks>>

\* A socket closed with bytes unread, or written to after that, or a peer
\* that has died.
PeerReset ==
  /\ peer # "reset"
  /\ peer' = "reset" /\ soerr' = TRUE /\ wire' = <<>>
  /\ UNCHANGED <<conn, loop, queue, calls, server, accepted, killed, received, unread, asks>>

-----------------------------------------------------------------------------
LoopStep ==
  /\ ~killed
  /\ \/ Poll \/ HangUp \/ HandleErrorEvent
     \/ HandleRead \/ HandleReadEnd \/ HandleReadError \/ BodyDone
     \/ Down \/ HandleWrite \/ DispatchDone
     \/ ConnectionEstablished \/ RunSend \/ RunHighWater \/ ConnectDestroyed
     \/ FunctorsDone

\* What the message callback may do, and need not.
BodyStep == ~killed /\ (SendNow \/ ShutdownNow)

CallerStep(t) == ~killed /\ SendQueue(t)

PeerStep == ~killed /\ (PeerRead \/ PeerAsk \/ PeerClose \/ PeerReset)

\* The connection is over, for good.
Over == down /\ ~ch.mapped /\ ~removing /\ queue = <<>>

Terminated == (killed \/ Over) /\ UNCHANGED vars

Next ==
  \/ LoopStep
  \/ BodyStep
  \/ ~killed /\ RemoveConnectionInLoop
  \/ \E t \in Callers : (~killed /\ SendCheck(t)) \/ CallerStep(t)
  \/ PeerStep
  \/ Terminated

SafeSpec == Init /\ [][Next]_vars

\* Threads that have something to do go on doing it, and the client's
\* receiving thread goes on reading.
Fairness ==
  /\ WF_vars(LoopStep)
  /\ WF_vars(~killed /\ RemoveConnectionInLoop)
  /\ \A t \in Callers : WF_vars(CallerStep(t))
  /\ WF_vars(~killed /\ PeerRead)

Spec == SafeSpec /\ Fairness

-----------------------------------------------------------------------------
(* Properties.                                                             *)

\* Type invariant; and whoever is called back finds state_ kDisconnected.
TypeOK ==
  /\ state \in {"kConnecting", "kConnected", "kDisconnecting", "kDisconnected"}
  /\ ch \in Channels /\ out \in Seq(Nat) /\ rdshut \in BOOLEAN
  /\ pc \in {"poll", "dispatch", "body", "down", "functors"}
  /\ pc = "down" => state = "kDisconnected"
  /\ revents \in SUBSET {"IN", "OUT", "HUP", "ERR"}
  /\ queue \in Seq(Functors) /\ batch \in 0..Len(queue)
  /\ call \in [Callers -> 0..MaxSends] /\ sends \in 0..MaxSends
  /\ removing \in BOOLEAN /\ down \in BOOLEAN /\ accepted \in Seq(Nat)
  /\ wire \in Seq(Nat) /\ soerr \in BOOLEAN /\ killed \in BOOLEAN
  /\ peer \in {"open", "closed", "reset"}
  /\ received \in Seq(Nat) /\ unread \in Nat /\ asks \in Nat

\* The bytes of the messages taken on are with the peer, in the kernel or in
\* output_buf_, each once and in the order in which they were taken on,
\* whatever the short writes, until the peer resets the connection; and then
\* the peer has read a prefix of them.
StreamExact ==
  /\ peer # "reset" => received \o wire \o out = accepted
  /\ IsPrefix(received, accepted)

\* While the connection is up the channel waits for EPOLLOUT exactly when
\* output is waiting: nothing is left lying, and the loop does not spin.
WritingIffPending == ~down /\ pc # "down" => (IsWriting(ch) <=> out # <<>>)

\* epoll knows of the channel what the channel says, and no call of epoll_ctl
\* ends the process; a channel that was removed is not registered.
RegistrationExact ==
  /\ ~ch.fatal
  /\ ch.epoll = IF ch.events = kNoneEvent THEN Absent ELSE ch.events
  /\ ch.index = "kNew" => ch.epoll = Absent /\ ~ch.mapped

\* What waits in output_buf_ goes out as long as the peer reads, or the
\* connection ends.
OutputFlows ==
  \A k \in 1..(MaxSends * MsgLen) :
    Len(accepted) >= k ~> Len(received) >= k \/ down \/ killed

\* A peer that has closed or reset, and a Shutdown() that found no output
\* waiting, end the connection, and its channel is removed.
EndsForGood == peer # "open" \/ rdshut ~> Over \/ killed
=============================================================================
