--------------------------- MODULE ConnectionProofs ---------------------------
(***************************************************************************)
(* Theorems about Connection.tla, for every number of threads, sizes of    *)
(* messages, of what the kernel holds and of the high water mark.          *)
(***************************************************************************)
EXTENDS Connection, SequenceTheorems, TLAPS

\* The one-line operators are expanded throughout.
USE DEF AtEnd, Retrive

\* The channel of a connection that reads, of one that has been closed, and
\* of one that was removed.
ReadsIn(c) ==
  /\ "IN" \in c.events /\ c.epoll = c.events
  /\ c.index = "kAdded" /\ c.mapped /\ ~c.fatal
Quiet(c) ==
  /\ c.events = kNoneEvent /\ c.epoll = Absent
  /\ c.index = "kDeleted" /\ c.mapped /\ ~c.fatal
Removed(c) ==
  /\ c.events = kNoneEvent /\ c.epoll = Absent
  /\ c.index = "kNew" /\ ~c.mapped /\ ~c.fatal

\* The connection waits for the functor that establishes it, and nothing else
\* can happen to it.
Fresh ==
  /\ state = "kConnecting"
  /\ ch = NewChannel /\ out = <<>> /\ queue = <<Establish>>
  /\ revents = {} /\ pc \in {"poll", "dispatch", "functors"}
  /\ call = [t \in Callers |-> 0] /\ ~down /\ ~removing

\* The connection is read from, even after Shutdown().
Open ==
  /\ state \in {"kConnected", "kDisconnected"}
  /\ ReadsIn(ch)
  /\ IsWriting(ch) <=> out # <<>>
  /\ pc # "down" /\ ~down /\ ~removing
  /\ pc = "body" => revents \subseteq {"OUT"}
  /\ "HUP" \in revents => "IN" \in revents

\* HandleClose() has run: no event of this dispatch can reach the handlers
\* again, and the callbacks are due, or done.
Closed ==
  /\ state = "kDisconnected"
  /\ Quiet(ch) \/ Removed(ch)
  /\ pc # "body" /\ revents \subseteq {"ERR", "OUT"}
  /\ down <=> pc # "down"
  /\ removing => down

\* The functors of the queue: the first one only while the connection is
\* fresh, the last one only after the callbacks.
QueueInv ==
  \A i \in 1..Len(queue) :
    /\ queue[i].op = "ConnectionEstablished" => Fresh
    /\ queue[i].op = "ConnectDestroyed" => Closed /\ down

\* One of the three, with the queue that fits.
PhaseInv == (Fresh \/ Open \/ Closed) /\ QueueInv

\* The invariant of the connection.
ConnInv == TypeOK /\ PhaseInv /\ StreamExact

-----------------------------------------------------------------------------
(* What the operators on channels do to one that is in a certain state.    *)

\* The first EnableReading() registers a new channel.
LEMMA EnableReadingNew == ReadsIn(EnableReading(NewChannel)) /\ ~IsWriting(EnableReading(NewChannel))
BY DEF ReadsIn, EnableReading, NewChannel, UpdateChannel, EpollAdd, IsWriting,
       kReadEvent, kNoneEvent, Absent

\* A channel that is read is waited for, or not, by a MOD.
LEMMA ReadsInKept ==
  ASSUME NEW c \in Channels, ReadsIn(c)
  PROVE  /\ EnableWriting(c) \in Channels /\ DisableWriting(c) \in Channels
         /\ ReadsIn(EnableWriting(c)) /\ IsWriting(EnableWriting(c))
         /\ ReadsIn(DisableWriting(c)) /\ ~IsWriting(DisableWriting(c))
BY DEF Channels, ReadsIn, EnableWriting, DisableWriting, UpdateChannel, EpollMod,
       IsWriting, kWriteEvent, kNoneEvent, Absent

\* DisableAll() takes a channel that is read off, once.
LEMMA DisableAllQuiets ==
  ASSUME NEW c \in Channels, ReadsIn(c)
  PROVE  DisableAll(c) \in Channels /\ Quiet(DisableAll(c))
BY DEF Channels, ReadsIn, Quiet, DisableAll, UpdateChannel, NoInterest, EpollDel,
       kNoneEvent, Absent

\* RemoveChannel() forgets one that was taken off.
LEMMA RemoveChannelRemoves ==
  ASSUME NEW c \in Channels, Quiet(c) \/ Removed(c)
  PROVE  RemoveChannel(c) \in Channels /\ Removed(RemoveChannel(c))
BY DEF Channels, Quiet, Removed, RemoveChannel, EpollDel, kNoneEvent, Absent

-----------------------------------------------------------------------------
(* Sending.                                                                *)

\* The bytes of a message.
LEMMA BytesType ==
  ASSUME NEW i \in Nat
  PROVE  Bytes(i) \in Seq(Nat) /\ Len(Bytes(i)) = MsgLen
<1>1. i * MsgLen \in Nat /\ MsgLen \in Nat
  BY SizeAssumption
<1>2. \A k \in 1..MsgLen : i * MsgLen + k \in Nat
  BY <1>1
<1>3. Bytes(i) \in [1..MsgLen -> Nat]
  BY <1>2 DEF Bytes
<1>4. Bytes(i) \in Seq(Nat)
  BY <1>1, <1>3, SeqDef
<1> QED
  BY <1>1, <1>3, <1>4, LenProperties

\* Both parts of a message, or of what waits, are sequences of bytes that
\* together are the whole.
LEMMA SplitBytes ==
  ASSUME NEW data \in Seq(Nat), NEW n \in 1..Len(data)
  PROVE  /\ SubSeq(data, 1, n) \in Seq(Nat)
         /\ SubSeq(data, n + 1, Len(data)) \in Seq(Nat)
         /\ SubSeq(data, 1, n) \o SubSeq(data, n + 1, Len(data)) = data
<1>1. Len(data) \in Nat /\ \A i \in 1..Len(data) : data[i] \in Nat
  BY LenProperties, ElementOfSeq
<1>2. SubSeq(data, 1, n) \in Seq(Nat) /\ SubSeq(data, n + 1, Len(data)) \in Seq(Nat)
  BY <1>1, SubSeqProperties
<1>3. 1 \in 1..(Len(data) + 1) /\ n \in (1 - 1)..Len(data) /\ Len(data) \in n..Len(data)
  BY <1>1
<1>4. SubSeq(data, 1, n) \o SubSeq(data, n + 1, Len(data)) = SubSeq(data, 1, Len(data))
  BY <1>3, ConcatAdjacentSubSeq
<1> QED
  BY <1>2, <1>4, SubSeqFull

\* What is left of a message is kept, and waited for.
LEMMA BufferRestKeeps ==
  ASSUME TypeOK, ReadsIn(ch), IsWriting(ch) <=> out # <<>>,
         NEW data \in Seq(Nat), NEW q, BufferRest(data, q)
  PROVE  /\ out' \in Seq(Nat) /\ out' = out \o data
         /\ queue' \in {q, Append(q, HighWaterCb)}
         /\ ch' \in Channels /\ ReadsIn(ch')
         /\ IsWriting(ch') <=> out' # <<>>
<1>1. out \in Seq(Nat) /\ ch \in Channels
  BY DEF TypeOK
<1>2. CASE data = <<>>
  BY <1>1, <1>2, ConcatEmptySeq DEF BufferRest
<1>3. CASE data # <<>>
  <2>1. out' = out \o data /\ ch' = AskForOut /\ queue' \in {q, Append(q, HighWaterCb)}
    BY <1>3 DEF BufferRest
  <2>2. out' \in Seq(Nat) /\ out' # <<>>
    BY <1>1, <1>3, <2>1, ConcatProperties, ConcatEqualIffEmpty
  <2>3. ch' \in Channels /\ ReadsIn(ch') /\ IsWriting(ch')
    BY <1>1, <2>1, ReadsInKept DEF AskForOut
  <2> QED
    BY <2>1, <2>2, <2>3
<1> QED
  BY <1>2, <1>3

\* Sequences of bytes are put together in whatever order.
LEMMA Associates ==
  \A s, t, u \in Seq(Nat) : (s \o t) \o u = s \o (t \o u)
BY ConcatAssociative

\* A sequence begins what it is put before.
LEMMA PrefixOfConcat ==
  ASSUME NEW s \in Seq(Nat), NEW t \in Seq(Nat)
  PROVE  IsPrefix(s, s \o t)
<1>1. Len(s) \in Nat /\ Len(s) <= Len(s \o t)
  BY ConcatProperties, LenProperties
<1>2. CASE s = <<>>
  <2>1. Len(s) = 0 /\ SubSeq(s, 1, 0) = <<>> /\ SubSeq(s \o t, 1, 0) = <<>>
    BY <1>2, EmptySeq, SubSeqEmpty
  <2> QED
    BY <1>1, <2>1 DEF IsPrefix
<1>3. CASE s # <<>>
  <2>1. Len(s) \in 1..Len(s) /\ 1 \in 1..Len(s)
    BY <1>3, EmptySeq
  <2>2. SubSeq(s \o t, 1, Len(s)) = SubSeq(s, 1, Len(s))
    BY <2>1, SubSeqOfConcat1
  <2> QED
    BY <1>1, <2>2 DEF IsPrefix
<1> QED
  BY <1>2, <1>3

\* A beginning stays one when more is put behind.
LEMMA PrefixExtends ==
  ASSUME NEW s \in Seq(Nat), NEW t \in Seq(Nat), NEW u \in Seq(Nat), IsPrefix(s, t)
  PROVE  IsPrefix(s, t \o u)
<1>1. Len(s) \in Nat /\ Len(t) \in Nat /\ Len(s) <= Len(t) /\ Len(t) <= Len(t \o u)
  BY ConcatProperties, LenProperties DEF IsPrefix
<1>2. SubSeq(t \o u, 1, Len(s)) = SubSeq(t, 1, Len(s))
  <2>1. CASE Len(s) = 0
    <3>1. SubSeq(t \o u, 1, 0) = <<>> /\ SubSeq(t, 1, 0) = <<>>
      BY SubSeqEmpty
    <3> QED
      BY <2>1, <3>1
  <2>2. CASE Len(s) # 0
    <3>1. Len(s) \in 1..Len(t) /\ 1 \in 1..Len(t)
      BY <1>1, <2>2
    <3> QED
      BY <3>1, SubSeqOfConcat1
  <2> QED
    BY <2>1, <2>2
<1> QED
  BY <1>1, <1>2 DEF IsPrefix

\* What SendInLoop() does to the queue q so far, the channel and the stream, in
\* every one of its outcomes.
LEMMA SendInLoopKeeps ==
  ASSUME TypeOK, StreamExact, Open \/ Closed,
         NEW i \in Nat, NEW q, SendInLoop(i, q),
         UNCHANGED <<state, received, peer>>
  PROVE  /\ out' \in Seq(Nat) /\ wire' \in Seq(Nat) /\ accepted' \in Seq(Nat)
         /\ soerr' \in BOOLEAN /\ killed' \in BOOLEAN
         /\ queue' \in {q, Append(q, HighWaterCb)}
         /\ ch' \in Channels
         /\ Open => ReadsIn(ch') /\ (IsWriting(ch') <=> out' # <<>>)
         /\ Closed => UNCHANGED <<ch, out>>
         /\ StreamExact'
<1> DEFINE data == Bytes(i)
<1>1. /\ out \in Seq(Nat) /\ wire \in Seq(Nat) /\ accepted \in Seq(Nat)
      /\ received \in Seq(Nat) /\ soerr \in BOOLEAN /\ killed \in BOOLEAN
      /\ ch \in Channels
  BY DEF TypeOK
<1>2. data \in Seq(Nat) /\ Len(data) = MsgLen
  BY BytesType
<1> HIDE DEF data
<1>3. CASE state = "kDisconnected"
  BY <1>1, <1>3 DEF SendInLoop, Open, Closed, StreamExact, sock
<1>4. CASE state # "kDisconnected"
  <2>1. Open /\ ReadsIn(ch) /\ (IsWriting(ch) <=> out # <<>>) /\ ~Closed
    BY <1>4 DEF Open, Closed
  <2>2. accepted' = accepted \o data /\ accepted' \in Seq(Nat)
    BY <1>1, <1>2, <1>4, ConcatProperties DEF SendInLoop, data
  <2>3. IsPrefix(received', accepted')
    BY <1>1, <1>2, <2>2, PrefixExtends DEF StreamExact
  <2>4. ASSUME ~MayWriteNow, BufferRest(data, q), UNCHANGED sock
        PROVE  /\ wire' \in Seq(Nat) /\ soerr' \in BOOLEAN /\ killed' \in BOOLEAN
               /\ BufferRest(data, q) /\ out' = out \o data
               /\ peer # "reset" => received' \o wire' \o out' = accepted'
    <3>1. out' = out \o data /\ wire' = wire
      BY <1>1, <1>2, <2>1, <2>4, BufferRestKeeps DEF sock
    <3>2. (received \o wire) \o (out \o data) = ((received \o wire) \o out) \o data
      <4>1. received \o wire \in Seq(Nat)
        BY <1>1, ConcatProperties
      <4>2. out \in Seq(Nat) /\ data \in Seq(Nat)
        BY <1>1, <1>2
      <4> QED
        BY <4>1, <4>2, Associates
    <3> QED
      BY <1>1, <2>2, <2>4, <3>1, <3>2 DEF sock, StreamExact
  <2>5. ASSUME NEW n \in 1..MsgLen, out = <<>>,
               Written(data, n), BufferRest(SubSeq(data, n + 1, MsgLen), q)
        PROVE  /\ wire' \in Seq(Nat) /\ soerr' \in BOOLEAN /\ killed' \in BOOLEAN
               /\ SubSeq(data, n + 1, MsgLen) \in Seq(Nat)
               /\ peer # "reset" => received' \o wire' \o out' = accepted'
    <3> DEFINE front == SubSeq(data, 1, n)
               rest == SubSeq(data, n + 1, MsgLen)
    <3>1. front \in Seq(Nat) /\ rest \in Seq(Nat) /\ front \o rest = data
      BY <1>2, SplitBytes
    <3>2. wire' = wire \o front /\ UNCHANGED <<soerr, killed>>
      BY <2>5 DEF Written
    <3> HIDE DEF front, rest
    <3>3. out' = rest
      <4>1. out' = out \o rest
        BY <2>1, <2>5, <3>1, BufferRestKeeps DEF rest
      <4> QED
        BY <2>5, <3>1, <4>1, ConcatEmptySeq
    <3>4. (received \o (wire \o front)) \o rest = (received \o wire) \o data
      <4>1. /\ received \o (wire \o front) = (received \o wire) \o front
            /\ received \o wire \in Seq(Nat)
        BY <1>1, <3>1, Associates, ConcatProperties
      <4>2. ((received \o wire) \o front) \o rest = (received \o wire) \o (front \o rest)
        BY <3>1, <4>1, Associates
      <4> QED
        BY <3>1, <4>1, <4>2
    <3>5. peer # "reset" => accepted = received \o wire
      BY <1>1, <2>5, ConcatProperties, ConcatEmptySeq DEF StreamExact
    <3> QED
      BY <1>1, <2>2, <3>1, <3>2, <3>3, <3>4, <3>5, ConcatProperties DEF rest
  <2>6. CASE ~MayWriteNow /\ BufferRest(data, q) /\ UNCHANGED sock
    BY <1>2, <2>1, <2>2, <2>3, <2>4, <2>6, BufferRestKeeps DEF StreamExact
  <2>7. CASE MayWriteNow /\ \E n \in 1..MsgLen :
               Written(data, n) /\ BufferRest(SubSeq(data, n + 1, MsgLen), q)
    <3>1. PICK n \in 1..MsgLen :
                 Written(data, n) /\ BufferRest(SubSeq(data, n + 1, MsgLen), q)
      BY <2>7
    <3>2. SubSeq(data, n + 1, MsgLen) \in Seq(Nat)
      BY <2>5, <2>7, <3>1 DEF MayWriteNow
    <3>3. /\ out' \in Seq(Nat) /\ queue' \in {q, Append(q, HighWaterCb)}
          /\ ch' \in Channels /\ ReadsIn(ch') /\ (IsWriting(ch') <=> out' # <<>>)
      BY <2>1, <3>1, <3>2, BufferRestKeeps
    <3> QED
      BY <2>1, <2>2, <2>3, <2>5, <2>7, <3>1, <3>3 DEF StreamExact, MayWriteNow
  <2>8. CASE MayWriteNow /\ WouldBlock /\ BufferRest(data, q)
    <3>1. out' = data /\ out' = out \o data
      BY <1>1, <1>2, <2>1, <2>8, BufferRestKeeps, ConcatEmptySeq DEF MayWriteNow
    <3>2. peer # "reset" => received \o wire = accepted
      BY <1>1, <2>8, ConcatProperties, ConcatEmptySeq DEF StreamExact, MayWriteNow
    <3>3. peer # "reset" => received' \o wire' \o out' = accepted'
      BY <2>2, <2>8, <3>1, <3>2 DEF WouldBlock, sock
    <3> QED
      BY <1>1, <1>2, <2>1, <2>2, <2>3, <2>8, <3>3, BufferRestKeeps
         DEF StreamExact, WouldBlock, sock
  <2>9. CASE (WriteFails \/ BrokenPipe) /\ UNCHANGED <<out, ch>> /\ queue' = q
    <3>1. peer = "reset" /\ wire' = wire /\ soerr' \in BOOLEAN /\ killed' \in BOOLEAN
      BY <1>1, <2>9 DEF WriteFails, BrokenPipe
    <3> QED
      BY <1>1, <2>1, <2>2, <2>3, <2>9, <3>1 DEF StreamExact
  <2> QED
    BY <1>4, <2>6, <2>7, <2>8, <2>9 DEF SendInLoop, data
<1> QED
  BY <1>3, <1>4

-----------------------------------------------------------------------------
(* The queue.                                                              *)

\* The functors that are queued.
LEMMA QueueTypes ==
  ASSUME TypeOK, queue # <<>>
  PROVE  /\ Head(queue) = queue[1] /\ 1 \in 1..Len(queue)
         /\ Head(queue) \in Functors
         /\ Tail(queue) \in Seq(Functors) /\ Len(Tail(queue)) = Len(queue) - 1
         /\ \A i \in 1..Len(Tail(queue)) : Tail(queue)[i] = queue[i + 1] /\ i + 1 \in 1..Len(queue)
<1>1. queue \in Seq(Functors) /\ Len(queue) \in Nat \ {0}
  BY EmptySeq DEF TypeOK
<1>2. Head(queue) = queue[1] /\ 1 \in 1..Len(queue)
  BY <1>1
<1> QED
  BY <1>1, <1>2, HeadTailProperties

\* What is queued behind stays what it was when a functor is queued.
LEMMA QueueGrows ==
  ASSUME NEW q \in Seq(Functors), NEW f \in Functors
  PROVE  /\ Append(q, f) \in Seq(Functors) /\ Len(Append(q, f)) = Len(q) + 1
         /\ \A i \in 1..Len(Append(q, f)) :
              IF i = Len(q) + 1 THEN Append(q, f)[i] = f
              ELSE i \in 1..Len(q) /\ Append(q, f)[i] = q[i]
<1>1. Len(q) \in Nat
  BY LenProperties
<1> QED
  BY <1>1, AppendProperties

\* A step keeps what the queue says as long as it does not leave the phases of
\* the functors that stay, and queues ConnectDestroyed() only after the
\* callbacks.
LEMMA QueueKeeps ==
  ASSUME QueueInv, Fresh => Fresh', Closed /\ down => (Closed /\ down)',
         \A i \in 1..Len(queue') :
           \/ \E j \in 1..Len(queue) : queue'[i] = queue[j]
           \/ queue'[i].op \notin {"ConnectionEstablished", "ConnectDestroyed"}
           \/ queue'[i].op # "ConnectionEstablished" /\ (Closed /\ down)'
  PROVE  QueueInv'
BY DEF QueueInv

\* The same for a step that leaves the queue alone.
LEMMA PhaseKeeps ==
  ASSUME PhaseInv, UNCHANGED queue,
         Fresh => Fresh', Open => Open' \/ Closed', Closed => Closed' /\ (down => down')
  PROVE  PhaseInv'
<1>1. QueueInv'
  BY QueueKeeps DEF PhaseInv
<1> QED
  BY <1>1 DEF PhaseInv

-----------------------------------------------------------------------------
(* The steps.                                                              *)

\* The invariant holds when the connection is made.
LEMMA ConnInit == Init => ConnInv
<1> SUFFICES ASSUME Init PROVE ConnInv
  OBVIOUS
<1>1. <<>> \in Seq(Nat) /\ Len(<<>>) = 0 /\ Establish \in Functors /\ NewChannel \in Channels
  BY EmptySeq DEF Functors, NewChannel, Channels, kNoneEvent, Absent
<1>2. queue \in Seq(Functors) /\ Len(queue) = 1 /\ queue[1] = Establish
  BY <1>1 DEF Init
<1>3. TypeOK
  <2>1. 0 \in 0..MaxSends /\ call \in [Callers -> 0..MaxSends]
    BY BoundAssumption DEF Init
  <2>2. batch \in 0..Len(queue)
    BY <1>2 DEF Init
  <2> QED
    BY <1>1, <1>2, <2>1, <2>2 DEF Init, TypeOK
<1>4. Fresh /\ PhaseInv
  BY <1>2 DEF Init, Fresh, PhaseInv, QueueInv, Establish
<1>5. StreamExact
  <2>1. <<>> \o <<>> = <<>>
    BY EmptySeq, ConcatEmptySeq
  <2> QED
    BY <1>1, <2>1, PrefixOfConcat DEF Init, StreamExact
<1> QED
  BY <1>3, <1>4, <1>5 DEF ConnInv

\* HandleClose() of a connection that is read takes it to Closed.
LEMMA HandleCloseCloses ==
  ASSUME TypeOK, Open, HandleClose, revents' \subseteq {"ERR", "OUT"}, UNCHANGED server
  PROVE  Closed' /\ ch' \in Channels /\ pc' = "down"
<1>1. ch' \in Channels /\ Quiet(ch')
  BY DisableAllQuiets DEF TypeOK, Open, HandleClose
<1> QED
  BY <1>1 DEF Open, Closed, HandleClose, server

\* A write that took n bytes of what waits.
LEMMA WriteOutKeeps ==
  ASSUME TypeOK, Open, StreamExact, IsWriting(ch), WriteOut,
         UNCHANGED <<state, accepted, far>>
  PROVE  /\ out' \in Seq(Nat) /\ wire' \in Seq(Nat) /\ UNCHANGED <<soerr, killed, rdshut>>
         /\ ch' \in Channels /\ ReadsIn(ch') /\ (IsWriting(ch') <=> out' # <<>>)
         /\ StreamExact'
<1>1. /\ out \in Seq(Nat) /\ wire \in Seq(Nat) /\ received \in Seq(Nat)
      /\ ch \in Channels /\ ReadsIn(ch) /\ out # <<>>
      /\ state \in {"kConnected", "kDisconnected"}
  BY DEF TypeOK, Open
<1>2. PICK n \in 1..Len(out) :
        /\ Written(out, n) /\ out' = Retrive(n) /\ ch' = WaitForRest(out')
        /\ UNCHANGED rdshut
  BY <1>1 DEF WriteOut
<1> DEFINE front == SubSeq(out, 1, n)
           rest == SubSeq(out, n + 1, Len(out))
<1>3. front \in Seq(Nat) /\ rest \in Seq(Nat) /\ front \o rest = out
  BY <1>1, SplitBytes
<1>4. out' = rest /\ wire' = wire \o front /\ UNCHANGED <<soerr, killed>>
  BY <1>2 DEF Written
<1> HIDE DEF front, rest
<1>5. ch' \in Channels /\ ReadsIn(ch') /\ (IsWriting(ch') <=> out' # <<>>)
  BY <1>1, <1>2, ReadsInKept DEF WaitForRest
<1>6. StreamExact'
  <2>1. /\ received \o (wire \o front) = (received \o wire) \o front
        /\ received \o wire \in Seq(Nat)
    BY <1>1, <1>3, Associates, ConcatProperties
  <2>2. ((received \o wire) \o front) \o rest = (received \o wire) \o (front \o rest)
    BY <1>3, <2>1, Associates
  <2> QED
    BY <1>3, <1>4, <2>1, <2>2 DEF StreamExact, far
<1>7. wire' \in Seq(Nat)
  BY <1>1, <1>3, <1>4, ConcatProperties
<1> QED
  BY <1>2, <1>3, <1>4, <1>5, <1>6, <1>7

\* HandleWrite(), which a connection that is closed does not get past the
\* test of IsWriting() in.
LEMMA HandleWriteKeeps ==
  ASSUME TypeOK, PhaseInv, StreamExact, HandleWrite
  PROVE  TypeOK' /\ PhaseInv' /\ StreamExact'
<1>1. /\ Open \/ (Closed /\ ~IsWriting(ch))
      /\ pc = "dispatch" /\ revents' \subseteq revents /\ "HUP" \notin revents
      /\ UNCHANGED <<state, pc, queue, batch, calls, server, accepted, far>>
  <2>1. pc = "dispatch" /\ revents = {"OUT"} /\ revents' = revents \ {"OUT"}
    BY DEF HandleWrite, Handling
  <2>2. Open \/ (Closed /\ ~IsWriting(ch))
    <3>1. ~Fresh
      BY <2>1 DEF Fresh
    <3>2. Closed => ~IsWriting(ch)
      BY DEF Closed, Quiet, Removed, IsWriting, kNoneEvent
    <3> QED
      BY <3>1, <3>2 DEF PhaseInv
  <2> QED
    BY <2>1, <2>2 DEF HandleWrite, Handling
<1>2. CASE IsWriting(ch) /\ WriteOut
  <2>1. /\ out' \in Seq(Nat) /\ wire' \in Seq(Nat) /\ UNCHANGED <<soerr, killed, rdshut>>
        /\ ch' \in Channels /\ ReadsIn(ch') /\ (IsWriting(ch') <=> out' # <<>>)
        /\ StreamExact'
    BY <1>1, <1>2, WriteOutKeeps
  <2>2. TypeOK'
    BY <1>1, <2>1 DEF TypeOK, calls, server, far
  <2>3. Open /\ Open' /\ ~Fresh /\ ~Closed
    BY <1>1, <1>2, <2>1 DEF Open, Fresh, Closed, calls, server
  <2>4. PhaseInv'
    BY <1>1, <2>3, PhaseKeeps
  <2> QED
    BY <2>1, <2>2, <2>4
<1>3. CASE /\ UNCHANGED <<out, ch, rdshut>>
           /\ UNCHANGED sock \/ WouldBlock \/ WriteFails \/ BrokenPipe
  <2>1. /\ wire' = wire /\ soerr' \in BOOLEAN /\ killed' \in BOOLEAN
    BY <1>3 DEF WouldBlock, WriteFails, BrokenPipe, TypeOK, sock
  <2>2. TypeOK'
    BY <1>1, <1>3, <2>1 DEF TypeOK, calls, server, far
  <2>3. PhaseInv'
    BY <1>1, <1>3, PhaseKeeps DEF Open, Fresh, Closed, calls, server
  <2> QED
    BY <1>1, <1>3, <2>1, <2>2, <2>3 DEF StreamExact, far
<1> QED
  BY <1>2, <1>3 DEF HandleWrite

\* The events epoll reports, and their handlers.
LEMMA DispatchKeeps ==
  ASSUME ConnInv,
         \/ Poll \/ HangUp \/ HandleErrorEvent \/ HandleRead \/ HandleReadEnd
         \/ HandleReadError \/ BodyDone \/ Down \/ HandleWrite
         \/ DispatchDone \/ FunctorsDone
  PROVE  ConnInv'
<1>1. TypeOK /\ PhaseInv /\ StreamExact
  BY DEF ConnInv
<1>2. CASE Poll
  <2>1. Ready \subseteq {"IN", "OUT", "HUP", "ERR"}
    BY <1>1 DEF Ready, TypeOK, Channels
  <2>2. /\ Open /\ "HUP" \in Ready => "IN" \in Ready
        /\ Fresh \/ Closed => Ready = {}
    BY <1>1 DEF Ready, Open, Fresh, Closed, ReadsIn, Quiet, Removed, NewChannel, Absent, TypeOK
  <2>3. TypeOK'
    BY <1>1, <1>2, <2>1 DEF Poll, TypeOK, conn, calls, server, sock, far
  <2>4. PhaseInv'
    BY <1>1, <1>2, <2>2, PhaseKeeps
       DEF Poll, Fresh, Open, Closed, conn, calls, server, sock, far
  <2> QED
    BY <1>1, <1>2, <2>3, <2>4 DEF Poll, ConnInv, StreamExact, conn, sock, far
<1>3. CASE HangUp
  <2>1. Open /\ UNCHANGED <<state, ch, pc>>
    BY <1>1, <1>3 DEF HangUp, Handling, PhaseInv, Fresh, Open, Closed
  <2>2. TypeOK'
    BY <1>1, <1>3, <2>1 DEF HangUp, Handling, TypeOK, calls, server, sock, far
  <2>3. Open'
    BY <1>1, <1>3, <2>1 DEF HangUp, Handling, Open, server
  <2>4. PhaseInv'
    BY <1>1, <1>3, <2>1, <2>3, PhaseKeeps DEF HangUp, Fresh, Closed, Open
  <2> QED
    BY <1>1, <1>3, <2>2, <2>4 DEF HangUp, Handling, ConnInv, StreamExact, sock, far
<1>4. CASE HandleErrorEvent \/ HandleReadError
  <2>1. PICK e \in {"ERR", "IN"} : Handling(e) /\ HandleError
    BY <1>4 DEF HandleErrorEvent, HandleReadError
  <2>2. TypeOK'
    BY <1>1, <2>1 DEF Handling, HandleError, TypeOK, conn, calls, server, far
  <2>3. /\ "HUP" \notin revents /\ revents # {} /\ revents' \subseteq revents
        /\ pc = "dispatch" /\ UNCHANGED <<state, ch, out, pc, queue, call, removing, down>>
    BY <2>1 DEF Handling, HandleError, conn, calls, server
  <2>4. PhaseInv'
    BY <1>1, <2>3, PhaseKeeps DEF Fresh, Open, Closed
  <2> QED
    BY <1>1, <2>1, <2>2, <2>4 DEF Handling, HandleError, ConnInv, StreamExact, conn, far
<1>5. CASE HandleRead
  <2>1. Open
    BY <1>1, <1>5 DEF HandleRead, Handling, PhaseInv, Fresh, Closed
  <2>2. TypeOK'
    BY <1>1, <1>5 DEF HandleRead, Handling, TypeOK, conn, calls, server, sock
  <2>3. Open'
    BY <1>1, <1>5, <2>1 DEF HandleRead, Handling, TypeOK, Open, conn, server
  <2>4. PhaseInv'
    BY <1>1, <1>5, <2>1, <2>3, PhaseKeeps DEF HandleRead, Fresh, Closed, Open
  <2> QED
    BY <1>1, <1>5, <2>2, <2>4 DEF HandleRead, Handling, ConnInv, StreamExact, conn, sock
<1>6. CASE HandleReadEnd
  <2>1. Open
    BY <1>1, <1>6 DEF HandleReadEnd, Handling, PhaseInv, Fresh, Closed
  <2>2. Closed' /\ ch' \in Channels /\ pc' = "down"
    BY <1>1, <1>6, <2>1, HandleCloseCloses DEF HandleReadEnd, Handling, TypeOK
  <2>3. TypeOK'
    BY <1>1, <1>6, <2>2
       DEF HandleReadEnd, HandleClose, Handling, TypeOK, calls, server, sock, far
  <2>4. PhaseInv'
    BY <1>1, <1>6, <2>1, <2>2, PhaseKeeps DEF HandleReadEnd, Fresh, Closed, Open
  <2> QED
    BY <1>1, <1>6, <2>3, <2>4 DEF HandleReadEnd, Handling, ConnInv, StreamExact, sock, far
<1>7. CASE BodyDone
  <2>1. TypeOK'
    BY <1>1, <1>7 DEF BodyDone, TypeOK, conn, calls, server, sock, far
  <2>2. PhaseInv'
    BY <1>1, <1>7, PhaseKeeps
       DEF BodyDone, Fresh, Open, Closed, conn, calls, server
  <2> QED
    BY <1>1, <1>7, <2>1, <2>2 DEF BodyDone, ConnInv, StreamExact, conn, sock, far
<1>8. CASE Down
  <2>1. TypeOK'
    BY <1>1, <1>8 DEF Down, TypeOK, conn, calls, sock, far
  <2>2. PhaseInv'
    BY <1>1, <1>8, PhaseKeeps
       DEF Down, Fresh, Open, Closed, conn, calls
  <2> QED
    BY <1>1, <1>8, <2>1, <2>2 DEF Down, ConnInv, StreamExact, conn, sock, far
<1>9. CASE DispatchDone \/ FunctorsDone
  <2>1. TypeOK'
    <3>1. Len(queue) \in 0..Len(queue)
      BY <1>1, LenProperties DEF TypeOK
    <3>2. batch' \in 0..Len(queue')
      BY <1>1, <1>9, <3>1 DEF DispatchDone, FunctorsDone, TypeOK
    <3> QED
      BY <1>1, <1>9, <3>2
         DEF DispatchDone, FunctorsDone, TypeOK, conn, calls, server, sock, far
  <2>2. PhaseInv'
    BY <1>1, <1>9, PhaseKeeps
       DEF DispatchDone, FunctorsDone, Fresh, Open, Closed, conn, calls, server
  <2> QED
    BY <1>1, <1>9, <2>1, <2>2
       DEF DispatchDone, FunctorsDone, ConnInv, StreamExact, conn, sock, far
<1>10. CASE HandleWrite
  BY <1>1, <1>10, HandleWriteKeeps DEF ConnInv
<1> QED
  BY <1>2, <1>3, <1>4, <1>5, <1>6, <1>7, <1>8, <1>9, <1>10

\* The functors of a batch.
LEMMA FunctorsKeep ==
  ASSUME ConnInv,
         ConnectionEstablished \/ RunSend \/ RunHighWater \/ ConnectDestroyed
  PROVE  ConnInv'
<1>1. TypeOK /\ PhaseInv /\ StreamExact
  BY DEF ConnInv
<1>2. queue # <<>> /\ batch' \in 0..(Len(queue) - 1)
  <2>1. batch \in 0..Len(queue) /\ batch > 0 /\ batch' = batch - 1 /\ Len(queue) \in Nat
    BY <1>1, LenProperties DEF ConnectionEstablished, RunSend, RunHighWater, ConnectDestroyed, Run, TypeOK
  <2> QED
    BY <2>1, EmptySeq
<1>3. /\ Head(queue) = queue[1] /\ 1 \in 1..Len(queue)
      /\ Head(queue) \in Functors
      /\ Tail(queue) \in Seq(Functors) /\ Len(Tail(queue)) = Len(queue) - 1
      /\ \A i \in 1..Len(Tail(queue)) : Tail(queue)[i] = queue[i + 1] /\ i + 1 \in 1..Len(queue)
  BY <1>1, <1>2, QueueTypes
<1>4. ASSUME queue' = Tail(queue), Fresh => Fresh', Closed /\ down => (Closed /\ down)'
      PROVE  QueueInv'
  BY <1>1, <1>3, <1>4, QueueKeeps DEF PhaseInv
<1>5. CASE ConnectionEstablished
  <2>1. Fresh
    BY <1>1, <1>3, <1>5 DEF ConnectionEstablished, Run, PhaseInv, QueueInv
  <2>2. queue' = <<>> /\ Len(queue') = 0
    BY <1>5, <2>1, HeadTailProperties, EmptySeq DEF ConnectionEstablished, Fresh
  <2>3. ch' = EnableReading(NewChannel) /\ ReadsIn(ch') /\ ~IsWriting(ch') /\ ch' \in Channels
    <3>1. EnableReading(NewChannel) \in Channels
      BY DEF EnableReading, NewChannel, UpdateChannel, EpollAdd, Channels,
             kReadEvent, kNoneEvent, Absent
    <3> QED
      BY <1>5, <2>1, <3>1, EnableReadingNew DEF ConnectionEstablished, Fresh
  <2>4. TypeOK'
    BY <1>1, <1>2, <1>3, <1>5, <2>2, <2>3
       DEF ConnectionEstablished, Run, TypeOK, calls, sock, far
  <2>5. Open'
    BY <1>5, <2>1, <2>3 DEF ConnectionEstablished, Run, Fresh, Open
  <2>6. PhaseInv'
    BY <2>2, <2>5 DEF PhaseInv, QueueInv
  <2> QED
    BY <1>1, <1>5, <2>4, <2>6 DEF ConnectionEstablished, Run, ConnInv, StreamExact, sock, far
<1>6. CASE RunHighWater
  <2>1. ~Fresh
    BY <1>3, <1>6 DEF RunHighWater, Run, Fresh, Establish
  <2>2. TypeOK'
    BY <1>1, <1>2, <1>3, <1>6 DEF RunHighWater, Run, TypeOK, calls, far
  <2>3. (Open => Open') /\ (Closed => Closed') /\ down' = down
    BY <1>6 DEF RunHighWater, Run, Open, Closed
  <2>4. PhaseInv'
    BY <1>1, <1>4, <1>6, <2>1, <2>3 DEF PhaseInv, RunHighWater
  <2> QED
    BY <1>1, <1>6, <2>2, <2>4 DEF RunHighWater, Run, ConnInv, StreamExact, far
<1>7. CASE ConnectDestroyed
  <2>1. Closed /\ down /\ ~Fresh /\ ~Open
    BY <1>1, <1>3, <1>7 DEF ConnectDestroyed, Run, PhaseInv, QueueInv, Closed, Fresh, Open
  <2>2. ch' \in Channels /\ Removed(ch') /\ UNCHANGED <<state, down>>
    BY <1>1, <1>7, <2>1, RemoveChannelRemoves DEF ConnectDestroyed, Closed, TypeOK
  <2>3. TypeOK'
    BY <1>1, <1>2, <1>3, <1>7, <2>2 DEF ConnectDestroyed, Run, TypeOK, calls, sock, far
  <2>4. Closed' /\ down'
    BY <1>7, <2>1, <2>2 DEF ConnectDestroyed, Run, Closed
  <2>5. PhaseInv'
    BY <1>4, <1>7, <2>1, <2>4 DEF PhaseInv, ConnectDestroyed
  <2> QED
    BY <1>1, <1>7, <2>3, <2>5 DEF ConnectDestroyed, Run, ConnInv, StreamExact, sock, far
<1>8. CASE RunSend
  <2> DEFINE m == Head(queue).msg
             q == Tail(queue)
  <2>1. m \in Nat /\ ~Fresh
    BY <1>3, <1>8, BoundAssumption DEF RunSend, Run, Functors, Establish, Destroy, HighWaterCb, Fresh
  <2>2. SendInLoop(m, q) /\ UNCHANGED <<state, received, peer>>
    BY <1>8 DEF RunSend, Run, far
  <2> HIDE DEF m
  <2>3. /\ out' \in Seq(Nat) /\ wire' \in Seq(Nat) /\ accepted' \in Seq(Nat)
        /\ soerr' \in BOOLEAN /\ killed' \in BOOLEAN
        /\ queue' \in {q, Append(q, HighWaterCb)}
        /\ ch' \in Channels
        /\ Open => ReadsIn(ch') /\ (IsWriting(ch') <=> out' # <<>>)
        /\ Closed => UNCHANGED <<ch, out>>
        /\ StreamExact'
    BY <1>1, <2>1, <2>2, SendInLoopKeeps DEF PhaseInv
  <2>4. (Open => Open') /\ (Closed => Closed') /\ down' = down
    BY <1>8, <2>3 DEF RunSend, Run, Open, Closed, calls
  <2>5. /\ queue' \in Seq(Functors) /\ Len(queue') >= Len(q) /\ Len(queue') \in Nat
        /\ \A i \in 1..Len(queue') :
             (\E j \in 1..Len(queue) : queue'[i] = queue[j]) \/ queue'[i] = HighWaterCb
    <3>1. CASE queue' = q
      BY <1>3, <3>1, LenProperties
    <3>2. CASE queue' = Append(q, HighWaterCb)
      <4>1. HighWaterCb \in Functors /\ Len(q) \in Nat
        BY <1>3, LenProperties DEF Functors
      <4>2. /\ queue' \in Seq(Functors) /\ Len(queue') = Len(q) + 1
            /\ \A i \in 1..Len(queue') :
                 queue'[i] = HighWaterCb \/ (i \in 1..Len(q) /\ queue'[i] = q[i])
        BY <1>3, <3>2, <4>1, QueueGrows
      <4> QED
        BY <1>3, <4>1, <4>2
    <3> QED
      BY <2>3, <3>1, <3>2
  <2>6. QueueInv'
    BY <1>1, <2>1, <2>4, <2>5, QueueKeeps DEF PhaseInv, HighWaterCb
  <2>7. TypeOK'
    <3>1. batch' \in 0..Len(queue')
      BY <1>2, <1>3, <2>5
    <3> QED
      BY <1>1, <1>8, <2>3, <2>5, <3>1 DEF RunSend, Run, TypeOK, calls, far
  <2> QED
    BY <1>1, <2>1, <2>3, <2>4, <2>6, <2>7 DEF ConnInv, PhaseInv
<1> QED
  BY <1>5, <1>6, <1>7, <1>8

\* What the message callback does.
LEMMA BodyKeeps ==
  ASSUME ConnInv, SendNow \/ ShutdownNow
  PROVE  ConnInv'
<1>1. TypeOK /\ PhaseInv /\ StreamExact
  BY DEF ConnInv
<1>2. Open /\ ~Fresh /\ ~Closed
  BY <1>1 DEF SendNow, ShutdownNow, PhaseInv, Open, Fresh, Closed
<1>3. CASE SendNow
  <2>1. sends + 1 \in 1..MaxSends /\ sends + 1 \in Nat
    BY <1>1, <1>3, BoundAssumption DEF SendNow, TypeOK
  <2>2. SendInLoop(sends + 1, queue) /\ UNCHANGED <<state, received, peer>>
    BY <1>3 DEF SendNow, far
  <2>3. /\ out' \in Seq(Nat) /\ wire' \in Seq(Nat) /\ accepted' \in Seq(Nat)
        /\ soerr' \in BOOLEAN /\ killed' \in BOOLEAN
        /\ queue' \in {queue, Append(queue, HighWaterCb)}
        /\ ch' \in Channels
        /\ ReadsIn(ch') /\ (IsWriting(ch') <=> out' # <<>>)
        /\ StreamExact'
    BY <1>1, <1>2, <2>1, <2>2, SendInLoopKeeps
  <2>4. Open'
    BY <1>2, <1>3, <2>3 DEF SendNow, Open, loop, server
  <2>5. /\ queue' \in Seq(Functors) /\ batch \in 0..Len(queue')
        /\ \A i \in 1..Len(queue') :
             (\E j \in 1..Len(queue) : queue'[i] = queue[j]) \/ queue'[i] = HighWaterCb
    <3>1. queue \in Seq(Functors) /\ Len(queue) \in Nat /\ batch \in 0..Len(queue)
      BY <1>1, LenProperties DEF TypeOK
    <3>2. CASE queue' = queue
      BY <3>1, <3>2
    <3>3. CASE queue' = Append(queue, HighWaterCb)
      <4>1. HighWaterCb \in Functors
        BY DEF Functors
      <4> QED
        BY <3>1, <3>3, <4>1, QueueGrows
    <3> QED
      BY <2>3, <3>2, <3>3
  <2>6. QueueInv'
    BY <1>1, <1>2, <2>5, QueueKeeps DEF PhaseInv, HighWaterCb
  <2>7. TypeOK'
    BY <1>1, <1>3, <2>1, <2>3, <2>5 DEF SendNow, TypeOK, loop, server, far
  <2> QED
    BY <2>3, <2>4, <2>6, <2>7 DEF ConnInv, PhaseInv
<1>4. CASE ShutdownNow
  <2>1. TypeOK'
    BY <1>1, <1>4
       DEF ShutdownNow, ShutdownInLoop, ShutdownWrite, TypeOK, loop, calls, server, sock, far
  <2>2. Open'
    BY <1>2, <1>4 DEF ShutdownNow, Open, loop, server
  <2>3. PhaseInv'
    BY <1>1, <1>2, <1>4, <2>2, PhaseKeeps DEF ShutdownNow
  <2> QED
    BY <1>1, <1>4, <2>1, <2>3 DEF ShutdownNow, ConnInv, StreamExact, sock, far
<1> QED
  BY <1>3, <1>4

\* The other threads: Send(), and the base loop's RemoveConnectionInLoop().
LEMMA OthersKeep ==
  ASSUME ConnInv,
         RemoveConnectionInLoop \/ \E t \in Callers : SendCheck(t) \/ SendQueue(t)
  PROVE  ConnInv'
<1>1. TypeOK /\ PhaseInv /\ StreamExact /\ queue \in Seq(Functors) /\ Len(queue) \in Nat
  BY LenProperties DEF ConnInv, TypeOK
<1>2. ASSUME NEW f \in Functors, queue' = Append(queue, f), UNCHANGED batch
      PROVE  /\ queue' \in Seq(Functors) /\ batch' \in 0..Len(queue')
             /\ \A i \in 1..Len(queue') :
                  (\E j \in 1..Len(queue) : queue'[i] = queue[j]) \/ queue'[i] = f
  <2>1. batch \in 0..Len(queue)
    BY <1>1 DEF TypeOK
  <2> QED
    BY <1>1, <1>2, <2>1, QueueGrows
<1>3. CASE RemoveConnectionInLoop
  <2>1. Closed /\ down /\ Closed' /\ down' /\ ~Fresh
    BY <1>1, <1>3 DEF RemoveConnectionInLoop, PhaseInv, Fresh, Open, Closed, conn, loop
  <2>2. Destroy \in Functors /\ UNCHANGED batch
    BY <1>3 DEF Functors, RemoveConnectionInLoop, loop
  <2>3. QueueInv' /\ queue' \in Seq(Functors) /\ batch' \in 0..Len(queue')
    BY <1>1, <1>2, <1>3, <2>1, <2>2, QueueKeeps DEF PhaseInv, RemoveConnectionInLoop, Destroy
  <2>4. TypeOK'
    BY <1>1, <1>3, <2>3 DEF RemoveConnectionInLoop, TypeOK, conn, loop, calls, sock, far
  <2> QED
    BY <1>1, <1>3, <2>1, <2>3, <2>4
       DEF RemoveConnectionInLoop, ConnInv, PhaseInv, StreamExact, conn, sock, far
<1>4. ASSUME NEW t \in Callers, SendCheck(t) PROVE ConnInv'
  <2>1. sends + 1 \in 1..MaxSends
    BY <1>1, <1>4, BoundAssumption DEF SendCheck, TypeOK
  <2>2. TypeOK'
    BY <1>1, <1>4, <2>1 DEF SendCheck, TypeOK, conn, loop, server, sock, far
  <2>3. ~Fresh /\ (Open => Open') /\ (Closed => Closed') /\ UNCHANGED <<queue, down>>
    BY <1>4 DEF SendCheck, Fresh, Open, Closed, conn, loop, server
  <2>4. PhaseInv'
    BY <1>1, <2>3, PhaseKeeps
  <2> QED
    BY <1>1, <1>4, <2>2, <2>4 DEF SendCheck, ConnInv, StreamExact, conn, sock, far
<1>5. ASSUME NEW t \in Callers, SendQueue(t) PROVE ConnInv'
  <2>1. ~Fresh /\ (Open => Open') /\ (Closed => Closed') /\ UNCHANGED <<batch, down>>
    BY <1>5 DEF SendQueue, Fresh, Open, Closed, conn, loop, server
  <2>2. call[t] \in 1..MaxSends
    BY <1>1, <1>5 DEF SendQueue, TypeOK
  <2> DEFINE f == SendFunctor(call[t])
  <2>3. f \in Functors /\ f.op = "SendInLoop" /\ queue' = Append(queue, f)
    BY <1>5, <2>2 DEF SendQueue, SendFunctor, Functors
  <2> HIDE DEF f
  <2>4. /\ queue' \in Seq(Functors) /\ batch' \in 0..Len(queue')
        /\ \A i \in 1..Len(queue') :
             (\E j \in 1..Len(queue) : queue'[i] = queue[j]) \/ queue'[i] = f
    BY <1>2, <2>1, <2>3
  <2>5. QueueInv'
    BY <1>1, <2>1, <2>3, <2>4, QueueKeeps DEF PhaseInv
  <2>6. TypeOK'
    <3>1. call' \in [Callers -> 0..MaxSends]
      BY <1>1, <1>5, BoundAssumption DEF SendQueue, TypeOK
    <3> QED
      BY <1>1, <1>5, <2>4, <3>1 DEF SendQueue, TypeOK, conn, loop, server, sock, far
  <2> QED
    BY <1>1, <1>5, <2>1, <2>5, <2>6
       DEF SendQueue, ConnInv, PhaseInv, StreamExact, conn, sock, far
<1> QED
  BY <1>3, <1>4, <1>5

\* The peer.
LEMMA PeerKeeps ==
  ASSUME ConnInv, PeerRead \/ PeerAsk \/ PeerClose \/ PeerReset
  PROVE  ConnInv'
<1>1. TypeOK /\ PhaseInv /\ StreamExact
  BY DEF ConnInv
<1>2. PhaseInv'
  BY <1>1, PhaseKeeps
     DEF PeerRead, PeerAsk, PeerClose, PeerReset, Fresh, Open, Closed, conn, loop, calls, server
<1>3. CASE PeerRead
  <2>1. /\ received \in Seq(Nat) /\ wire \in Seq(Nat) /\ out \in Seq(Nat)
        /\ wire # <<>> /\ 1 \in 1..Len(wire) /\ Len(wire) \in Nat
    BY <1>1, <1>3, EmptySeq DEF PeerRead, TypeOK
  <2> DEFINE h == <<Head(wire)>>
             r == Tail(wire)
  <2>2. h \in Seq(Nat) /\ r \in Seq(Nat) /\ h \o r = wire
    <3>1. Head(wire) = wire[1] /\ Head(wire) \in Nat /\ r \in Seq(Nat) /\ r = SubSeq(wire, 2, Len(wire))
      BY <2>1, HeadTailProperties, TailIsSubSeq
    <3>2. Len(wire) \in 1..Len(wire) /\ 1 + 1 = 2
      BY <2>1
    <3>3. SubSeq(wire, 1, Len(wire)) = <<wire[1]>> \o SubSeq(wire, 1 + 1, Len(wire))
      BY <2>1, <3>2, SubSeqRecursiveFirst
    <3>4. h \in Seq(Nat)
      BY <3>1
    <3> QED
      BY <2>1, <3>1, <3>2, <3>3, <3>4, SubSeqFull
  <2>3. received' = received \o h /\ wire' = r /\ UNCHANGED <<out, accepted, peer>>
    <3>1. Head(wire) \in Nat
      BY <2>1, HeadTailProperties
    <3>2. Append(received, Head(wire)) = received \o h
      BY <2>1, <3>1, AppendIsConcat
    <3> QED
      BY <1>3, <3>2 DEF PeerRead, conn
  <2> HIDE DEF h, r
  <2>4. received' \in Seq(Nat) /\ r \o out \in Seq(Nat) /\ received \o h \in Seq(Nat)
    BY <2>1, <2>2, <2>3, ConcatProperties
  <2>5. received' \o wire' \o out' = accepted /\ peer = "open"
    <3>1. (received \o h) \o r = received \o (h \o r)
      BY <2>1, <2>2, Associates
    <3> QED
      BY <1>1, <1>3, <2>2, <2>3, <3>1 DEF StreamExact, PeerRead
  <2>6. IsPrefix(received', accepted')
    <3>1. ((received \o h) \o r) \o out = (received \o h) \o (r \o out)
      <4>1. out \in Seq(Nat) /\ r \in Seq(Nat)
        BY <2>1, <2>2
      <4> QED
        BY <2>4, <4>1, Associates, Zenon
    <3>2. IsPrefix(received \o h, (received \o h) \o (r \o out))
      BY <2>4, PrefixOfConcat
    <3>3. accepted' = ((received \o h) \o r) \o out
      BY <2>3, <2>5
    <3> QED
      BY <2>3, <3>1, <3>2, <3>3
  <2>7. TypeOK'
    BY <1>1, <1>3, <2>2, <2>3, <2>4 DEF PeerRead, TypeOK, conn, loop, calls, server
  <2> QED
    BY <1>2, <2>3, <2>5, <2>6, <2>7 DEF ConnInv, StreamExact
<1>4. CASE PeerAsk \/ PeerClose
  <2>1. unread' \in Nat /\ asks' \in Nat /\ peer' \in {"open", "closed", "reset"}
    BY <1>1, <1>4 DEF PeerAsk, PeerClose, TypeOK
  <2>2. TypeOK'
    BY <1>1, <1>4, <2>1 DEF PeerAsk, PeerClose, TypeOK, conn, loop, calls, server, sock
  <2> QED
    BY <1>1, <1>2, <1>4, <2>2 DEF PeerAsk, PeerClose, ConnInv, StreamExact, conn, sock
<1>5. CASE PeerReset
  <2>1. TypeOK'
    BY <1>1, <1>5, EmptySeq DEF PeerReset, TypeOK, conn, loop, calls, server
  <2> QED
    BY <1>1, <1>2, <1>5, <2>1 DEF PeerReset, ConnInv, StreamExact, conn
<1> QED
  BY <1>3, <1>4, <1>5

-----------------------------------------------------------------------------
(* The theorems.                                                           *)

\* A connection is fresh, open or closed, with what that says of its channel
\* and its queue, and the stream is exact.
THEOREM ConnectionInvariant == Spec => []ConnInv
<1>1. ConnInv /\ UNCHANGED vars => ConnInv'
  BY DEF ConnInv, TypeOK, PhaseInv, QueueInv, Fresh, Open, Closed, StreamExact,
         vars, conn, loop, calls, server, sock, far
<1>2. ConnInv /\ [Next]_vars => ConnInv'
  <2> SUFFICES ASSUME ConnInv, [Next]_vars PROVE ConnInv'
    OBVIOUS
  <2>1. CASE LoopStep
    BY <2>1, DispatchKeeps, FunctorsKeep DEF LoopStep
  <2>2. CASE BodyStep
    BY <2>2, BodyKeeps DEF BodyStep
  <2>3. CASE PeerStep
    BY <2>3, PeerKeeps DEF PeerStep
  <2>4. CASE RemoveConnectionInLoop \/ \E t \in Callers : SendCheck(t) \/ SendQueue(t)
    BY <2>4, OthersKeep
  <2>5. CASE UNCHANGED vars
    BY <1>1, <2>5
  <2> QED
    BY <2>1, <2>2, <2>3, <2>4, <2>5 DEF Next, CallerStep, Terminated
<1> QED
  BY <1>2, ConnInit, PTL DEF Spec, SafeSpec

\* The types of the connection, the loop, the queue and the socket are kept.
THEOREM TypeCorrect == Spec => []TypeOK
<1>1. ConnInv => TypeOK
  BY DEF ConnInv
<1> QED
  BY <1>1, ConnectionInvariant, PTL

\* The bytes of the messages taken on reach the peer each once and in order,
\* for messages and kernel buffers of every size.
THEOREM StreamIsExact == Spec => []StreamExact
<1>1. ConnInv => StreamExact
  BY DEF ConnInv
<1> QED
  BY <1>1, ConnectionInvariant, PTL

\* The channel waits for EPOLLOUT exactly while output waits.
THEOREM WritesWhatWaits == Spec => []WritingIffPending
<1>1. ConnInv => WritingIffPending
  BY DEF ConnInv, PhaseInv, Fresh, Open, Closed, WritingIffPending, IsWriting,
         NewChannel, kNoneEvent
<1> QED
  BY <1>1, ConnectionInvariant, PTL

\* epoll knows of the channel what the channel says, and no epoll_ctl() ends
\* the process.
THEOREM RegistersExactly == Spec => []RegistrationExact
<1>1. ConnInv => RegistrationExact
  <2>1. Fresh => RegistrationExact
    BY DEF Fresh, RegistrationExact, NewChannel, kNoneEvent, Absent
  <2>2. Open => RegistrationExact
    BY DEF Open, ReadsIn, RegistrationExact, kNoneEvent, Absent
  <2>3. Closed => RegistrationExact
    BY DEF Closed, Quiet, Removed, RegistrationExact, kNoneEvent, Absent
  <2> QED
    BY <2>1, <2>2, <2>3 DEF ConnInv, PhaseInv
<1> QED
  BY <1>1, ConnectionInvariant, PTL
=============================================================================
