---------------------------- MODULE ChatRoomProofs ----------------------------
(***************************************************************************)
(* Theorems about ChatRoom.tla.  The first part, on the maps and on the    *)
(* order of the lines, holds for any number of loops, connections, names   *)
(* and lines; the second, on the maps and on what the clients are told,    *)
(* for any number of connections and names on one loop.                    *)
(***************************************************************************)
EXTENDS ChatRoom, SequenceTheorems, TLAPS

\* The small operators the handlers are made of are always expanded.
USE DEF Addressees, HolderOf, LookUp, IsFree, IsFound, Recipients, ExitPath, WithoutName,
        WithoutConn, Queued, AtEnd

\* The places of a handler by what it is about.
LoginPcs == {"list", "isNewName", "toJoin", "joining", "insert"}
TalkPcs == {"toTalk", "talking"}
PrivatePcs == {"find", "use", "log"}
ExitPcs == {"userExit", "toLeave", "leaving", "erase", "forget"}

\* Where a handler is says whose it is, what it has read and whether its
\* connection has a name.
HandlerAt(l) ==
  /\ conn[l] = NoConn <=> pc[l] = "idle"
  /\ conn[l] # NoConn => LoopOf[conn[l]] = l
  /\ pc[l] \in LoginPcs => ~Registered(conn[l])
  /\ pc[l] \in TalkPcs \cup PrivatePcs => Registered(conn[l])
  /\ pc[l] \in {"toLeave", "leaving", "erase"} => Registered(conn[l])
  /\ pc[l] = "forget" => ~Registered(conn[l])
  /\ pc[l] \in ExitPcs => conn[l] \in ended
  /\ pc[l] \notin ExitPcs \cup {"idle"} =>
       conn[l] \notin ended /\ req[l] \in Requests
  /\ pc[l] \in TalkPcs => req[l].kind = "group"
  /\ pc[l] \in PrivatePcs => req[l].kind = "private"

\* Every loop.
HandlerInv == \A l \in Loops : HandlerAt(l)

\* The part of TypeOK about the maps and the handlers.
MapType ==
  /\ nameConn \in [Names -> Conns \cup {NoConn}]
  /\ connName \in [Conns -> Names \cup {NoName, NoEntry}]
  /\ ended \subseteq Conns
  /\ pc \in [Loops -> Pcs]
  /\ conn \in [Loops -> Conns \cup {NoConn}]
  /\ req \in [Loops -> Requests \cup {Nothing}]
  /\ inbox \in [Conns -> Seq(Requests)]

\* What holds with any number of loops.
RoomInv == TypeOK /\ HandlerInv /\ NamesLeadHome /\ ExitForgets

-----------------------------------------------------------------------------
\* The name a request is taken for is a name.
LEMMA RequestText ==
  ASSUME NEW r \in Requests
  PROVE  /\ r.text \in Names
         /\ r.kind \in {"login", "group", "private"}
         /\ r.kind = "private" => r.to \in Names \cup {NoName} /\ r.n \in 1..MaxSaid
         /\ r.kind = "group" => r.n \in 1..MaxSaid
BY NameAssumption DEF Requests

\* The two maps and what the handlers hold keep their types in every step.
LEMMA MapTypeStep ==
  ASSUME MapType, HandlerInv, ~crashed, NEW l \in Loops, LoopStep(l)
  PROVE  MapType'
<1> USE DEF MapType, Goto, Return, At, Enter, Pcs, maps, server, handler, stream, peer
<1>1. CASE RunMail(l)
  BY <1>1 DEF RunMail
<1>2. CASE Establish(l)
  BY <1>2 DEF Establish
<1>3. CASE HandleRead(l)
  <2>0. PICK c \in OnLoop(l) \ ended :
          \E k \in 1..Len(inbox[c]) :
            /\ Enter(l, c, "isNewClient", Head(inbox[c]))
            /\ inbox' = [inbox EXCEPT ![c] = SubSeq(@, k + 1, Len(@))]
    BY <1>3 DEF HandleRead
  <2>1. PICK k \in 1..Len(inbox[c]) :
          /\ Enter(l, c, "isNewClient", Head(inbox[c]))
          /\ inbox' = [inbox EXCEPT ![c] = SubSeq(@, k + 1, Len(@))]
    BY <2>0
  <2>2. c \in Conns
    BY DEF OnLoop
  <2>3. inbox[c] \in Seq(Requests) /\ inbox[c] # <<>>
    BY <2>2
  <2>4. Head(inbox[c]) \in Requests
    BY <2>3
  <2>5. SubSeq(inbox[c], k + 1, Len(inbox[c])) \in Seq(Requests)
    BY <2>3, SubSeqProperties, ElementOfSeq, LenProperties
  <2> QED
    BY <1>3, <2>1, <2>2, <2>4, <2>5 DEF HandleRead
<1>4. CASE HandleClose(l)
  BY <1>4 DEF HandleClose, OnLoop
<1>5. CASE IsNewClient(l)
  BY <1>5 DEF IsNewClient
<1>6. CASE SendList(l)
  BY <1>6 DEF SendList
<1>7. CASE IsNewName(l)
  BY <1>7 DEF IsNewName
<1>8. CASE RefuseName(l)
  BY <1>8 DEF RefuseName
<1>9. CASE BeginAnnounce(l)
  BY <1>9 DEF BeginAnnounce
<1>10. CASE Announce(l)
  BY <1>10 DEF Announce
<1>11. CASE AnnounceDone(l)
  BY <1>11 DEF AnnounceDone, Broadcasting
<1>12. CASE Insert(l)
  <2>1. conn[l] \in Conns /\ req[l] \in Requests
    BY <1>12 DEF Insert, HandlerInv, HandlerAt, ExitPcs
  <2>2. req[l].text \in Names
    BY <2>1, RequestText
  <2> QED
    BY <1>12, <2>1, <2>2 DEF Insert
<1>13. CASE UserExit(l)
  BY <1>13 DEF UserExit
<1>14. CASE Erase(l)
  BY <1>14 DEF Erase
<1>15. CASE Forget(l)
  BY <1>15 DEF Forget
<1>16. CASE Find(l)
  BY <1>16 DEF Find
<1>17. CASE Use(l)
  BY <1>17 DEF Use
<1>18. CASE LogPrivate(l)
  BY <1>18 DEF LogPrivate
<1> QED
  BY <1>1, <1>2, <1>3, <1>4, <1>5, <1>6, <1>7, <1>8, <1>9, <1>10, <1>11,
     <1>12, <1>13, <1>14, <1>15, <1>16, <1>17, <1>18 DEF LoopStep

\* A loop touches no entry of conn_name_map_ but that of the connection whose
\* handler it runs.
LEMMA ConnNameStep ==
  ASSUME MapType, NEW l \in Loops, LoopStep(l), NEW c \in Conns, conn[l] # c
  PROVE  connName'[c] = connName[c]
<1> USE DEF MapType, maps
<1>1. CASE IsNewClient(l) \/ UserExit(l)
  BY <1>1 DEF IsNewClient, UserExit
<1>2. CASE Insert(l) \/ Erase(l) \/ Forget(l)
  BY <1>2 DEF Insert, Erase, Forget
<1>3. CASE UNCHANGED connName
  BY <1>3
<1> QED
  BY <1>1, <1>2, <1>3
     DEF LoopStep, RunMail, Establish, HandleRead, HandleClose, SendList,
         IsNewName, RefuseName, BeginAnnounce, Announce, AnnounceDone, Find,
         Use, LogPrivate

\* A step of one loop changes nothing of the handler another one runs.
LEMMA Frame ==
  ASSUME MapType, HandlerInv, ~crashed, NEW l \in Loops, LoopStep(l)
  PROVE  /\ \A k \in Loops \ {l} :
              pc'[k] = pc[k] /\ conn'[k] = conn[k] /\ req'[k] = req[k]
         /\ \A c \in Conns : LoopOf[c] # l =>
              /\ connName'[c] = connName[c]
              /\ c \in ended' <=> c \in ended
<1> USE DEF MapType, Goto, Return, At, Enter, maps, server, handler, OnLoop
<1> DEFINE Same == /\ \A k \in Loops \ {l} :
                        pc'[k] = pc[k] /\ conn'[k] = conn[k] /\ req'[k] = req[k]
                   /\ \A c \in Conns : LoopOf[c] # l =>
                        /\ connName'[c] = connName[c]
                        /\ c \in ended' <=> c \in ended
<1>0. conn[l] # NoConn => LoopOf[conn[l]] = l
  BY DEF HandlerInv, HandlerAt
<1>1. CASE RunMail(l) \/ Establish(l)
  BY <1>1 DEF RunMail, Establish
<1>2. CASE HandleRead(l) \/ HandleClose(l)
  BY <1>2 DEF HandleRead, HandleClose
<1>3. CASE IsNewClient(l) \/ UserExit(l)
  BY <1>3, <1>0, ValueAssumption DEF IsNewClient, UserExit
<1>4. CASE SendList(l) \/ IsNewName(l) \/ RefuseName(l)
  BY <1>4 DEF SendList, IsNewName, RefuseName
<1>5. CASE BeginAnnounce(l) \/ Announce(l) \/ AnnounceDone(l)
  BY <1>5 DEF BeginAnnounce, Announce, AnnounceDone, Broadcasting
<1>6. CASE Insert(l) \/ Erase(l) \/ Forget(l)
  BY <1>6, <1>0, ValueAssumption DEF Insert, Erase, Forget
<1>7. CASE Find(l) \/ Use(l) \/ LogPrivate(l)
  BY <1>7 DEF Find, Use, LogPrivate
<1> QED
  BY <1>1, <1>2, <1>3, <1>4, <1>5, <1>6, <1>7 DEF LoopStep

\* The handlers of the other loops keep their place.
LEMMA OthersStep ==
  ASSUME MapType, HandlerInv, ~crashed, NEW l \in Loops, LoopStep(l),
         NEW k \in Loops \ {l}
  PROVE  HandlerAt(k)'
<1>1. pc'[k] = pc[k] /\ conn'[k] = conn[k] /\ req'[k] = req[k]
  BY Frame
<1>2. HandlerAt(k) /\ conn[k] \in Conns \cup {NoConn}
  BY DEF HandlerInv, MapType
<1>3. CASE conn[k] = NoConn
  BY <1>1, <1>2, <1>3
     DEF HandlerAt, LoginPcs, TalkPcs, PrivatePcs, ExitPcs
<1>4. CASE conn[k] \in Conns /\ conn[k] # NoConn
  <2>1. LoopOf[conn[k]] # l
    BY <1>2, <1>4 DEF HandlerAt
  <2>2. /\ connName'[conn[k]] = connName[conn[k]]
        /\ conn[k] \in ended' <=> conn[k] \in ended
    BY <1>4, <2>1, Frame
  <2>3. Registered(conn[k])' <=> Registered(conn[k])
    BY <1>1, <2>2 DEF Registered
  <2> QED
    BY <1>1, <1>2, <2>2, <2>3 DEF HandlerAt
<1> QED
  BY <1>2, <1>3, <1>4

\* The handler of the loop that takes the step.
LEMMA OwnStep ==
  ASSUME MapType, HandlerInv, ~crashed, NEW l \in Loops, LoopStep(l)
  PROVE  HandlerAt(l)'
<1> USE DEF MapType, HandlerAt, Goto, Return, At, Enter, maps, server, handler,
            OnLoop, LoginPcs, TalkPcs, PrivatePcs, ExitPcs, Registered
<1>0. HandlerAt(l) /\ conn[l] \in Conns \cup {NoConn}
  BY DEF HandlerInv
<1>1. CASE RunMail(l) \/ Establish(l)
  BY <1>0, <1>1 DEF RunMail, Establish
<1>2. CASE HandleRead(l)
  <2>1. PICK c \in OnLoop(l) \ ended :
          \E k \in 1..Len(inbox[c]) : Enter(l, c, "isNewClient", Head(inbox[c]))
    BY <1>2 DEF HandleRead
  <2>2. c \in Conns /\ inbox[c] \in Seq(Requests) /\ inbox[c] # <<>>
    BY <2>1
  <2>3. Head(inbox[c]) \in Requests
    BY <2>2
  <2>4. /\ ended' = ended
        /\ pc'[l] = "isNewClient"
        /\ conn'[l] = c
        /\ req'[l] = Head(inbox[c])
    BY <1>2, <2>1 DEF HandleRead
  <2>5. c \notin ended /\ LoopOf[c] = l /\ c # NoConn
    BY <2>2, ValueAssumption
  <2> QED
    BY <2>3, <2>4, <2>5
<1>3. CASE HandleClose(l)
  BY <1>3, ValueAssumption DEF HandleClose
<1>4. CASE IsNewClient(l)
  BY <1>0, <1>4, ValueAssumption DEF IsNewClient
<1>5. CASE SendList(l) \/ IsNewName(l)
  BY <1>0, <1>5 DEF SendList, IsNewName
<1>6. CASE RefuseName(l)
  BY <1>0, <1>6 DEF RefuseName
<1>7. CASE BeginAnnounce(l)
  BY <1>0, <1>7 DEF BeginAnnounce
<1>8. CASE Announce(l)
  BY <1>0, <1>8 DEF Announce
<1>9. CASE AnnounceDone(l)
  BY <1>0, <1>9 DEF AnnounceDone, Broadcasting
<1>10. CASE Insert(l) \/ Erase(l) \/ Forget(l)
  BY <1>0, <1>10 DEF Insert, Erase, Forget
<1>11. CASE UserExit(l)
  BY <1>0, <1>11, ValueAssumption DEF UserExit
<1>12. CASE Find(l)
  BY <1>0, <1>12 DEF Find
<1>13. CASE Use(l)
  BY <1>0, <1>13 DEF Use
<1>14. CASE LogPrivate(l)
  BY <1>0, <1>14 DEF LogPrivate
<1> QED
  BY <1>1, <1>2, <1>3, <1>4, <1>5, <1>6, <1>7, <1>8, <1>9, <1>10, <1>11,
     <1>12, <1>13, <1>14 DEF LoopStep

\* Only Insert() gives a name, and only to a connection that has none.
LEMMA NamesStep ==
  ASSUME MapType, HandlerInv, NamesLeadHome, ~crashed,
         NEW l \in Loops, LoopStep(l)
  PROVE  NamesLeadHome'
<1> USE DEF MapType, NamesLeadHome, maps, Registered
<1>1. CASE UNCHANGED maps
  BY <1>1
<1>2. CASE IsNewClient(l) \/ UserExit(l)
  BY <1>2, ValueAssumption DEF IsNewClient, UserExit
<1>3. CASE Insert(l)
  <2>1. conn[l] \in Conns /\ req[l].text \in Names /\ connName[conn[l]] \notin Names
    BY <1>3, RequestText
       DEF Insert, At, HandlerInv, HandlerAt, ExitPcs, LoginPcs
  <2> QED
    BY <1>3, <2>1, ValueAssumption DEF Insert
<1>4. CASE Erase(l)
  BY <1>4, ValueAssumption DEF Erase
<1>5. CASE Forget(l)
  <2>1. conn[l] \in Conns /\ connName[conn[l]] \notin Names
    BY <1>5 DEF Forget, At, HandlerInv, HandlerAt
  <2> QED
    BY <1>5, <2>1, ValueAssumption DEF Forget
<1> QED
  BY <1>1, <1>2, <1>3, <1>4, <1>5
     DEF LoopStep, RunMail, Establish, HandleRead, HandleClose, SendList,
         IsNewName, RefuseName, BeginAnnounce, Announce, AnnounceDone, Find,
         Use, LogPrivate

\* A connection that has ended is put back into the maps by no later step.
LEMMA ForgetStep ==
  ASSUME MapType, HandlerInv, NamesLeadHome, ExitForgets, ~crashed,
         NEW l \in Loops, LoopStep(l)
  PROVE  \A c \in ended' : Idle(c)' => connName'[c] = NoEntry
<1> SUFFICES ASSUME NEW c \in ended', Idle(c)' PROVE connName'[c] = NoEntry
  OBVIOUS
<1> USE DEF MapType, Idle, At, Goto, Return, Enter, maps, server, handler, OnLoop
<1>0. HandlerAt(l) /\ c \in Conns
  BY MapTypeStep DEF HandlerInv
<1>1. CASE LoopOf[c] # l
  <2>1. c \in ended /\ connName'[c] = connName[c]
    BY <1>0, <1>1, Frame
  <2>2. LoopOf[c] \in Loops \ {l}
    BY <1>0, <1>1, LoopAssumption
  <2>3. conn'[LoopOf[c]] = conn[LoopOf[c]]
    BY <2>2, Frame
  <2> QED
    BY <2>1, <2>3 DEF ExitForgets
<1>2. CASE LoopOf[c] = l /\ conn[l] = c
  \* The handler of c returns: it was an exit, so it went through the maps.
  <2>1. conn'[l] # c
    BY <1>2
  <2>2. CASE pc[l] \in ExitPcs
    BY <1>0, <1>2, <2>1, <2>2
       DEF ExitPcs, LoopStep, RunMail, Establish, HandleRead, HandleClose,
           IsNewClient, SendList, IsNewName, RefuseName, BeginAnnounce,
           Announce, AnnounceDone, Insert, UserExit, Erase, Forget, Find, Use,
           LogPrivate, Broadcasting
  <2>3. CASE pc[l] \notin ExitPcs
    <3>1. c \notin ended /\ pc[l] # "idle"
      BY <1>0, <1>2, <2>3, ValueAssumption DEF HandlerAt
    <3>2. ended' = ended
      BY <3>1
         DEF LoopStep, RunMail, Establish, HandleRead, HandleClose,
             IsNewClient, SendList, IsNewName, RefuseName, BeginAnnounce,
             Announce, AnnounceDone, Insert, UserExit, Erase, Forget, Find,
             Use, LogPrivate
    <3> QED
      BY <3>1, <3>2
  <2> QED
    BY <2>2, <2>3
<1>3. CASE LoopOf[c] = l /\ conn[l] # c
  <2>1. c \in ended
    <3>1. CASE HandleClose(l)
      BY <1>0, <1>3, <3>1 DEF HandleClose
    <3>2. CASE ended' = ended
      BY <3>2
    <3> QED
      BY <3>1, <3>2
         DEF LoopStep, RunMail, Establish, HandleRead, IsNewClient, SendList,
             IsNewName, RefuseName, BeginAnnounce, Announce, AnnounceDone,
             Insert, UserExit, Erase, Forget, Find, Use, LogPrivate
  <2>2. connName'[c] = connName[c]
    BY <1>0, <1>3, ConnNameStep
  <2> QED
    BY <1>3, <2>1, <2>2 DEF ExitForgets
<1> QED
  BY <1>1, <1>2, <1>3

-----------------------------------------------------------------------------
(* The rest of the type invariant: what is sent and what the clients keep. *)

\* What a mail queue has, and the types of everything outside the maps.
Functors == [to : Conns, msg : Messages]

RestType ==
  /\ state \in [Conns -> {"kConnecting", "kConnected", "kDisconnected"}]
  /\ shut \subseteq Conns
  /\ todo \in [Loops -> SUBSET Conns]
  /\ mail \in [Loops -> Seq(Functors)]
  /\ client \in [Conns -> {"away", "waiting", "dup", "in", "closed"}]
  /\ said \in [Conns -> 0..MaxSaid]
  /\ view \in [Conns -> SUBSET Names]
  /\ seen \in [Conns -> SUBSET Names]
  /\ got \in [Conns -> [Conns -> 0..MaxSaid]]
  /\ crashed \in BOOLEAN

\* The part of it that a message to a client changes.
StreamType ==
  /\ view \in [Conns -> SUBSET Names]
  /\ seen \in [Conns -> SUBSET Names]
  /\ got \in [Conns -> [Conns -> 0..MaxSaid]]

\* The type invariant is that of the maps and that of the rest.
LEMMA TypeParts == TypeOK <=> MapType /\ RestType
BY DEF TypeOK, MapType, RestType, Functors

\* Writing a message to a client keeps the types of what clients show.
LEMMA WriteType ==
  ASSUME StreamType, NEW c \in Conns, NEW m \in Messages, Write(c, m)
  PROVE  StreamType'
<1> USE DEF StreamType, stream
<1>1. CASE state[c] = "kDisconnected"
  BY <1>1 DEF Write
<1>2. CASE state[c] # "kDisconnected" /\ m.kind = "chat"
  <2>1. m.from \in Conns /\ m.n \in 0..MaxSaid
    BY <1>2, BoundAssumption DEF Messages
  <2>2. /\ view' = [view EXCEPT ![c] = view[c]]
        /\ seen' = seen
        /\ got' = [got EXCEPT ![c][m.from] = m.n]
    BY <1>2 DEF Write
  <2> QED
    BY <2>1, <2>2
<1>3. CASE state[c] # "kDisconnected" /\ m.kind = "joined"
  <2>1. m.name \in Names
    BY <1>3 DEF Messages
  <2>2. /\ view' = [view EXCEPT ![c] = view[c] \cup {m.name}]
        /\ seen' = [seen EXCEPT ![c] = seen[c] \cup {m.name}]
        /\ got' = got
    BY <1>3 DEF Write
  <2> QED
    BY <2>1, <2>2
<1>4. CASE state[c] # "kDisconnected" /\ m.kind = "left"
  <2>1. /\ view' = [view EXCEPT ![c] = view[c] \ {m.name}]
        /\ UNCHANGED <<seen, got>>
    BY <1>4 DEF Write
  <2> QED
    BY <2>1
<1> QED
  BY <1>1, <1>2, <1>3, <1>4 DEF Messages

\* Send() keeps the types of the queues and of what clients show.
LEMMA SendToType ==
  ASSUME StreamType, mail \in [Loops -> Seq(Functors)],
         NEW l \in Loops, NEW c \in Conns, NEW m \in Messages, SendTo(l, c, m)
  PROVE  StreamType' /\ mail' \in [Loops -> Seq(Functors)]
<1>1. CASE state[c] # "kConnected"
  BY <1>1 DEF SendTo, StreamType, stream
<1>2. CASE state[c] = "kConnected" /\ LoopOf[c] = l
  BY <1>2, WriteType DEF SendTo
<1>3. CASE state[c] = "kConnected" /\ LoopOf[c] # l
  <2>1. [to |-> c, msg |-> m] \in Functors /\ LoopOf[c] \in Loops
    BY LoopAssumption DEF Functors
  <2>2. Append(mail[LoopOf[c]], [to |-> c, msg |-> m]) \in Seq(Functors)
    BY <2>1, AppendProperties
  <2>3. /\ mail' = [mail EXCEPT ![LoopOf[c]] =
                      Append(mail[LoopOf[c]], [to |-> c, msg |-> m])]
        /\ UNCHANGED stream
    BY <1>3 DEF SendTo
  <2> QED
    BY <2>2, <2>3 DEF StreamType, stream
<1> QED
  BY <1>1, <1>2, <1>3

\* A broadcast sends a message, in whatever place of its handler it is made.
LEMMA AnnouncementType ==
  ASSUME MapType, HandlerInv, NEW l \in Loops, pc[l] \in Broadcasting
  PROVE  Announcement(l) \in Messages
<1> USE DEF Messages, MapType, HandlerInv, HandlerAt
<1>1. conn[l] \in Conns
  BY DEF Broadcasting
<1>2. CASE pc[l] = "joining"
  <2>1. req[l].text \in Names
    BY <1>2, RequestText DEF ExitPcs
  <2>2. Announcement(l) = Joined(req[l].text)
    BY <1>2 DEF Announcement
  <2> QED
    BY <2>1, <2>2 DEF Joined
<1>3. CASE pc[l] = "leaving"
  <2>1. connName[conn[l]] \in Names
    BY <1>3 DEF Registered
  <2>2. Announcement(l) = Left(connName[conn[l]])
    BY <1>3 DEF Announcement
  <2> QED
    BY <2>1, <2>2 DEF Left
<1>4. CASE pc[l] = "talking"
  <2>1. req[l].n \in 1..MaxSaid
    BY <1>4, RequestText DEF ExitPcs, TalkPcs
  <2>2. Announcement(l) = Chat(conn[l], req[l].n)
    BY <1>4 DEF Announcement, GroupMsg
  <2> QED
    BY <1>1, <2>1, <2>2 DEF Chat
<1> QED
  BY <1>2, <1>3, <1>4 DEF Broadcasting

\* A step of a loop keeps the types of everything outside the maps.
LEMMA RestTypeStep ==
  ASSUME MapType, RestType, HandlerInv, ~crashed, NEW l \in Loops, LoopStep(l)
  PROVE  RestType'
<1> USE DEF RestType, StreamType, At, Return, Enter, stream, peer, server, handler
<1>1. CASE RunMail(l)
  <2>1. mail[l] \in Seq(Functors) /\ mail[l] # <<>>
    BY <1>1 DEF RunMail
  <2>2. Head(mail[l]) \in Functors /\ Tail(mail[l]) \in Seq(Functors)
    BY <2>1
  <2>3. Head(mail[l]).to \in Conns /\ Head(mail[l]).msg \in Messages
    BY <2>2 DEF Functors
  <2>4. StreamType'
    BY <1>1, <2>3, WriteType DEF RunMail
  <2> QED
    BY <1>1, <2>2, <2>4 DEF RunMail
<1>2. CASE Establish(l)
  BY <1>2 DEF Establish
<1>3. CASE HandleRead(l)
  BY <1>3 DEF HandleRead
<1>4. CASE HandleClose(l)
  BY <1>4 DEF HandleClose
<1>5. CASE IsNewClient(l) \/ IsNewName(l) \/ AnnounceDone(l)
  BY <1>5 DEF IsNewClient, IsNewName, AnnounceDone
<1>6. CASE SendList(l)
  <2>1. req[l].text \in Names
    BY <1>6, RequestText DEF SendList, MapType, HandlerInv, HandlerAt, ExitPcs
  <2>2. view' \in [Conns -> SUBSET Names] /\ seen' \in [Conns -> SUBSET Names]
    <3> DEFINE list == {n \in Names : nameConn[n] # NoConn} \cup {req[l].text}
    <3>1. \/ UNCHANGED <<view, seen>>
          \/ /\ view' = [view EXCEPT ![conn[l]] = list]
             /\ seen' = [seen EXCEPT ![conn[l]] = list]
      BY <1>6 DEF SendList
    <3>2. list \in SUBSET Names
      BY <2>1
    <3> HIDE DEF list
    <3> QED
      BY <3>1, <3>2
  <2>3. client' \in [Conns -> {"away", "waiting", "dup", "in", "closed"}]
    <3> DEFINE verdict == IF req[l].text \in {n \in Names : nameConn[n] # NoConn}
                          THEN "dup" ELSE "in"
    <3>1. client' = client \/ client' = [client EXCEPT ![conn[l]] = verdict]
      BY <1>6 DEF SendList
    <3>2. verdict \in {"away", "waiting", "dup", "in", "closed"}
      OBVIOUS
    <3> HIDE DEF verdict
    <3> QED
      BY <3>1, <3>2
  <2> QED
    BY <1>6, <2>2, <2>3 DEF SendList
<1>7. CASE RefuseName(l)
  <2>1. conn[l] \in Conns
    BY <1>7 DEF RefuseName, MapType, HandlerInv, HandlerAt
  <2> QED
    BY <1>7, <2>1 DEF RefuseName
<1>8. CASE BeginAnnounce(l)
  BY <1>8 DEF BeginAnnounce, MapType
<1>9. CASE Announce(l)
  <2>1. PICK c \in todo[l] : /\ SendTo(l, c, Announcement(l))
                             /\ todo' = [todo EXCEPT ![l] = @ \ {c}]
    BY <1>9 DEF Announce
  <2>2. c \in Conns /\ Announcement(l) \in Messages
    BY <1>9, AnnouncementType DEF Announce
  <2>3. StreamType' /\ mail' \in [Loops -> Seq(Functors)]
    BY <2>1, <2>2, SendToType
  <2> QED
    BY <1>9, <2>1, <2>3 DEF Announce
<1>10. CASE Insert(l) \/ Erase(l) \/ Forget(l) \/ UserExit(l)
  BY <1>10 DEF Insert, Erase, Forget, UserExit
<1>11. CASE Find(l) \/ LogPrivate(l)
  BY <1>11 DEF Find, LogPrivate
<1>12. CASE Use(l)
  <2>1. CASE HolderOf(req[l].to) = NoConn
    BY <1>12, <2>1 DEF Use
  <2>2. CASE HolderOf(req[l].to) # NoConn
    <3>1. conn[l] \in Conns /\ req[l].n \in 1..MaxSaid
      BY <1>12, RequestText
         DEF Use, MapType, HandlerInv, HandlerAt, ExitPcs, PrivatePcs
    <3>2. HolderOf(req[l].to) \in Conns
      BY <2>2 DEF MapType
    <3>3. Chat(conn[l], req[l].n) \in Messages
      BY <3>1 DEF Chat, Messages
    <3>4. SendTo(l, HolderOf(req[l].to), Chat(conn[l], req[l].n))
      BY <1>12, <2>2 DEF Use
    <3>5. StreamType' /\ mail' \in [Loops -> Seq(Functors)]
      BY <3>2, <3>3, <3>4, SendToType
    <3> QED
      BY <1>12, <2>2, <3>5 DEF Use
  <2> QED
    BY <2>1, <2>2
<1> QED
  BY <1>1, <1>2, <1>3, <1>4, <1>5, <1>6, <1>7, <1>8, <1>9, <1>10, <1>11,
     <1>12 DEF LoopStep

-----------------------------------------------------------------------------
(* Clients, races and the end leave the maps and the handlers alone.       *)

\* A line a client sends is a request.
LEMMA LineType ==
  ASSUME NEW c \in Conns, NEW line \in Requests, MapType, RestType,
         Send(c, line)
  PROVE  MapType' /\ RestType'
<1>1. inbox' \in [Conns -> Seq(Requests)]
  BY AppendProperties DEF Send, MapType
<1>2. said' \in [Conns -> 0..MaxSaid]
  BY BoundAssumption DEF Send, RestType
<1> QED
  BY <1>1, <1>2
     DEF Send, MapType, RestType, maps, server, handler, stream

\* A step of a client keeps every type.
LEMMA ClientTypeStep ==
  ASSUME MapType, RestType, NEW c \in Conns, ClientStep(c)
  PROVE  MapType' /\ RestType'
<1> USE DEF maps, server, handler, stream
<1>1. CASE Connect(c)
  <2>1. [kind |-> "login", text |-> NameOf[c]] \in Requests
    BY NameAssumption DEF Requests
  <2> QED
    BY <1>1, <2>1 DEF Connect, MapType, RestType
<1>2. ASSUME said[c] < MaxSaid
      PROVE  said[c] + 1 \in 1..MaxSaid
  BY <1>2, BoundAssumption DEF RestType
<1>3. CASE SendGroup(c)
  <2>1. [kind |-> "group", text |-> Junk, n |-> said[c] + 1] \in Requests
    BY <1>2, <1>3 DEF SendGroup, Send, Requests
  <2> QED
    BY <1>3, <2>1, LineType DEF SendGroup
<1>4. CASE SendPrivate(c)
  <2>1. PICK n \in seen[c] \cup {NoName} :
          Send(c, [kind |-> "private", text |-> Junk, to |-> n,
                   n |-> said[c] + 1])
    BY <1>4 DEF SendPrivate
  <2>2. n \in Names \cup {NoName}
    BY <2>1 DEF RestType
  <2>3. [kind |-> "private", text |-> Junk, to |-> n, n |-> said[c] + 1]
          \in Requests
    BY <1>2, <2>1, <2>2 DEF Send, Requests
  <2> QED
    BY <2>1, <2>3, LineType
<1>5. CASE Close(c)
  <2>1. inbox[c] \in Seq(Requests) /\ <<>> \in Seq(Requests)
    BY EmptySeq DEF MapType
  <2>2. inbox' \in [Conns -> Seq(Requests)]
    BY <1>5, <2>1 DEF Close, MapType
  <2> QED
    BY <1>5, <2>2 DEF Close, MapType, RestType
<1> QED
  BY <1>1, <1>3, <1>4, <1>5 DEF ClientStep

\* A client changes nothing of the server.
LEMMA ClientFrame ==
  ASSUME \/ \E c \in Conns : ClientStep(c)
         \/ \E l \in Loops : Race(l)
         \/ UNCHANGED vars
  PROVE  UNCHANGED <<nameConn, connName, ended, pc, conn, req>>
BY DEF ClientStep, Connect, SendGroup, SendPrivate, Send, Close, Race, vars,
       maps, server, handler

-----------------------------------------------------------------------------
\* The invariant holds at the start.
LEMMA RoomInit == Init => RoomInv
<1> SUFFICES ASSUME Init PROVE RoomInv
  OBVIOUS
<1> USE DEF Init
<1>1. MapType
  BY EmptySeq DEF MapType, Pcs
<1>4. RestType
  <2>1. 0 \in 0..MaxSaid
    BY BoundAssumption
  <2>2. got \in [Conns -> [Conns -> 0..MaxSaid]] /\ said \in [Conns -> 0..MaxSaid]
    BY <2>1
  <2>3. mail \in [Loops -> Seq(Functors)]
    BY EmptySeq
  <2> QED
    BY <2>2, <2>3 DEF RestType
<1>2. HandlerInv
  BY DEF HandlerInv, HandlerAt, LoginPcs, TalkPcs, PrivatePcs, ExitPcs
<1>3. NamesLeadHome /\ ExitForgets
  BY DEF NamesLeadHome, ExitForgets
<1> QED
  BY <1>1, <1>2, <1>3, <1>4, TypeParts DEF RoomInv

\* The invariant survives every step.
LEMMA RoomStep == RoomInv /\ [Next]_vars => RoomInv'
<1> SUFFICES ASSUME RoomInv, [Next]_vars PROVE RoomInv'
  OBVIOUS
<1>1. MapType /\ RestType
  BY TypeParts DEF RoomInv
<1>2. ASSUME NEW l \in Loops, LoopStep(l) PROVE RoomInv'
  <2>0. ~crashed
    BY <1>2 DEF LoopStep
  <2>1. TypeOK'
    <3>1. MapType' /\ RestType'
      BY <1>1, <1>2, <2>0, MapTypeStep, RestTypeStep DEF RoomInv
    <3> QED
      BY <3>1 DEF TypeOK, MapType, RestType, Functors
  <2>2. HandlerInv'
    BY <1>1, <1>2, <2>0, OthersStep, OwnStep DEF RoomInv, HandlerInv
  <2>3. NamesLeadHome'
    BY <1>1, <1>2, <2>0, NamesStep DEF RoomInv
  <2>4. ExitForgets'
    <3>1. MapType'
      BY <1>1, <1>2, <2>0, MapTypeStep DEF RoomInv
    <3>2. \A c \in ended' : Idle(c)' => connName'[c] = NoEntry
      BY <1>1, <1>2, <2>0, ForgetStep DEF RoomInv
    <3> QED
      BY <2>3, <3>1, <3>2, ValueAssumption
         DEF MapType, NamesLeadHome, ExitForgets, Idle
  <2> QED
    BY <2>1, <2>2, <2>3, <2>4 DEF RoomInv
<1>3. CASE \/ \E c \in Conns : ClientStep(c)
           \/ \E l \in Loops : Race(l)
           \/ UNCHANGED vars
  <2>1. UNCHANGED <<nameConn, connName, ended, pc, conn, req>>
    BY <1>3, ClientFrame
  <2>2. MapType' /\ RestType'
    <3>1. CASE \E c \in Conns : ClientStep(c)
      BY <1>1, <3>1, ClientTypeStep
    <3>2. CASE (\E l \in Loops : Race(l)) \/ UNCHANGED vars
      BY <1>1, <3>2
         DEF Race, vars, MapType, RestType, maps, server, handler, peer, stream
    <3> QED
      BY <1>3, <3>1, <3>2
  <2>3. HandlerInv'
    BY <2>1 DEF RoomInv, HandlerInv, HandlerAt, Registered
  <2>4. NamesLeadHome' /\ ExitForgets'
    BY <2>1 DEF RoomInv, NamesLeadHome, ExitForgets, Idle
  <2>5. TypeOK'
    BY <2>2 DEF TypeOK, MapType, RestType, Functors
  <2> QED
    BY <2>3, <2>4, <2>5 DEF RoomInv
<1> QED
  BY <1>2, <1>3 DEF Next, Terminated

\* RoomInv is an invariant, with any number of loops.
LEMMA RoomInvariant == SafeSpec => []RoomInv
BY RoomInit, RoomStep, PTL DEF SafeSpec

\* Type correctness, with any number of loops.
THEOREM TypeCorrect == SafeSpec => []TypeOK
<1>1. RoomInv => TypeOK
  BY DEF RoomInv
<1> QED
  BY <1>1, RoomInvariant, PTL

\* Whatever the loops do to the maps at the same time, and whatever races they
\* survive, a name never leads to a connection that does not have it.
THEOREM NamesAlwaysLeadHome == SafeSpec => []NamesLeadHome
<1>1. RoomInv => NamesLeadHome
  BY DEF RoomInv
<1> QED
  BY <1>1, RoomInvariant, PTL

\* No connection stays in the maps, or comes back to them, after its exit.
THEOREM ExitsAreForgotten == SafeSpec => []ExitForgets
<1>1. RoomInv => ExitForgets
  BY DEF RoomInv
<1> QED
  BY <1>1, RoomInvariant, PTL

-----------------------------------------------------------------------------
(* The lines of chat, with any number of loops.                            *)

\* A request that is a line of chat.
IsLine(r) == r.kind \in {"group", "private"}

\* Line n of client d comes before whatever of d has not been sent on yet:
\* what its loop has read and what waits to be read.
BelowAll(d, n) ==
  /\ n <= said[d]
  /\ \A i \in 1..Len(inbox[d]) : IsLine(inbox[d][i]) => n <= inbox[d][i].n
  /\ \A l \in Loops : conn[l] = d /\ IsLine(req[l]) => n <= req[l].n

\* What waits to be read of a client is in the order it was sent.
InboxInv ==
  \A d \in Conns :
    /\ \A i \in 1..Len(inbox[d]) : IsLine(inbox[d][i]) => inbox[d][i].n <= said[d]
    /\ \A i, j \in 1..Len(inbox[d]) :
         i < j /\ IsLine(inbox[d][i]) /\ IsLine(inbox[d][j]) =>
           inbox[d][i].n <= inbox[d][j].n

\* What a loop has read is older than the rest.
ReqInv ==
  \A l \in Loops : conn[l] \in Conns /\ IsLine(req[l]) => BelowAll(conn[l], req[l].n)

\* So is all that anybody has got.
GotInv == \A c, d \in Conns : BelowAll(d, got[c][d])

\* A line is queued on another loop than its sender's only, and its receiver
\* has got none after it.
FunctorAt(l, f) ==
  f.msg.kind = "chat" =>
    /\ LoopOf[f.to] = l /\ LoopOf[f.msg.from] # l
    /\ BelowAll(f.msg.from, f.msg.n)
    /\ got[f.to][f.msg.from] <= f.msg.n

\* Two lines of one client to another are queued in their order.
Follows(f, g) ==
  f.msg.kind = "chat" /\ g.msg.kind = "chat" /\ f.to = g.to /\ f.msg.from = g.msg.from =>
    f.msg.n <= g.msg.n

\* The mail queues, one functor at a time and two at a time.
QueueInv ==
  \A l \in Loops :
    /\ \A i \in 1..Len(mail[l]) : FunctorAt(l, mail[l][i])
    /\ \A i, j \in 1..Len(mail[l]) : i < j => Follows(mail[l][i], mail[l][j])

\* The order of the lines, from the client that types them to the one that
\* gets them.
LinesInv == InboxInv /\ ReqInv /\ GotInv /\ QueueInv

\* What a step may do to got.
Grows == \A c, d \in Conns : got'[c][d] = got[c][d] \/ got'[c][d] > got[c][d]

\* Where nothing is sent the order stays, also when a handler begins or ends.
LEMMA LinesKept ==
  ASSUME LinesInv, UNCHANGED <<inbox, said, mail, got>>,
         \A k \in Loops : (conn'[k] = conn[k] /\ req'[k] = req[k]) \/ ~IsLine(req[k])'
  PROVE  LinesInv'
<1>1. \A d, n : BelowAll(d, n) => /\ n <= said'[d]
                                  /\ \A i \in 1..Len(inbox'[d]) :
                                       IsLine(inbox'[d][i]) => n <= inbox'[d][i].n
                                  /\ \A l \in Loops :
                                       conn'[l] = d /\ IsLine(req'[l]) => n <= req'[l].n
  BY DEF BelowAll, IsLine
<1>2. InboxInv'
  BY DEF LinesInv, InboxInv
<1>3. ReqInv'
  <2> SUFFICES ASSUME NEW l \in Loops, conn'[l] \in Conns, IsLine(req[l])'
               PROVE  BelowAll(conn[l], req[l].n)'
    BY DEF ReqInv
  <2>1. conn'[l] = conn[l] /\ req'[l] = req[l]
    OBVIOUS
  <2>2. BelowAll(conn[l], req[l].n)
    BY <2>1 DEF LinesInv, ReqInv
  <2> QED
    BY <1>1, <2>1, <2>2 DEF BelowAll
<1>4. GotInv'
  <2> SUFFICES ASSUME NEW c \in Conns, NEW d \in Conns
               PROVE  BelowAll(d, got[c][d])'
    BY DEF GotInv
  <2>1. BelowAll(d, got[c][d])
    BY DEF LinesInv, GotInv
  <2> QED
    BY <1>1, <2>1 DEF BelowAll
<1>5. QueueInv'
  <2>1. ASSUME NEW l \in Loops, NEW i \in 1..Len(mail[l])
        PROVE  FunctorAt(l, mail[l][i])'
    <3>1. FunctorAt(l, mail[l][i])
      BY DEF LinesInv, QueueInv
    <3> QED
      BY <1>1, <3>1 DEF FunctorAt, BelowAll
  <2>2. \A l \in Loops : \A i, j \in 1..Len(mail[l]) : i < j => Follows(mail[l][i], mail[l][j])
    BY DEF LinesInv, QueueInv
  <2> QED
    BY <2>1, <2>2 DEF QueueInv, Follows
<1> QED
  BY <1>2, <1>3, <1>4, <1>5 DEF LinesInv

\* The numbers of the lines are natural numbers.
LEMMA LineNumbers ==
  ASSUME TypeOK
  PROVE  /\ \A c, d \in Conns : got[c][d] \in Nat
         /\ \A l \in Loops : IsLine(req[l]) => req[l].n \in Nat
         /\ \A d \in Conns : \A i \in 1..Len(inbox[d]) :
              IsLine(inbox[d][i]) => inbox[d][i].n \in Nat
         /\ \A l \in Loops : \A i \in 1..Len(mail[l]) :
              /\ mail[l][i].to \in Conns /\ mail[l][i].msg \in Messages
              /\ mail[l][i].msg.kind = "chat" =>
                   mail[l][i].msg.from \in Conns /\ mail[l][i].msg.n \in Nat
<1>1. \A c, d \in Conns : got[c][d] \in Nat
  BY BoundAssumption DEF TypeOK
<1>2. \A r \in Requests : IsLine(r) => r.n \in Nat
  BY RequestText DEF IsLine
<1>3. \A l \in Loops : IsLine(req[l]) => req[l].n \in Nat
  BY <1>2 DEF TypeOK, IsLine, Nothing
<1>4. \A d \in Conns : \A i \in 1..Len(inbox[d]) :
        IsLine(inbox[d][i]) => inbox[d][i].n \in Nat
  <2> SUFFICES ASSUME NEW d \in Conns, NEW i \in 1..Len(inbox[d]), IsLine(inbox[d][i])
               PROVE  inbox[d][i].n \in Nat
    OBVIOUS
  <2>1. inbox[d] \in Seq(Requests)
    BY DEF TypeOK
  <2>2. inbox[d][i] \in Requests
    BY <2>1, ElementOfSeq
  <2> QED
    BY <1>2, <2>2
<1>5. \A m \in Messages : m.kind = "chat" => m.from \in Conns /\ m.n \in Nat
  BY DEF Messages
<1>6. \A l \in Loops : \A i \in 1..Len(mail[l]) : mail[l][i] \in [to : Conns, msg : Messages]
  <2> SUFFICES ASSUME NEW l \in Loops, NEW i \in 1..Len(mail[l])
               PROVE  mail[l][i] \in [to : Conns, msg : Messages]
    OBVIOUS
  <2>1. mail[l] \in Seq([to : Conns, msg : Messages])
    BY DEF TypeOK
  <2> QED
    BY <2>1, ElementOfSeq
<1> QED
  BY <1>1, <1>3, <1>4, <1>5, <1>6

\* What a step that sends nothing on may not break: no line that has gone out
\* comes after one that has not.
BelowKept == \A d \in Conns : \A n \in Nat : BelowAll(d, n) => BelowAll(d, n)'

\* Such a step leaves what was received or queued in order.
LEMMA KeptFromBelow ==
  ASSUME TypeOK, LinesInv, BelowKept, UNCHANGED <<mail, got>>
  PROVE  GotInv' /\ QueueInv'
<1>1. GotInv'
  <2> SUFFICES ASSUME NEW c \in Conns, NEW d \in Conns
               PROVE  BelowAll(d, got[c][d])'
    BY DEF GotInv
  <2>1. PICK n \in Nat : n = got[c][d]
    BY LineNumbers
  <2>2. BelowAll(d, n)
    BY <2>1 DEF LinesInv, GotInv
  <2>3. BelowAll(d, n)'
    BY <2>2 DEF BelowKept
  <2> QED
    BY <2>1, <2>3
<1>2. ASSUME NEW l \in Loops, NEW i \in 1..Len(mail[l]), mail[l][i].msg.kind = "chat"
      PROVE  /\ BelowAll(mail[l][i].msg.from, mail[l][i].msg.n)'
             /\ FunctorAt(l, mail[l][i])
  <2>1. PICK d \in Conns, n \in Nat : d = mail[l][i].msg.from /\ n = mail[l][i].msg.n
    BY <1>2, LineNumbers
  <2>2. FunctorAt(l, mail[l][i])
    BY DEF LinesInv, QueueInv
  <2>3. BelowAll(d, n)
    BY <1>2, <2>1, <2>2 DEF FunctorAt
  <2>4. BelowAll(d, n)'
    BY <2>3 DEF BelowKept
  <2> QED
    BY <2>1, <2>2, <2>4
<1>3. \A l \in Loops : \A i, j \in 1..Len(mail[l]) : i < j => Follows(mail[l][i], mail[l][j])
  BY DEF LinesInv, QueueInv
<1>4. \A l \in Loops : \A i \in 1..Len(mail[l]) : FunctorAt(l, mail[l][i])'
  BY <1>2 DEF FunctorAt
<1>5. QueueInv'
  BY <1>3, <1>4 DEF QueueInv, Follows
<1> QED
  BY <1>1, <1>5

\* What Send() and SendInLoop() do to the lines.
LEMMA SendToIs ==
  ASSUME NEW l \in Loops, NEW c \in Conns, NEW m \in Messages, SendTo(l, c, m)
  PROVE  \/ UNCHANGED <<mail, got>>
         \/ /\ LoopOf[c] = l /\ mail' = mail /\ m.kind = "chat"
            /\ got' = [got EXCEPT ![c][m.from] = m.n]
         \/ /\ LoopOf[c] # l /\ got' = got
            /\ mail' = [mail EXCEPT ![LoopOf[c]] = Append(@, [to |-> c, msg |-> m])]
BY DEF SendTo, Write, stream

\* The line a handler is sending on comes before all that its connection has
\* not been sent on yet, and after all that it has.
LEMMA LinesSend ==
  ASSUME TypeOK, HandlerInv, LinesInv, NEW l \in Loops, NEW c \in Conns,
         NEW m \in Messages, SendTo(l, c, m), UNCHANGED <<inbox, said, conn, req>>,
         m.kind = "chat" => m.from = conn[l] /\ IsLine(req[l]) /\ m.n = req[l].n
  PROVE  LinesInv' /\ Grows
<1>1. CASE UNCHANGED <<mail, got>>
  BY <1>1, LinesKept DEF Grows
<1>2. ASSUME m.kind = "chat"
      PROVE  /\ m.from \in Conns /\ m.n \in Nat /\ LoopOf[m.from] = l
             /\ BelowAll(m.from, m.n) /\ got[c][m.from] <= m.n
  <2>1. m.from \in Conns
    BY <1>2 DEF Messages
  <2>2. LoopOf[m.from] = l
    BY <1>2, <2>1, ValueAssumption DEF HandlerInv, HandlerAt
  <2>3. BelowAll(m.from, m.n) /\ m.n \in Nat
    BY <1>2, <2>1, LineNumbers DEF LinesInv, ReqInv
  <2>4. BelowAll(m.from, got[c][m.from])
    BY <2>1 DEF LinesInv, GotInv
  <2>5. got[c][m.from] <= m.n
    BY <1>2, <2>4 DEF BelowAll
  <2> QED
    BY <2>1, <2>2, <2>3, <2>5
<1>3. InboxInv' /\ ReqInv'
  BY DEF LinesInv, InboxInv, ReqInv, BelowAll
<1>4. CASE /\ LoopOf[c] = l /\ mail' = mail /\ m.kind = "chat"
           /\ got' = [got EXCEPT ![c][m.from] = m.n]
  <2>1. /\ m.from \in Conns /\ m.n \in Nat /\ LoopOf[m.from] = l
        /\ BelowAll(m.from, m.n) /\ got[c][m.from] <= m.n
    BY <1>2, <1>4
  <2>2. got'[c][m.from] = m.n
    BY <1>4, <2>1 DEF TypeOK
  <2>3. \A a, b \in Conns : a # c \/ b # m.from => got'[a][b] = got[a][b]
    BY <1>4, <2>1 DEF TypeOK
  <2>4. \A a, b \in Conns : got[a][b] \in Nat
    BY LineNumbers
  <2>5. got'[c][m.from] = got[c][m.from] \/ got'[c][m.from] > got[c][m.from]
    <3>1. got[c][m.from] \in Nat
      BY <2>1, <2>4
    <3> QED
      BY <2>1, <2>2, <3>1
  <2>6. Grows
    BY <2>3, <2>5 DEF Grows
  <2>7. GotInv'
    <3> SUFFICES ASSUME NEW a \in Conns, NEW b \in Conns
                 PROVE  BelowAll(b, got[a][b])'
      BY DEF GotInv
    <3>1. CASE a = c /\ b = m.from
      BY <2>1, <2>2, <3>1 DEF BelowAll
    <3>2. CASE a # c \/ b # m.from
      <4>1. got'[a][b] = got[a][b]
        BY <2>3, <3>2
      <4>2. BelowAll(b, got[a][b])
        BY DEF LinesInv, GotInv
      <4> QED
        BY <4>1, <4>2 DEF BelowAll
    <3> QED
      BY <3>1, <3>2
  <2>8. ASSUME NEW k \in Loops, NEW i \in 1..Len(mail[k])
        PROVE  FunctorAt(k, mail[k][i])'
    <3>1. FunctorAt(k, mail[k][i])
      BY DEF LinesInv, QueueInv
    <3>2. CASE mail[k][i].msg.kind # "chat"
      BY <1>4, <3>2 DEF FunctorAt
    <3>3. CASE mail[k][i].msg.kind = "chat"
      <4>1. mail[k][i].to # c \/ mail[k][i].msg.from # m.from
        BY <1>4, <2>1, <3>1, <3>3 DEF FunctorAt
      <4>2. mail[k][i].to \in Conns /\ mail[k][i].msg.from \in Conns
        BY <3>3, LineNumbers
      <4>3. got'[mail[k][i].to][mail[k][i].msg.from] = got[mail[k][i].to][mail[k][i].msg.from]
        BY <2>3, <4>1, <4>2
      <4> QED
        BY <1>4, <3>1, <3>3, <4>3 DEF FunctorAt, BelowAll
    <3> QED
      BY <3>2, <3>3
  <2>9. \A k \in Loops : \A i, j \in 1..Len(mail[k]) : i < j => Follows(mail[k][i], mail[k][j])
    BY DEF LinesInv, QueueInv
  <2>10. QueueInv'
    BY <1>4, <2>8, <2>9 DEF QueueInv, Follows
  <2> QED
    BY <1>3, <2>6, <2>7, <2>10 DEF LinesInv
<1>5. CASE /\ LoopOf[c] # l /\ got' = got
           /\ mail' = [mail EXCEPT ![LoopOf[c]] = Append(@, [to |-> c, msg |-> m])]
  <2> DEFINE f == [to |-> c, msg |-> m]
  <2>1. LoopOf[c] \in Loops
    BY LoopAssumption
  <2>2. \A k \in Loops : mail[k] \in Seq([to : Conns, msg : Messages])
    BY DEF TypeOK
  <2>3. PICK s \in Seq([to : Conns, msg : Messages]) : s = mail[LoopOf[c]]
    BY <2>1, <2>2
  <2>4. f \in [to : Conns, msg : Messages]
    OBVIOUS
  <2>5. /\ Len(Append(s, f)) = Len(s) + 1
        /\ \A i \in 1..Len(s) : Append(s, f)[i] = s[i]
        /\ Append(s, f)[Len(s) + 1] = f
        /\ Len(s) \in Nat
    BY <2>4, AppendProperties
  <2>6. mail'[LoopOf[c]] = Append(s, f) /\ \A k \in Loops \ {LoopOf[c]} : mail'[k] = mail[k]
    BY <1>5, <2>1, <2>3 DEF TypeOK
  <2>7. GotInv' /\ Grows
    BY <1>5 DEF LinesInv, GotInv, BelowAll, Grows
  <2>8. \A k \in Loops : \A i \in 1..Len(mail[k]) : FunctorAt(k, mail[k][i])
    BY DEF LinesInv, QueueInv
  <2>9. FunctorAt(LoopOf[c], f)
    BY <1>2, <1>5 DEF FunctorAt
  <2>10. ASSUME NEW i \in 1..Len(s)
         PROVE  Follows(s[i], f)
    <3> SUFFICES ASSUME s[i].msg.kind = "chat", m.kind = "chat", s[i].msg.from = m.from
                 PROVE  s[i].msg.n <= m.n
      BY DEF Follows
    <3>1. FunctorAt(LoopOf[c], s[i])
      BY <2>1, <2>3, <2>8
    <3>2. BelowAll(conn[l], s[i].msg.n)
      BY <3>1 DEF FunctorAt
    <3> QED
      BY <3>2 DEF BelowAll
  <2>11. ASSUME NEW k \in Loops, NEW i \in 1..Len(mail'[k])
         PROVE  FunctorAt(k, mail'[k][i])
    <3>1. CASE k # LoopOf[c]
      BY <2>6, <2>8, <3>1
    <3>2. CASE k = LoopOf[c]
      <4>1. i \in 1..Len(s) \/ i = Len(s) + 1
        BY <2>5, <2>6, <3>2
      <4> QED
        BY <2>3, <2>5, <2>6, <2>8, <2>9, <3>2, <4>1
    <3> QED
      BY <3>1, <3>2
  <2>12. ASSUME NEW k \in Loops, NEW i \in 1..Len(mail'[k]), NEW j \in 1..Len(mail'[k]), i < j
         PROVE  Follows(mail'[k][i], mail'[k][j])
    <3>0. \A x, y \in 1..Len(mail[k]) : x < y => Follows(mail[k][x], mail[k][y])
      BY DEF LinesInv, QueueInv
    <3>1. CASE k # LoopOf[c]
      BY <2>6, <2>12, <3>0, <3>1
    <3>2. CASE k = LoopOf[c]
      <4>1. i \in 1..Len(s) /\ (j \in 1..Len(s) \/ j = Len(s) + 1)
        BY <2>5, <2>6, <2>12, <3>2
      <4>2. CASE j \in 1..Len(s)
        <5>1. Follows(s[i], s[j])
          BY <2>3, <2>12, <3>0, <3>2, <4>1, <4>2
        <5> QED
          BY <2>5, <2>6, <3>2, <4>1, <4>2, <5>1
      <4>3. CASE j = Len(s) + 1
        <5>1. Follows(s[i], f)
          BY <2>10, <4>1
        <5> QED
          BY <2>5, <2>6, <3>2, <4>1, <4>3, <5>1
      <4> QED
        BY <4>1, <4>2, <4>3
    <3> QED
      BY <3>1, <3>2
  <2>13. ASSUME NEW k \in Loops, NEW i \in 1..Len(mail'[k])
         PROVE  FunctorAt(k, mail[k][i])'
    <3>1. PICK g : g = mail'[k][i]
      OBVIOUS
    <3>2. FunctorAt(k, g)
      BY <2>11, <3>1
    <3>3. BelowAll(g.msg.from, g.msg.n) => BelowAll(g.msg.from, g.msg.n)'
      BY DEF BelowAll
    <3>4. FunctorAt(k, g)'
      BY <1>5, <3>2, <3>3 DEF FunctorAt
    <3> QED
      BY <3>1, <3>4 DEF FunctorAt, BelowAll
  <2>14. QueueInv'
    BY <2>12, <2>13 DEF QueueInv, Follows
  <2> QED
    BY <1>3, <2>7, <2>14 DEF LinesInv
<1> QED
  BY <1>1, <1>4, <1>5, SendToIs

\* The next functor of a loop: the lines queued behind it are not older, and no
\* other loop sends to its receiver.
LEMMA LinesRunMail ==
  ASSUME TypeOK, LinesInv, NEW l \in Loops, RunMail(l)
  PROVE  LinesInv' /\ Grows
<1>1. PICK q \in Seq([to : Conns, msg : Messages]) : q = mail[l]
  BY DEF TypeOK
<1>2. /\ q # <<>> /\ mail' = [mail EXCEPT ![l] = Tail(q)]
      /\ Write(Head(q).to, Head(q).msg) /\ UNCHANGED <<inbox, said, conn, req>>
  BY <1>1 DEF RunMail, TypeOK, handler, peer
<1>3. /\ 1 \in 1..Len(q) /\ Head(q) = q[1]
      /\ Len(Tail(q)) = Len(q) - 1 /\ Len(q) \in Nat
      /\ \A i \in 1..Len(Tail(q)) : i + 1 \in 1..Len(q) /\ Tail(q)[i] = q[i + 1]
  BY <1>1, <1>2, HeadTailProperties
<1>4. PICK f \in [to : Conns, msg : Messages] : f = q[1]
  BY <1>3, ElementOfSeq
<1>5. mail'[l] = Tail(q) /\ \A k \in Loops \ {l} : mail'[k] = mail[k]
  BY <1>2 DEF TypeOK
<1>6. \A k \in Loops :
        /\ \A i \in 1..Len(mail[k]) : FunctorAt(k, mail[k][i])
        /\ \A i, j \in 1..Len(mail[k]) : i < j => Follows(mail[k][i], mail[k][j])
  BY DEF LinesInv, QueueInv
<1>7. FunctorAt(l, f)
  BY <1>1, <1>3, <1>4, <1>6
<1>8. \A i \in 1..Len(Tail(q)) : FunctorAt(l, Tail(q)[i]) /\ Follows(f, Tail(q)[i])
  BY <1>1, <1>3, <1>4, <1>6
<1>9. \A i, j \in 1..Len(Tail(q)) : i < j => Follows(Tail(q)[i], Tail(q)[j])
  BY <1>1, <1>3, <1>6
<1>10. \A k \in Loops : \A i, j \in 1..Len(mail'[k]) :
         i < j => Follows(mail'[k][i], mail'[k][j])
  BY <1>5, <1>6, <1>9
<1>11. InboxInv' /\ ReqInv'
  BY <1>2 DEF LinesInv, InboxInv, ReqInv, BelowAll
<1>12. \A d, n : BelowAll(d, n) => BelowAll(d, n)'
  BY <1>2 DEF BelowAll
<1>13. \/ got' = got
       \/ f.msg.kind = "chat" /\ got' = [got EXCEPT ![f.to][f.msg.from] = f.msg.n]
  BY <1>2, <1>3, <1>4 DEF Write, stream
<1>14. CASE got' = got
  <2>1. GotInv' /\ Grows
    BY <1>2, <1>14 DEF LinesInv, GotInv, BelowAll, Grows
  <2>2. ASSUME NEW k \in Loops, NEW i \in 1..Len(mail'[k])
        PROVE  FunctorAt(k, mail[k][i])'
    <3>1. PICK g : g = mail'[k][i]
      OBVIOUS
    <3>2. FunctorAt(k, g)
      BY <1>5, <1>6, <1>8, <3>1
    <3>3. FunctorAt(k, g)'
      BY <1>12, <1>14, <3>2 DEF FunctorAt
    <3> QED
      BY <3>1, <3>3 DEF FunctorAt, BelowAll
  <2>3. QueueInv'
    BY <1>10, <2>2 DEF QueueInv, Follows
  <2> QED
    BY <1>11, <2>1, <2>3 DEF LinesInv
<1>15. CASE /\ f.msg.kind = "chat"
            /\ got' = [got EXCEPT ![f.to][f.msg.from] = f.msg.n]
  <2>1. PICK c \in Conns, d \in Conns, n \in Nat : c = f.to /\ d = f.msg.from /\ n = f.msg.n
    BY <1>1, <1>3, <1>4, <1>15, LineNumbers
  <2>2. LoopOf[c] = l /\ LoopOf[d] # l /\ BelowAll(d, n) /\ got[c][d] <= n
    BY <1>7, <1>15, <2>1 DEF FunctorAt
  <2>3. got'[c][d] = n /\ \A a, b \in Conns : a # c \/ b # d => got'[a][b] = got[a][b]
    BY <1>15, <2>1 DEF TypeOK
  <2>4. got[c][d] \in Nat
    BY LineNumbers
  <2>5. got'[c][d] = got[c][d] \/ got'[c][d] > got[c][d]
    BY <2>2, <2>3, <2>4
  <2>6. Grows
    BY <2>3, <2>5 DEF Grows
  <2>7. GotInv'
    <3> SUFFICES ASSUME NEW a \in Conns, NEW b \in Conns
                 PROVE  BelowAll(b, got[a][b])'
      BY DEF GotInv
    <3>1. CASE a = c /\ b = d
      BY <1>12, <2>2, <2>3, <3>1 DEF BelowAll
    <3>2. CASE a # c \/ b # d
      <4>1. got'[a][b] = got[a][b]
        BY <2>3, <3>2
      <4>2. BelowAll(b, got[a][b])
        BY DEF LinesInv, GotInv
      <4> QED
        BY <1>2, <4>1, <4>2 DEF BelowAll
    <3> QED
      BY <3>1, <3>2
  <2>8. \A k \in Loops : \A i \in 1..Len(mail'[k]) : mail'[k][i].msg.kind = "chat" =>
          mail'[k][i].to \in Conns /\ mail'[k][i].msg.from \in Conns
    <3>1. \A k \in Loops : \A i \in 1..Len(mail[k]) : mail[k][i].msg.kind = "chat" =>
            mail[k][i].to \in Conns /\ mail[k][i].msg.from \in Conns
      BY LineNumbers
    <3> QED
      <4> SUFFICES ASSUME NEW k \in Loops, NEW i \in 1..Len(mail'[k]),
                          mail'[k][i].msg.kind = "chat"
                   PROVE  mail'[k][i].to \in Conns /\ mail'[k][i].msg.from \in Conns
        OBVIOUS
      <4>1. CASE k = l
        <5>1. i \in 1..Len(Tail(q)) /\ mail'[k][i] = Tail(q)[i]
          BY <1>5, <4>1
        <5>2. i + 1 \in 1..Len(mail[l]) /\ mail'[k][i] = mail[l][i + 1]
          BY <1>1, <1>3, <5>1
        <5> QED
          BY <3>1, <4>1, <5>2
      <4>2. CASE k # l
        BY <1>5, <3>1, <4>2
      <4> QED
        BY <4>1, <4>2
  <2>9. ASSUME NEW k \in Loops, NEW i \in 1..Len(mail'[k])
        PROVE  FunctorAt(k, mail[k][i])'
    <3>1. PICK g : g = mail'[k][i]
      OBVIOUS
    <3>2. FunctorAt(k, g) /\ (k = l => Follows(f, g))
      BY <1>5, <1>6, <1>8, <3>1
    <3>3. FunctorAt(k, g)'
      <4> SUFFICES ASSUME g.msg.kind = "chat" PROVE FunctorAt(k, g)'
        BY DEF FunctorAt
      <4>1. BelowAll(g.msg.from, g.msg.n)'
        BY <1>12, <3>2 DEF FunctorAt
      <4>2. LoopOf[g.to] = k /\ LoopOf[g.msg.from] # k
        BY <3>2 DEF FunctorAt
      <4>3. g.to \in Conns /\ g.msg.from \in Conns
        BY <2>8, <3>1
      <4>4. CASE g.to = c /\ g.msg.from = d
        <5>1. n <= g.msg.n
          BY <1>15, <2>1, <2>2, <3>2, <4>2, <4>4 DEF Follows
        <5> QED
          BY <2>3, <4>1, <4>2, <4>4, <5>1 DEF FunctorAt
      <4>5. CASE g.to # c \/ g.msg.from # d
        <5>1. got'[g.to][g.msg.from] = got[g.to][g.msg.from]
          BY <2>3, <4>3, <4>5
        <5> QED
          BY <3>2, <4>1, <4>2, <5>1 DEF FunctorAt
      <4> QED
        BY <4>4, <4>5
    <3> QED
      BY <3>1, <3>3 DEF FunctorAt, BelowAll
  <2>10. QueueInv'
    BY <1>10, <2>9 DEF QueueInv, Follows
  <2> QED
    BY <1>11, <2>6, <2>7, <2>10 DEF LinesInv
<1> QED
  BY <1>13, <1>14, <1>15

\* What a loop reads comes before what waits to be read, and its connection
\* has no handler on another loop.
LEMMA LinesHandleRead ==
  ASSUME TypeOK, HandlerInv, LinesInv, NEW l \in Loops, HandleRead(l)
  PROVE  LinesInv'
<1>1. UNCHANGED <<mail, got, said>>
  BY DEF HandleRead, stream
<1>2. PICK c \in OnLoop(l) :
        \E k \in 1..Len(inbox[c]) :
          /\ Enter(l, c, "isNewClient", Head(inbox[c]))
          /\ inbox' = [inbox EXCEPT ![c] = SubSeq(@, k + 1, Len(@))]
  BY DEF HandleRead
<1>3. PICK k \in 1..Len(inbox[c]) :
        /\ Enter(l, c, "isNewClient", Head(inbox[c]))
        /\ inbox' = [inbox EXCEPT ![c] = SubSeq(@, k + 1, Len(@))]
  BY <1>2
<1>4. c \in Conns /\ LoopOf[c] = l
  BY DEF OnLoop
<1>5. PICK q \in Seq(Requests) : q = inbox[c]
  BY <1>4 DEF TypeOK
<1>6. Len(q) \in Nat /\ 1 \in 1..Len(q) /\ k \in 1..Len(q) /\ Head(q) = q[1]
  BY <1>3, <1>5, LenProperties
<1>7. PICK r : r = SubSeq(q, k + 1, Len(q))
  OBVIOUS
<1>8. Len(r) \in Nat /\ \A i \in 1..Len(r) : i + k \in 1..Len(q) /\ r[i] = q[i + k]
  <2>1. Len(r) = Len(q) - k /\ \A i \in 1..Len(r) : r[i] = q[i + k]
    BY <1>5, <1>6, <1>7, SubSeqProperties
  <2> QED
    BY <1>6, <2>1
<1>9. inbox'[c] = r /\ \A d \in Conns \ {c} : inbox'[d] = inbox[d]
  BY <1>3, <1>4, <1>5, <1>7 DEF TypeOK
<1>10. /\ conn'[l] = c /\ req'[l] = q[1]
       /\ \A j \in Loops \ {l} : conn'[j] = conn[j] /\ req'[j] = req[j] /\ conn[j] # c
  <2>1. /\ conn'[l] = c /\ req'[l] = q[1]
        /\ \A j \in Loops \ {l} : conn'[j] = conn[j] /\ req'[j] = req[j]
    BY <1>3, <1>5, <1>6 DEF Enter, TypeOK
  <2>2. \A j \in Loops \ {l} : conn[j] # c
    BY <1>4, ValueAssumption DEF HandlerInv, HandlerAt
  <2> QED
    BY <2>1, <2>2
<1>11. /\ \A i \in 1..Len(q) : IsLine(q[i]) => q[i].n <= said[c]
       /\ \A i, j \in 1..Len(q) : i < j /\ IsLine(q[i]) /\ IsLine(q[j]) => q[i].n <= q[j].n
  BY <1>4, <1>5 DEF LinesInv, InboxInv
<1>12. InboxInv'
  <2> SUFFICES ASSUME NEW d \in Conns
               PROVE  /\ \A i \in 1..Len(inbox'[d]) :
                           IsLine(inbox'[d][i]) => inbox'[d][i].n <= said'[d]
                      /\ \A i, j \in 1..Len(inbox'[d]) :
                           i < j /\ IsLine(inbox'[d][i]) /\ IsLine(inbox'[d][j]) =>
                             inbox'[d][i].n <= inbox'[d][j].n
    BY DEF InboxInv, IsLine
  <2>1. CASE d = c
    <3>1. \A i, j \in 1..Len(r) : i < j => i + k < j + k
      BY <1>6, <1>8
    <3> QED
      BY <1>1, <1>8, <1>9, <1>11, <2>1, <3>1
  <2>2. CASE d # c
    BY <1>1, <1>9, <2>2 DEF LinesInv, InboxInv
  <2> QED
    BY <2>1, <2>2
<1>13. BelowKept
  <2> SUFFICES ASSUME NEW d \in Conns, NEW n \in Nat, BelowAll(d, n)
               PROVE  BelowAll(d, n)'
    BY DEF BelowKept
  <2>1. \A i \in 1..Len(inbox'[d]) : IsLine(inbox'[d][i]) => n <= inbox'[d][i].n
    <3>1. \A i \in 1..Len(inbox[d]) : IsLine(inbox[d][i]) => n <= inbox[d][i].n
      BY DEF BelowAll
    <3>2. CASE d = c
      BY <1>5, <1>8, <1>9, <3>1, <3>2
    <3>3. CASE d # c
      BY <1>9, <3>1, <3>3
    <3> QED
      BY <3>2, <3>3
  <2>2. \A j \in Loops : conn'[j] = d /\ IsLine(req'[j]) => n <= req'[j].n
    BY <1>5, <1>6, <1>10 DEF BelowAll
  <2> QED
    BY <1>1, <2>1, <2>2 DEF BelowAll, IsLine
<1>14. ReqInv'
  <2> SUFFICES ASSUME NEW j \in Loops, conn'[j] \in Conns, IsLine(req[j])'
               PROVE  BelowAll(conn[j], req[j].n)'
    BY DEF ReqInv
  <2>1. CASE j = l
    <3>1. IsLine(q[1]) /\ q[1].n \in Nat
      <4>1. IsLine(q[1])
        BY <1>10, <2>1 DEF IsLine
      <4> QED
        BY <1>4, <1>5, <1>6, <4>1, LineNumbers
    <3>2. \A i \in 1..Len(r) : IsLine(r[i]) => q[1].n <= r[i].n
      <4>1. \A i \in 1..Len(r) : 1 < i + k
        BY <1>6, <1>8
      <4> QED
        BY <1>6, <1>8, <1>11, <3>1, <4>1
    <3>3. \A i \in Loops : conn'[i] = c => req'[i].n = q[1].n
      BY <1>10
    <3>4. q[1].n <= said[c] /\ q[1].n <= q[1].n
      BY <1>6, <1>11, <3>1
    <3> QED
      BY <1>1, <1>9, <1>10, <2>1, <3>2, <3>3, <3>4 DEF BelowAll, IsLine
  <2>2. CASE j # l
    <3>1. conn'[j] = conn[j] /\ req'[j] = req[j] /\ conn[j] # c /\ IsLine(req[j])
      BY <1>10, <2>2 DEF IsLine
    <3>2. BelowAll(conn[j], req[j].n) /\ req[j].n \in Nat
      BY <3>1, LineNumbers DEF LinesInv, ReqInv
    <3>3. conn[j] \in Conns
      BY <3>1
    <3>4. PICK d \in Conns, n \in Nat : d = conn[j] /\ n = req[j].n
      BY <3>2, <3>3
    <3>5. BelowAll(d, n)'
      BY <1>13, <3>2, <3>4 DEF BelowKept
    <3> QED
      BY <3>1, <3>4, <3>5
  <2> QED
    BY <2>1, <2>2
<1> QED
  BY <1>1, <1>12, <1>13, <1>14, KeptFromBelow DEF LinesInv

\* A step of a loop keeps the order of the lines, and sends none on that is
\* older than what its receiver has got.
LEMMA LinesLoopStep ==
  ASSUME RoomInv, LinesInv, NEW l \in Loops, LoopStep(l)
  PROVE  LinesInv' /\ Grows
<1> USE DEF maps, server, handler, stream, peer, At, Goto, Return, Enter
<1>0. TypeOK /\ HandlerInv /\ MapType /\ HandlerAt(l)
  BY TypeParts DEF RoomInv, HandlerInv
<1>1. ASSUME UNCHANGED <<inbox, said, mail, got>>,
             \A k \in Loops : (conn'[k] = conn[k] /\ req'[k] = req[k]) \/ ~IsLine(req[k])'
      PROVE  LinesInv' /\ Grows
  BY <1>1, LinesKept DEF Grows
<1>2. CASE RunMail(l)
  BY <1>0, <1>2, LinesRunMail
<1>3. CASE HandleRead(l)
  <2>1. LinesInv'
    BY <1>0, <1>3, LinesHandleRead
  <2> QED
    BY <1>3, <2>1 DEF HandleRead, Grows
<1>4. CASE HandleClose(l)
  <2>1. \A k \in Loops : (conn'[k] = conn[k] /\ req'[k] = req[k]) \/ ~IsLine(req[k])'
    BY <1>0, <1>4 DEF HandleClose, IsLine, Nothing, MapType
  <2> QED
    BY <1>1, <1>4, <2>1 DEF HandleClose
<1>5. ASSUME \A k \in Loops : (conn'[k] = conn[k] /\ req'[k] = req[k]) \/ req'[k] = Nothing
      PROVE  \A k \in Loops : (conn'[k] = conn[k] /\ req'[k] = req[k]) \/ ~IsLine(req[k])'
  BY <1>5 DEF IsLine, Nothing
<1>6. CASE Establish(l) \/ IsNewClient(l) \/ SendList(l) \/ IsNewName(l)
           \/ BeginAnnounce(l) \/ UserExit(l)
  BY <1>1, <1>6
     DEF Establish, IsNewClient, SendList, IsNewName, BeginAnnounce, UserExit
<1>7. CASE RefuseName(l) \/ AnnounceDone(l) \/ Insert(l) \/ Erase(l) \/ Forget(l)
           \/ Find(l) \/ LogPrivate(l)
  <2>1. \A k \in Loops : (conn'[k] = conn[k] /\ req'[k] = req[k]) \/ req'[k] = Nothing
    BY <1>0, <1>7
       DEF RefuseName, AnnounceDone, Insert, Erase, Forget, Find, LogPrivate, MapType,
           Broadcasting
  <2>2. UNCHANGED <<inbox, said, mail, got>>
    BY <1>7 DEF RefuseName, AnnounceDone, Insert, Erase, Forget, Find, LogPrivate
  <2> QED
    BY <1>1, <1>5, <2>1, <2>2
<1>8. CASE Announce(l)
  <2>1. PICK c \in todo[l] : SendTo(l, c, Announcement(l))
    BY <1>8 DEF Announce
  <2>2. PICK m \in Messages : m = Announcement(l)
    BY <1>0, <1>8, AnnouncementType DEF Announce
  <2>3. c \in Conns
    BY <1>0 DEF TypeOK
  <2>4. m.kind = "chat" => m.from = conn[l] /\ IsLine(req[l]) /\ m.n = req[l].n
    BY <1>0, <1>8, <2>2
       DEF Announce, Announcement, GroupMsg, Broadcasting, Joined, Left, Chat, HandlerAt, TalkPcs, IsLine
  <2>5. UNCHANGED <<inbox, said, conn, req>>
    BY <1>8 DEF Announce
  <2> QED
    BY <1>0, <2>1, <2>2, <2>3, <2>4, <2>5, LinesSend
<1>9. CASE Use(l)
  <2>1. CASE HolderOf(req[l].to) = NoConn
    BY <1>1, <1>9, <2>1 DEF Use
  <2>2. CASE HolderOf(req[l].to) # NoConn
    <3>1. HolderOf(req[l].to) \in Conns
      BY <1>0, <2>2 DEF MapType
    <3>2. PICK c \in Conns : c = HolderOf(req[l].to)
      BY <3>1
    <3>3. conn[l] \in Conns /\ req[l].n \in 1..MaxSaid /\ IsLine(req[l])
      BY <1>0, <1>9, RequestText
         DEF Use, MapType, HandlerAt, ExitPcs, PrivatePcs, IsLine
    <3>4. PICK m \in Messages : m = Chat(conn[l], req[l].n)
      BY <3>3 DEF Chat, Messages
    <3>5. SendTo(l, c, m)
      BY <1>9, <2>2, <3>2, <3>4 DEF Use
    <3>6. m.from = conn[l] /\ IsLine(req[l]) /\ m.n = req[l].n
      BY <3>3, <3>4 DEF Chat
    <3>7. UNCHANGED <<inbox, said, conn, req>>
      BY <1>9 DEF Use
    <3> QED
      BY <1>0, <3>5, <3>6, <3>7, LinesSend
  <2> QED
    BY <2>1, <2>2
<1> QED
  BY <1>2, <1>3, <1>4, <1>6, <1>7, <1>8, <1>9 DEF LoopStep

\* A client numbers its lines upwards, so that a new one comes after all its
\* others, wherever they are.
LEMMA LinesTyped ==
  ASSUME TypeOK, LinesInv, NEW c \in Conns, NEW line, IsLine(line),
         line.n = said[c] + 1, Send(c, line)
  PROVE  LinesInv'
<1>1. UNCHANGED <<conn, req, mail, got>>
  BY DEF Send, handler, stream
<1>2. PICK q \in Seq(Requests) : q = inbox[c]
  BY DEF TypeOK
<1>3. PICK r : r = Append(q, line)
  OBVIOUS
<1>4. /\ Len(q) \in Nat /\ Len(r) = Len(q) + 1
      /\ \A i \in 1..Len(q) : r[i] = q[i]
      /\ r[Len(q) + 1] = line
  BY <1>2, <1>3
<1>5. inbox'[c] = r /\ \A d \in Conns \ {c} : inbox'[d] = inbox[d]
  BY <1>2, <1>3 DEF Send, TypeOK
<1>6. /\ \A d \in Conns : said[d] \in Nat
      /\ said'[c] = said[c] + 1 /\ \A d \in Conns \ {c} : said'[d] = said[d]
  BY BoundAssumption DEF Send, TypeOK
<1>7. /\ \A i \in 1..Len(q) : IsLine(q[i]) => q[i].n \in Nat /\ q[i].n <= said[c]
      /\ \A i, j \in 1..Len(q) : i < j /\ IsLine(q[i]) /\ IsLine(q[j]) => q[i].n <= q[j].n
  BY <1>2, LineNumbers DEF LinesInv, InboxInv
<1>8. \A n \in Nat : n <= said[c] => n <= said[c] + 1
  BY <1>6
<1>9. \A i \in 1..Len(r) : i \in 1..Len(q) \/ i = Len(q) + 1
  BY <1>4
<1>10. InboxInv'
  <2> SUFFICES ASSUME NEW d \in Conns
               PROVE  /\ \A i \in 1..Len(inbox'[d]) :
                           IsLine(inbox'[d][i]) => inbox'[d][i].n <= said'[d]
                      /\ \A i, j \in 1..Len(inbox'[d]) :
                           i < j /\ IsLine(inbox'[d][i]) /\ IsLine(inbox'[d][j]) =>
                             inbox'[d][i].n <= inbox'[d][j].n
    BY DEF InboxInv, IsLine
  <2>1. CASE d = c
    <3>1. \A i \in 1..Len(r) : IsLine(r[i]) => r[i].n <= said[c] + 1
      BY <1>4, <1>6, <1>7, <1>8, <1>9
    <3>2. ASSUME NEW i \in 1..Len(r), NEW j \in 1..Len(r), i < j, IsLine(r[i]), IsLine(r[j])
          PROVE  r[i].n <= r[j].n
      <4>1. i \in 1..Len(q)
        BY <1>4, <3>2
      <4>2. CASE j \in 1..Len(q)
        BY <1>4, <1>7, <3>2, <4>1, <4>2
      <4>3. CASE j = Len(q) + 1
        BY <1>4, <3>1, <3>2, <4>3
      <4> QED
        BY <1>9, <4>2, <4>3
    <3> QED
      BY <1>5, <1>6, <2>1, <3>1, <3>2
  <2>2. CASE d # c
    BY <1>5, <1>6, <2>2 DEF LinesInv, InboxInv
  <2> QED
    BY <2>1, <2>2
<1>11. BelowKept
  <2> SUFFICES ASSUME NEW d \in Conns, NEW n \in Nat, BelowAll(d, n)
               PROVE  BelowAll(d, n)'
    BY DEF BelowKept
  <2>1. n <= said[d] /\ \A i \in 1..Len(inbox[d]) : IsLine(inbox[d][i]) => n <= inbox[d][i].n
    BY DEF BelowAll
  <2>2. n <= said'[d]
    BY <1>6, <1>8, <2>1
  <2>3. \A i \in 1..Len(inbox'[d]) : IsLine(inbox'[d][i]) => n <= inbox'[d][i].n
    <3>1. CASE d = c
      <4>1. n <= line.n
        BY <1>8, <2>1, <3>1
      <4> QED
        BY <1>2, <1>4, <1>5, <1>9, <2>1, <3>1, <4>1
    <3>2. CASE d # c
      BY <1>5, <2>1, <3>2
    <3> QED
      BY <3>1, <3>2
  <2> QED
    BY <1>1, <2>2, <2>3 DEF BelowAll, IsLine
<1>12. ReqInv'
  <2> SUFFICES ASSUME NEW j \in Loops, conn'[j] \in Conns, IsLine(req[j])'
               PROVE  BelowAll(conn[j], req[j].n)'
    BY DEF ReqInv
  <2>1. conn'[j] = conn[j] /\ req'[j] = req[j] /\ IsLine(req[j])
    BY <1>1 DEF IsLine
  <2>2. BelowAll(conn[j], req[j].n) /\ req[j].n \in Nat
    BY <2>1, LineNumbers DEF LinesInv, ReqInv
  <2>3. PICK d \in Conns, n \in Nat : d = conn[j] /\ n = req[j].n
    BY <2>1, <2>2
  <2>4. BelowAll(d, n)'
    BY <1>11, <2>2, <2>3 DEF BelowKept
  <2> QED
    BY <2>1, <2>3, <2>4
<1> QED
  BY <1>1, <1>10, <1>11, <1>12, KeptFromBelow DEF LinesInv

\* A client that logs in or goes away has fewer lines to be read.
LEMMA LinesFewer ==
  ASSUME TypeOK, LinesInv, NEW c \in Conns, UNCHANGED <<said, mail, got, conn, req>>,
         NEW s \in Seq(Requests), inbox' = [inbox EXCEPT ![c] = s],
         s = inbox[c] \/ \A i \in 1..Len(s) : ~IsLine(s[i])
  PROVE  LinesInv'
<1>1. inbox'[c] = s /\ \A d \in Conns \ {c} : inbox'[d] = inbox[d]
  BY DEF TypeOK
<1>2. \A d \in Conns : inbox'[d] = inbox[d] \/ \A i \in 1..Len(inbox'[d]) : ~IsLine(inbox'[d][i])
  BY <1>1
<1>3. InboxInv'
  BY <1>2 DEF LinesInv, InboxInv, IsLine
<1>4. \A d \in Conns : \A n : BelowAll(d, n) => BelowAll(d, n)'
  BY <1>2 DEF BelowAll, IsLine
<1>5. BelowKept
  BY <1>4 DEF BelowKept
<1>6. ReqInv'
  <2> SUFFICES ASSUME NEW j \in Loops, conn'[j] \in Conns, IsLine(req[j])'
               PROVE  BelowAll(conn[j], req[j].n)'
    BY DEF ReqInv
  <2>1. PICK d, n : d = conn[j] /\ n = req[j].n
    OBVIOUS
  <2>2. d \in Conns /\ IsLine(req[j])
    BY <2>1 DEF IsLine
  <2>3. BelowAll(d, n)
    BY <2>1, <2>2 DEF LinesInv, ReqInv
  <2>4. BelowAll(d, n)'
    BY <1>4, <2>2, <2>3
  <2> QED
    BY <2>1, <2>4
<1> QED
  BY <1>3, <1>5, <1>6, KeptFromBelow DEF LinesInv

\* A step of a client keeps the order, and nothing is received by it.
LEMMA LinesClientStep ==
  ASSUME TypeOK, LinesInv, NEW c \in Conns, ClientStep(c)
  PROVE  LinesInv' /\ Grows
<1>1. UNCHANGED <<got, mail, conn, req>>
  BY DEF ClientStep, Connect, SendGroup, SendPrivate, Send, Close, handler, stream
<1>2. Grows
  BY <1>1 DEF Grows
<1>3. CASE Connect(c)
  <2>1. PICK s : s = <<[kind |-> "login", text |-> NameOf[c]]>>
    OBVIOUS
  <2>2. s \in Seq(Requests) /\ \A i \in 1..Len(s) : ~IsLine(s[i])
    BY <2>1, NameAssumption DEF Requests, IsLine
  <2> QED
    BY <1>1, <1>2, <1>3, <2>1, <2>2, LinesFewer DEF Connect
<1>4. CASE SendGroup(c)
  <2>1. PICK line : line = [kind |-> "group", text |-> Junk, n |-> said[c] + 1]
    OBVIOUS
  <2> QED
    BY <1>2, <1>4, <2>1, LinesTyped DEF SendGroup, IsLine
<1>5. CASE SendPrivate(c)
  <2>1. PICK n \in Addressees(c) :
          Send(c, [kind |-> "private", text |-> Junk, to |-> n, n |-> said[c] + 1])
    BY <1>5 DEF SendPrivate
  <2>2. PICK line :
          line = [kind |-> "private", text |-> Junk, to |-> n, n |-> said[c] + 1]
    OBVIOUS
  <2> QED
    BY <1>2, <2>1, <2>2, LinesTyped DEF IsLine
<1>6. CASE Close(c)
  <2>1. PICK s \in {inbox[c], <<>>} : inbox' = [inbox EXCEPT ![c] = s]
    BY <1>6 DEF Close
  <2>2. s \in Seq(Requests) /\ (s = inbox[c] \/ \A i \in 1..Len(s) : ~IsLine(s[i]))
    <3>1. CASE s = inbox[c]
      BY <3>1 DEF TypeOK
    <3>2. CASE s = <<>>
      <4>1. Len(s) = 0 /\ s \in Seq(Requests)
        BY <3>2, EmptySeq
      <4> QED
        BY <4>1
    <3> QED
      BY <2>1, <3>1, <3>2
  <2>3. said' = said
    BY <1>6 DEF Close
  <2> QED
    BY <1>1, <1>2, <2>1, <2>2, <2>3, LinesFewer
<1> QED
  BY <1>3, <1>4, <1>5, <1>6 DEF ClientStep

\* Nobody has said anything yet.
LEMMA LinesInit == Init => LinesInv
<1> SUFFICES ASSUME Init PROVE LinesInv
  OBVIOUS
<1>1. \A d \in Conns : \A n : n = 0 => BelowAll(d, n)
  BY DEF Init, BelowAll, IsLine, Nothing
<1> QED
  BY <1>1 DEF Init, LinesInv, InboxInv, ReqInv, GotInv, QueueInv, IsLine, Nothing

\* Every step keeps the order of the lines.
LEMMA LinesStep == RoomInv /\ LinesInv /\ [Next]_vars => LinesInv' /\ Grows
<1> SUFFICES ASSUME RoomInv, LinesInv, [Next]_vars PROVE LinesInv' /\ Grows
  OBVIOUS
<1>1. ASSUME NEW l \in Loops, LoopStep(l) PROVE LinesInv' /\ Grows
  BY <1>1, LinesLoopStep
<1>2. ASSUME NEW c \in Conns, ClientStep(c) PROVE LinesInv' /\ Grows
  BY <1>2, LinesClientStep DEF RoomInv
<1>3. CASE (\E l \in Loops : Race(l)) \/ UNCHANGED vars
  <2>1. UNCHANGED <<inbox, said, mail, got, conn, req>>
    BY <1>3 DEF Race, vars, handler, peer, stream
  <2> QED
    BY <2>1, LinesKept DEF Grows
<1> QED
  BY <1>1, <1>2, <1>3 DEF Next, Terminated

\* The lines of one client reach each other one in the order they were sent,
\* with any number of loops, clients and lines.
THEOREM LinesStayInOrder == SafeSpec => LinesInOrder
<1>1. Init => RoomInv /\ LinesInv
  BY RoomInit, LinesInit
<1>2. RoomInv /\ LinesInv /\ [Next]_vars => (RoomInv /\ LinesInv)'
  BY RoomStep, LinesStep
<1>3. RoomInv /\ LinesInv /\ [Next]_vars =>
        [\A c, d \in Conns : got'[c][d] # got[c][d] => got'[c][d] > got[c][d]]_got
  BY LinesStep DEF Grows
<1> QED
  BY <1>1, <1>2, <1>3, PTL DEF SafeSpec, LinesInOrder

-----------------------------------------------------------------------------
(* One loop: set_thread_num(0) or (1), where the handlers do not overlap.  *)

\* There is one loop.
OneLoop == \A k, l \in Loops : k = l

\* What a handler has read of name_conn_map_ is still true when it acts on it.
\* With several loops it is not, and everything below fails.
StillTrue ==
  \A l \in Loops :
    /\ pc[l] \in {"toJoin", "joining", "insert"} => nameConn[req[l].text] = NoConn
    /\ pc[l] \in {"use", "log"} =>
         req[l].to \in Names /\ nameConn[req[l].to] # NoConn

\* What holds there.
OneLoopInv == RoomInv /\ MapsAgree /\ StillTrue /\ NoCrash

\* On one loop a name found free is still free when it is inserted, so that the
\* maps stay inverses of each other.
LEMMA OneLoopNames ==
  ASSUME OneLoop, OneLoopInv, NEW l \in Loops, LoopStep(l)
  PROVE  MapsAgree'
<1> USE DEF OneLoopInv, RoomInv, TypeOK, MapsAgree, maps
<1>0. HandlerAt(l)
  BY DEF HandlerInv
<1>1. CASE UNCHANGED maps
  BY <1>1
<1>2. CASE IsNewClient(l) \/ UserExit(l)
  BY <1>2, ValueAssumption DEF IsNewClient, UserExit, Registered
<1>3. CASE Insert(l)
  <2>1. /\ conn[l] \in Conns /\ req[l].text \in Names
        /\ connName[conn[l]] \notin Names
        /\ nameConn[req[l].text] = NoConn
    BY <1>0, <1>3, RequestText
       DEF Insert, At, HandlerAt, ExitPcs, LoginPcs, Registered, StillTrue
  <2> QED
    BY <1>3, <2>1, ValueAssumption DEF Insert
<1>4. CASE Erase(l)
  <2>1. conn[l] \in Conns /\ connName[conn[l]] \in Names
    BY <1>0, <1>4 DEF Erase, At, HandlerAt, Registered
  <2> QED
    BY <1>4, <2>1, ValueAssumption DEF Erase
<1>5. CASE Forget(l)
  <2>1. conn[l] \in Conns /\ connName[conn[l]] \notin Names
    BY <1>0, <1>5 DEF Forget, At, HandlerAt, Registered
  <2> QED
    BY <1>5, <2>1, ValueAssumption DEF Forget
<1> QED
  BY <1>1, <1>2, <1>3, <1>4, <1>5
     DEF LoopStep, RunMail, Establish, HandleRead, HandleClose, SendList,
         IsNewName, RefuseName, BeginAnnounce, Announce, AnnounceDone, Find,
         Use, LogPrivate

\* On one loop what a handler has read of the maps is still so when it uses it,
\* and it never dies.
LEMMA OneLoopReads ==
  ASSUME OneLoop, OneLoopInv, NEW l \in Loops, LoopStep(l)
  PROVE  StillTrue' /\ NoCrash'
<1> SUFFICES /\ pc'[l] \in {"toJoin", "joining", "insert"} =>
                  nameConn'[req'[l].text] = NoConn
             /\ pc'[l] \in {"use", "log"} =>
                  req'[l].to \in Names /\ nameConn'[req'[l].to] # NoConn
             /\ ~crashed'
  BY DEF OneLoop, StillTrue, NoCrash
<1> USE DEF OneLoopInv, RoomInv, TypeOK, StillTrue, NoCrash, maps, At, Goto,
            Return, Enter
<1>0. HandlerAt(l)
  BY DEF HandlerInv
<1>1. CASE RunMail(l) \/ Establish(l) \/ HandleRead(l) \/ HandleClose(l)
  <2>1. UNCHANGED <<nameConn, crashed>>
    BY <1>1 DEF RunMail, Establish, HandleRead, HandleClose
  <2>2. pc'[l] \in {"idle", "isNewClient", "userExit"}
    <3>1. CASE RunMail(l) \/ Establish(l)
      BY <3>1 DEF RunMail, Establish, handler
    <3>2. CASE HandleRead(l) \/ HandleClose(l)
      BY <3>2 DEF HandleRead, HandleClose
    <3> QED
      BY <1>1, <3>1, <3>2
  <2> QED
    BY <2>1, <2>2
<1>2. CASE IsNewClient(l) \/ UserExit(l)
  <2>1. pc'[l] \in {"list", "find", "toTalk", "toLeave", "forget"}
    BY <1>2 DEF IsNewClient, UserExit
  <2>2. ~crashed'
    BY <1>2 DEF IsNewClient, UserExit
  <2> QED
    BY <2>1, <2>2
<1>3. CASE SendList(l) \/ IsNewName(l) \/ RefuseName(l)
  <2>1. CASE SendList(l) \/ RefuseName(l)
    BY <2>1 DEF SendList, RefuseName
  <2>2. CASE IsNewName(l)
    <3>1. req[l].text \in Names
      BY <1>0, <2>2, RequestText DEF IsNewName, HandlerAt, ExitPcs
    <3> QED
      BY <2>2, <3>1 DEF IsNewName
  <2> QED
    BY <1>3, <2>1, <2>2
<1>4. CASE BeginAnnounce(l) \/ Announce(l) \/ AnnounceDone(l)
  <2>1. CASE BeginAnnounce(l)
    BY <2>1 DEF BeginAnnounce
  <2>2. CASE Announce(l)
    BY <2>2 DEF Announce
  <2>3. CASE AnnounceDone(l)
    <3>1. UNCHANGED <<nameConn, crashed>>
      BY <2>3 DEF AnnounceDone
    <3>2. CASE pc[l] = "joining"
      <4>1. pc'[l] = "insert" /\ req' = req
        BY <2>3, <3>2 DEF AnnounceDone
      <4> QED
        BY <3>1, <3>2, <4>1
    <3>3. CASE pc[l] \in {"leaving", "talking"}
      <4>1. pc'[l] \in {"erase", "idle"}
        BY <2>3, <3>3 DEF AnnounceDone
      <4> QED
        BY <3>1, <4>1
    <3> QED
      BY <2>3, <3>2, <3>3 DEF AnnounceDone, Broadcasting
  <2> QED
    BY <1>4, <2>1, <2>2, <2>3
<1>5. CASE Insert(l) \/ Erase(l) \/ Forget(l)
  BY <1>5 DEF Insert, Erase, Forget
<1>6. CASE Find(l) \/ Use(l)
  BY <1>6 DEF Find, Use
<1>7. CASE LogPrivate(l)
  <2>1. conn[l] \in Conns /\ connName[conn[l]] \in Names
    BY <1>0, <1>7 DEF LogPrivate, HandlerAt, PrivatePcs, Registered
  <2>2. nameConn[connName[conn[l]]] # NoConn
    BY <2>1, ValueAssumption DEF MapsAgree
  <2>3. NoConn \notin {HolderOf(connName[conn[l]]), HolderOf(req[l].to)}
    BY <1>7, <2>1, <2>2 DEF LogPrivate
  <2>4. pc'[l] = "idle" /\ ~crashed'
    BY <1>7, <2>3 DEF LogPrivate
  <2> QED
    BY <2>4
<1> QED
  BY <1>1, <1>2, <1>3, <1>4, <1>5, <1>6, <1>7 DEF LoopStep

\* The invariant of one loop survives every step.
LEMMA OneLoopStep ==
  ASSUME OneLoop
  PROVE  OneLoopInv /\ [Next]_vars => OneLoopInv'
<1> SUFFICES ASSUME OneLoopInv, [Next]_vars PROVE OneLoopInv'
  OBVIOUS
<1>1. RoomInv'
  BY RoomStep DEF OneLoopInv
<1>2. ASSUME NEW l \in Loops, LoopStep(l) PROVE OneLoopInv'
  BY <1>1, <1>2, OneLoopNames, OneLoopReads DEF OneLoopInv
<1>3. ASSUME NEW l \in Loops, Race(l) PROVE FALSE
  BY <1>3 DEF Race, Racing, OneLoop
<1>4. CASE (\E c \in Conns : ClientStep(c)) \/ UNCHANGED vars
  <2>1. UNCHANGED <<nameConn, connName, ended, pc, conn, req>>
    BY <1>4, ClientFrame
  <2>2. UNCHANGED crashed
    BY <1>4 DEF ClientStep, Connect, SendGroup, SendPrivate, Send, Close, vars
  <2> QED
    BY <1>1, <2>1, <2>2 DEF OneLoopInv, MapsAgree, StillTrue, NoCrash
<1> QED
  BY <1>2, <1>3, <1>4 DEF Next, Terminated

\* The invariant of one loop holds at the start.
LEMMA OneLoopInit == Init => OneLoopInv
<1> SUFFICES ASSUME Init PROVE OneLoopInv
  OBVIOUS
<1>1. MapsAgree
  BY ValueAssumption DEF Init, MapsAgree
<1>2. StillTrue /\ NoCrash
  BY DEF Init, StillTrue, NoCrash
<1> QED
  BY <1>1, <1>2, RoomInit DEF OneLoopInv

\* OneLoopInv is an invariant of a server with one io loop.
LEMMA OneLoopInvariant ==
  ASSUME OneLoop
  PROVE  SafeSpec => []OneLoopInv
BY OneLoopInit, OneLoopStep, PTL DEF SafeSpec

\* On one loop the maps are inverses of each other, so that no two users have
\* the same name.
THEOREM OneLoopMapsAgree ==
  ASSUME OneLoop
  PROVE  SafeSpec => [](MapsAgree /\ NamesUnique)
<1>1. OneLoopInv => MapsAgree /\ NamesUnique
  BY DEF OneLoopInv, MapsAgree, NamesUnique, Registered
<1> QED
  BY <1>1, OneLoopInvariant, PTL

\* On one loop no handler dereferences a null pointer.
THEOREM OneLoopNoCrash ==
  ASSUME OneLoop
  PROVE  SafeSpec => []NoCrash
<1>1. OneLoopInv => NoCrash
  BY DEF OneLoopInv
<1> QED
  BY <1>1, OneLoopInvariant, PTL

-----------------------------------------------------------------------------
(* On one loop the chat room implements Roster.                            *)

\* The connections Roster takes for gone.
Gone == {c \in ended : Idle(c)}

\* Every step of a server with one io loop is a step of Roster, or changes
\* nothing of what Roster sees.
LEMMA RosterStep ==
  ASSUME OneLoop, OneLoopInv, [Next]_vars
  PROVE  [Names1To1!Next]_(Names1To1!vars)
<1> USE DEF OneLoopInv, RoomInv, TypeOK, Names1To1!vars, Names1To1!Next
<1>1. ASSUME NEW l \in Loops, LoopStep(l),
             UNCHANGED nameConn,
             UNCHANGED <<conn, ended>>
      PROVE  UNCHANGED Names1To1!vars
  BY <1>1 DEF Idle
<1>2. ASSUME NEW l \in Loops, HandleRead(l) \/ HandleClose(l)
      PROVE  UNCHANGED Names1To1!vars
  <2>1. PICK c \in OnLoop(l) \ ended :
          /\ pc[l] = "idle"
          /\ conn' = [conn EXCEPT ![l] = c]
          /\ ended' = ended \/ ended' = ended \cup {c}
    BY <1>2 DEF HandleRead, HandleClose, Enter, server
  <2>2. conn[l] = NoConn
    BY <2>1 DEF HandlerInv, HandlerAt
  <2>3. Gone' = Gone
    BY <2>1, <2>2, LoopAssumption, ValueAssumption DEF Gone, Idle, OnLoop
  <2> QED
    BY <1>2, <2>3 DEF HandleRead, HandleClose, Gone, maps
<1>3. ASSUME NEW l \in Loops, conn[l] \in Conns, conn[l] \notin ended,
             conn' = [conn EXCEPT ![l] = NoConn], UNCHANGED ended
      PROVE  Gone' = Gone
  BY <1>3, LoopAssumption, ValueAssumption DEF Gone, Idle
<1>4. ASSUME NEW l \in Loops, conn[l] \in Conns, conn[l] \in ended,
             conn' = [conn EXCEPT ![l] = NoConn], UNCHANGED ended
      PROVE  conn[l] \notin Gone /\ Gone' = Gone \cup {conn[l]}
  <2>1. LoopOf[conn[l]] = l
    BY <1>4, ValueAssumption DEF HandlerInv, HandlerAt
  <2> QED
    BY <1>4, <2>1, LoopAssumption, ValueAssumption DEF Gone, Idle
<1>5. ASSUME NEW l \in Loops, Insert(l) PROVE Names1To1!Next
  <2> DEFINE n == req[l].text
  <2>1. /\ conn[l] \in Conns /\ conn[l] \notin ended /\ n \in Names
        /\ connName[conn[l]] \notin Names /\ nameConn[n] = NoConn
    BY <1>5, RequestText
       DEF Insert, At, HandlerInv, HandlerAt, ExitPcs, LoginPcs, Registered,
           StillTrue
  <2>2. Gone' = Gone
    BY <1>3, <1>5, <2>1 DEF Insert, Return, server
  <2>3. \A m \in Names : nameConn[m] # conn[l]
    BY <2>1 DEF MapsAgree
  <2>4. conn[l] \notin Gone /\ nameConn' = [nameConn EXCEPT ![n] = conn[l]]
    BY <1>5, <2>1 DEF Insert, Gone
  <2> HIDE DEF n
  <2> QED
    BY <2>1, <2>2, <2>3, <2>4 DEF Names1To1!Take, Gone
<1>6. ASSUME NEW l \in Loops, Erase(l) \/ Forget(l) PROVE Names1To1!Next
  <2>1. conn[l] \in Conns /\ conn[l] \in ended
    BY <1>6 DEF Erase, Forget, At, HandlerInv, HandlerAt, ExitPcs
  <2>2. conn[l] \notin Gone /\ Gone' = Gone \cup {conn[l]}
    BY <1>4, <1>6, <2>1 DEF Erase, Forget, Return, server
  <2>3. nameConn' = [n \in Names |->
                       IF nameConn[n] = conn[l] THEN NoConn ELSE nameConn[n]]
    <3>1. CASE Erase(l)
      <4>1. connName[conn[l]] \in Names
        BY <3>1 DEF Erase, At, HandlerInv, HandlerAt, Registered
      <4>2. /\ nameConn \in [Names -> Conns \cup {NoConn}]
            /\ nameConn' = [nameConn EXCEPT ![connName[conn[l]]] = NoConn]
        BY <3>1 DEF Erase
      <4>3. \A n \in Names : nameConn[n] = conn[l] <=> n = connName[conn[l]]
        BY <2>1 DEF MapsAgree
      <4> QED
        BY <4>1, <4>2, <4>3
    <3>2. CASE Forget(l)
      <4>1. connName[conn[l]] \notin Names
        BY <3>2 DEF Forget, At, HandlerInv, HandlerAt, Registered
      <4> QED
        BY <2>1, <3>2, <4>1 DEF Forget, MapsAgree
    <3> QED
      BY <1>6, <3>1, <3>2
  <2> QED
    BY <2>1, <2>2, <2>3 DEF Names1To1!Leave, Gone
<1>7. ASSUME NEW l \in Loops, RefuseName(l) \/ AnnounceDone(l) \/ Find(l)
                               \/ LogPrivate(l)
      PROVE  UNCHANGED Names1To1!vars
  <2>1. CASE UNCHANGED conn
    BY <1>7, <2>1
       DEF RefuseName, AnnounceDone, Find, LogPrivate, maps, server, Idle
  <2>2. CASE conn' # conn
    <3>1. /\ conn' = [conn EXCEPT ![l] = NoConn]
          /\ pc[l] \in {"isNewName", "talking", "find", "log"}
          /\ UNCHANGED <<nameConn, ended>>
      BY <1>7, <2>2
         DEF RefuseName, AnnounceDone, Find, LogPrivate, Return, At, maps,
             server, Broadcasting
    <3>2. conn[l] \in Conns /\ conn[l] \notin ended
      BY <3>1 DEF HandlerInv, HandlerAt, ExitPcs
    <3>3. Gone' = Gone
      BY <1>3, <3>1, <3>2
    <3> QED
      BY <3>1, <3>3 DEF Gone
  <2> QED
    BY <2>1, <2>2
<1>8. ASSUME NEW l \in Loops, LoopStep(l)
      PROVE  Names1To1!Next \/ UNCHANGED Names1To1!vars
  <2>1. CASE \/ RunMail(l) \/ Establish(l) \/ IsNewClient(l) \/ SendList(l)
            \/ IsNewName(l) \/ BeginAnnounce(l) \/ Announce(l)
            \/ UserExit(l) \/ Use(l)
    <3>1. UNCHANGED <<nameConn, conn, ended>>
      BY <2>1
         DEF RunMail, Establish, IsNewClient, SendList, IsNewName,
             BeginAnnounce, Announce, UserExit, Use, maps, server, handler
    <3> QED
      BY <1>1, <1>8, <3>1
  <2> QED
    BY <1>2, <1>5, <1>6, <1>7, <1>8, <2>1 DEF LoopStep
<1>9. CASE \/ \E c \in Conns : ClientStep(c)
           \/ \E l \in Loops : Race(l)
           \/ UNCHANGED vars
  BY <1>9, ClientFrame DEF Idle
<1> QED
  BY <1>8, <1>9 DEF Next, Terminated

\* On one loop every step of every handler is a step of Roster or invisible
\* to it: a name has one owner, an owner one name, and nobody comes back.
THEOREM OneLoopKeepsRoster ==
  ASSUME OneLoop
  PROVE  SafeSpec => KeepsRoster
<1>1. Init => Names1To1!Init
  BY DEF Init, Names1To1!Init
<1>2. OneLoopInv /\ [Next]_vars => [Names1To1!Next]_(Names1To1!vars)
  BY RosterStep
<1> QED
  BY <1>1, <1>2, OneLoopInvariant, PTL DEF SafeSpec, KeepsRoster, Names1To1!Spec

-----------------------------------------------------------------------------
(* On one loop: what the clients were told.                                *)

\* The users of the room.
Users == {n \in Names : nameConn[n] # NoConn}

\* Loop l is in one of these places of a handler of c.
RunsFor(l, c, places) == conn[l] = c /\ pc[l] \in places

\* What the program at the end of c has been told fits what the server has
\* done with c.
ClientAt(l, c) ==
  /\ conn[l] = c => state[c] # "kConnecting"
  /\ client[c] = "away" => state[c] = "kConnecting"
  /\ client[c] \in {"away", "waiting", "in"} =>
       c \notin shut /\ c \notin ended /\ state[c] # "kDisconnected"
  /\ client[c] \in {"away", "waiting"} =>
       /\ ~Registered(c) /\ Len(inbox[c]) <= 1
       /\ conn[l] = c => pc[l] \in {"isNewClient", "list"} /\ inbox[c] = <<>>
  /\ client[c] = "in" =>
       /\ state[c] = "kConnected"
       /\ Registered(c) \/ RunsFor(l, c, {"isNewName", "toJoin", "joining", "insert"})
       /\ RunsFor(l, c, {"isNewName"}) => IsFree(req[l].text)
  /\ client[c] = "dup" =>
       /\ ~Registered(c) /\ inbox[c] = <<>>
       /\ ~RunsFor(l, c, {"isNewClient", "list", "toJoin", "joining", "insert"})
       /\ RunsFor(l, c, {"isNewName"}) => ~IsFree(req[l].text)

\* The login, or the exit, that loop l handles has been announced to c.
Coming(l, c) ==
  \/ pc[l] \in {"isNewName", "toJoin"} /\ c = conn[l]
  \/ pc[l] = "joining" /\ c \notin todo[l]
  \/ pc[l] = "insert"
\* Client c has been told of the exit that loop l is about.
Going(l, c) == (pc[l] = "leaving" /\ c \notin todo[l]) \/ pc[l] = "erase"

\* The users, but for the announcement under way.
Told(l, c) ==
  IF Coming(l, c) THEN Users \cup {req[l].text}
  ELSE IF Going(l, c) THEN Users \ {connName[conn[l]]}
  ELSE Users

\* On one loop nothing is queued; who joins is not told of it; every client is
\* where its handlers say it is; and what it shows is what it has been told.
MailInv == \A l \in Loops : mail[l] = <<>>
TodoInv == \A l \in Loops : pc[l] = "joining" => conn[l] \notin todo[l]
ClientsInv == \A l \in Loops, c \in Conns : ClientAt(l, c)
ViewsInv == \A l \in Loops, c \in Conns : client[c] = "in" => view[c] = Told(l, c)

\* A message to a connection of the only loop is written at once.
LEMMA OneLoopSend ==
  ASSUME OneLoop, NEW l \in Loops, NEW c \in Conns, NEW m, SendTo(l, c, m)
  PROVE  /\ UNCHANGED mail
         /\ state[c] = "kConnected" => Write(c, m)
         /\ state[c] # "kConnected" => UNCHANGED stream
<1>1. LoopOf[c] = l
  BY LoopAssumption DEF OneLoop
<1> QED
  BY <1>1 DEF SendTo, stream

\* So the queues stay empty.
LEMMA OneLoopMail ==
  ASSUME OneLoop, OneLoopInv, MailInv, TodoInv, NEW l \in Loops, LoopStep(l)
  PROVE  MailInv' /\ TodoInv' /\ ~RunMail(l)
<1> USE DEF OneLoopInv, RoomInv, TypeOK
<1>0. ~RunMail(l)
  BY DEF RunMail, MailInv
<1>1. mail' = mail
  <2>1. CASE Announce(l)
    BY <2>1, OneLoopSend DEF Announce
  <2>2. CASE Use(l)
    <3>1. HolderOf(req[l].to) \in Conns \cup {NoConn}
      OBVIOUS
    <3> QED
      BY <2>2, <3>1, OneLoopSend DEF Use
  <2> QED
    BY <1>0, <2>1, <2>2
       DEF LoopStep, Establish, HandleRead, HandleClose, IsNewClient, SendList,
           IsNewName, RefuseName, BeginAnnounce, AnnounceDone, Insert, UserExit,
           Erase, Forget, Find, LogPrivate
<1>2. pc'[l] = "joining" => conn'[l] \notin todo'[l]
  <2> USE DEF At, Goto, Return, Enter, server, handler
  <2>1. CASE BeginAnnounce(l)
    BY <2>1 DEF BeginAnnounce
  <2>2. CASE Announce(l)
    BY <2>2 DEF Announce, TodoInv
  <2>3. CASE Establish(l)
    BY <2>3 DEF Establish, TodoInv
  <2>4. CASE AnnounceDone(l)
    BY <2>4 DEF AnnounceDone, Broadcasting
  <2>5. CASE HandleRead(l) \/ HandleClose(l)
    BY <2>5 DEF HandleRead, HandleClose
  <2>6. CASE \/ IsNewClient(l) \/ SendList(l) \/ IsNewName(l) \/ RefuseName(l)
             \/ Insert(l) \/ UserExit(l) \/ Erase(l) \/ Forget(l)
             \/ Find(l)
    BY <2>6 DEF IsNewClient, SendList, IsNewName, RefuseName, Insert, UserExit,
                Erase, Forget, Find
  <2>7. CASE Use(l) \/ LogPrivate(l)
    BY <2>7 DEF Use, LogPrivate
  <2> QED
    BY <1>0, <2>1, <2>2, <2>3, <2>4, <2>5, <2>6, <2>7 DEF LoopStep
<1> QED
  BY <1>0, <1>1, <1>2 DEF MailInv, TodoInv, OneLoop

\* The clients and what the server has done with them stay in step.
LEMMA ClientsStep ==
  ASSUME OneLoop, OneLoopInv, MailInv, TodoInv, ClientsInv, NEW l \in Loops, LoopStep(l),
         NEW c \in Conns
  PROVE  ClientAt(l, c)'
<1> USE DEF At, Goto, Return, Enter, maps, server, handler, peer, stream
<1>0. /\ HandlerAt(l) /\ ClientAt(l, c) /\ MapType /\ RestType /\ LoopOf[c] = l
      /\ c # NoConn
  BY LoopAssumption, ValueAssumption, TypeParts
     DEF OneLoop, OneLoopInv, RoomInv, HandlerInv, ClientsInv
<1> USE DEF MapType, RestType
<1>1. CASE Establish(l)
  BY <1>0, <1>1 DEF Establish, ClientAt, RunsFor, Registered, HandlerAt
<1>2. CASE HandleRead(l)
  <2>1. PICK d \in OnLoop(l) \ ended : \E k \in 1..Len(inbox[d]) :
          /\ state[d] # "kConnecting"
          /\ Enter(l, d, "isNewClient", Head(inbox[d]))
          /\ inbox' = [inbox EXCEPT ![d] = SubSeq(@, k + 1, Len(@))]
    BY <1>2 DEF HandleRead
  <2>2. PICK k \in 1..Len(inbox[d]) :
          /\ pc[l] = "idle" /\ state[d] # "kConnecting"
          /\ pc' = [pc EXCEPT ![l] = "isNewClient"]
          /\ conn' = [conn EXCEPT ![l] = d]
          /\ inbox' = [inbox EXCEPT ![d] = SubSeq(inbox[d], k + 1, Len(inbox[d]))]
    BY <2>1
  <2>3. d \in Conns /\ inbox[d] \in Seq(Requests) /\ Len(inbox[d]) \in Nat
    <3>1. d \in Conns
      BY <2>1 DEF OnLoop
    <3>2. inbox[d] \in Seq(Requests)
      BY <1>0, <3>1
    <3> QED
      BY <3>1, <3>2, LenProperties
  <2>4. UNCHANGED <<maps, server, client>>
    BY <1>2 DEF HandleRead
  <2>5. pc'[l] = "isNewClient" /\ conn'[l] = d /\ conn[l] = NoConn
    BY <1>0, <2>2 DEF HandlerAt
  <2>6. CASE c # d
    <3>1. inbox'[c] = inbox[c]
      BY <2>2, <2>6
    <3> QED
      BY <1>0, <2>4, <2>5, <2>6, <3>1 DEF ClientAt, RunsFor, Registered
  <2>7. CASE c = d
    <3>1. client[c] # "dup"
      BY <1>0, <2>2, <2>7, EmptySeq DEF ClientAt
    <3>2. client[c] # "away"
      BY <1>0, <2>2, <2>7 DEF ClientAt
    <3>3. client[c] = "waiting" => inbox'[c] = <<>>
      <4> SUFFICES ASSUME client[c] = "waiting"
                   PROVE  inbox'[c] = <<>>
        OBVIOUS
      <4>1. Len(inbox[c]) = 1 /\ k = 1
        <5>1. Len(inbox[c]) <= 1
          BY <1>0 DEF ClientAt
        <5>2. k \in 1..Len(inbox[c]) /\ Len(inbox[c]) \in Nat
          BY <2>3, <2>7
        <5>3. \A n \in Nat : n <= 1 /\ k \in 1..n => n = 1 /\ k = 1
          OBVIOUS
        <5> QED
          BY <5>1, <5>2, <5>3, Zenon
      <4>2. inbox'[c] = SubSeq(inbox[c], k + 1, Len(inbox[c]))
        BY <1>0, <2>2, <2>7
      <4>3. inbox'[c] = SubSeq(inbox[c], 1 + 1, 1)
        BY <4>1, <4>2
      <4> QED
        BY <4>3, SubSeqEmpty
    <3>4. inbox'[c] = <<>> => Len(inbox'[c]) <= 1
      BY EmptySeq
    <3>5. client[c] = "in" => Registered(c)
      BY <1>0, <2>2 DEF ClientAt, RunsFor
    <3> QED
      BY <1>0, <2>2, <2>4, <2>5, <2>7, <3>1, <3>2, <3>3, <3>4, <3>5
         DEF ClientAt, RunsFor, Registered
  <2> QED
    BY <2>6, <2>7
<1>3. CASE HandleClose(l)
  <2>1. PICK d \in OnLoop(l) \ ended :
          /\ state[d] # "kConnecting"
          /\ AtEnd(d)
          /\ Enter(l, d, "userExit", Nothing)
          /\ state' = [state EXCEPT ![d] = "kDisconnected"]
          /\ ended' = ended \cup {d}
    BY <1>3 DEF HandleClose
  <2>2. d \in Conns /\ pc'[l] = "userExit" /\ conn'[l] = d /\ pc[l] = "idle" /\ conn[l] = NoConn
    BY <1>0, <2>1 DEF OnLoop, HandlerAt
  <2>3. UNCHANGED <<maps, shut, peer>>
    BY <1>3 DEF HandleClose
  <2>4. CASE c # d
    BY <1>0, <2>1, <2>2, <2>3, <2>4 DEF ClientAt, RunsFor, Registered
  <2>5. CASE c = d
    <3>1. client[c] \in {"dup", "closed"}
      BY <1>0, <2>1, <2>5 DEF ClientAt
    <3> QED
      BY <1>0, <2>1, <2>2, <2>3, <2>5, <3>1 DEF ClientAt, RunsFor, Registered
  <2> QED
    BY <2>4, <2>5
<1>4. CASE IsNewClient(l) \/ UserExit(l)
  BY <1>0, <1>4, ValueAssumption
     DEF IsNewClient, UserExit, ClientAt, RunsFor, Registered, HandlerAt, ExitPcs
<1>5. CASE SendList(l)
  BY <1>0, <1>5 DEF SendList, ClientAt, RunsFor, Registered, HandlerAt, LoginPcs, ExitPcs
<1>6. CASE IsNewName(l) \/ RefuseName(l)
  <2>1. CASE IsNewName(l)
    BY <1>0, <2>1 DEF IsNewName, ClientAt, RunsFor, Registered
  <2>2. CASE RefuseName(l) /\ conn[l] # c
    BY <1>0, <2>2 DEF RefuseName, ClientAt, RunsFor, Registered
  <2>3. CASE RefuseName(l) /\ conn[l] = c
    BY <1>0, <2>3 DEF RefuseName, ClientAt, RunsFor, Registered
  <2> QED
    BY <1>6, <2>1, <2>2, <2>3
<1>7. CASE BeginAnnounce(l) \/ Announce(l)
  BY <1>0, <1>7 DEF BeginAnnounce, Announce, ClientAt, RunsFor, Registered, HandlerAt,
     LoginPcs, TalkPcs, ExitPcs, Broadcasting
<1>8. CASE AnnounceDone(l)
  BY <1>0, <1>8 DEF AnnounceDone, ClientAt, RunsFor, Registered, HandlerAt,
     LoginPcs, TalkPcs, ExitPcs, Broadcasting
<1>9. CASE Insert(l)
  <2>1. req[l].text \in Names
    BY <1>0, <1>9, RequestText DEF Insert, HandlerAt, ExitPcs
  <2> QED
    BY <1>0, <1>9, <2>1 DEF Insert, ClientAt, RunsFor, Registered, HandlerAt
<1>10. CASE Erase(l) \/ Forget(l)
  BY <1>0, <1>10, ValueAssumption
     DEF Erase, Forget, ClientAt, RunsFor, Registered, HandlerAt, ExitPcs
<1>11. CASE Find(l) \/ Use(l) \/ LogPrivate(l)
  BY <1>0, <1>11 DEF Find, Use, LogPrivate, ClientAt, RunsFor, Registered, HandlerAt, PrivatePcs
<1> QED
  BY <1>1, <1>2, <1>3, <1>4, <1>5, <1>6, <1>7, <1>8, <1>9, <1>10, <1>11, OneLoopMail
     DEF LoopStep

\* What a write does to the list of a client.
LEMMA WriteView ==
  ASSUME view \in [Conns -> SUBSET Names], NEW d \in Conns, NEW m, Write(d, m)
  PROVE  /\ \A c \in Conns : c # d \/ m.kind = "chat" => view'[c] = view[c]
         /\ state[d] # "kDisconnected" /\ m.kind = "joined" => view'[d] = view[d] \cup {m.name}
         /\ state[d] # "kDisconnected" /\ m.kind = "left" => view'[d] = view[d] \ {m.name}
<1>1. CASE state[d] = "kDisconnected"
  BY <1>1 DEF Write, stream
<1>2. CASE state[d] # "kDisconnected"
  BY <1>2 DEF Write
<1> QED
  BY <1>1, <1>2

\* The list of a client in the room is right but for what is being announced.
LEMMA ViewsStep ==
  ASSUME OneLoop, OneLoopInv, MailInv, TodoInv, ClientsInv, ViewsInv,
         NEW l \in Loops, LoopStep(l), NEW c \in Conns, client'[c] = "in"
  PROVE  view'[c] = Told(l, c)'
<1> USE DEF At, Goto, Return, Enter, maps, server, handler, peer, stream
<1>0. /\ HandlerAt(l) /\ ClientAt(l, c) /\ MapType /\ RestType /\ LoopOf[c] = l
      /\ c # NoConn /\ ClientAt(l, c)'
  BY LoopAssumption, ValueAssumption, TypeParts, ClientsStep
     DEF OneLoop, OneLoopInv, RoomInv, HandlerInv, ClientsInv
<1>i. client[c] = "in" => view[c] = Told(l, c)
  BY DEF ViewsInv
<1> USE DEF MapType, RestType
<1>1. CASE Establish(l)
  BY <1>0, <1>i, <1>1 DEF Establish, Told, Coming, Going, Users
<1>2. CASE HandleRead(l) \/ HandleClose(l)
  <2>1. UNCHANGED <<nameConn, view, client>> /\ pc[l] = "idle"
    BY <1>2 DEF HandleRead, HandleClose
  <2>2. pc'[l] \in {"isNewClient", "userExit"}
    BY <1>0, <1>2 DEF HandleRead, HandleClose
  <2> QED
    BY <1>i, <2>1, <2>2 DEF Told, Coming, Going, Users
<1>3. CASE IsNewClient(l) \/ UserExit(l)
  <2>1. UNCHANGED <<nameConn, view, client>> /\ pc[l] \in {"isNewClient", "userExit"}
    BY <1>3 DEF IsNewClient, UserExit
  <2>2. pc'[l] \in {"list", "find", "toTalk", "toLeave", "forget"}
    BY <1>0, <1>3 DEF IsNewClient, UserExit
  <2> QED
    BY <1>i, <2>1, <2>2 DEF Told, Coming, Going, Users
<1>4. CASE SendList(l)
  <2>0. pc[l] = "list" /\ pc'[l] = "isNewName" /\ UNCHANGED <<nameConn, conn, req>>
    BY <1>0, <1>4 DEF SendList
  <2>1. CASE c = conn[l]
    <3>1. client[c] # "in"
      BY <1>0, <2>0, <2>1 DEF ClientAt, RunsFor, HandlerAt, LoginPcs
    <3>2. view'[c] = Users \cup {req[l].text}
      BY <1>0, <1>4, <2>1, <3>1 DEF SendList, Users
    <3> QED
      BY <2>0, <2>1, <3>2 DEF Told, Coming, Users
  <2>2. CASE c # conn[l]
    <3>1. client[c] = "in" /\ view'[c] = view[c]
      BY <1>0, <1>4, <2>2 DEF SendList
    <3> QED
      BY <1>i, <2>0, <2>2, <3>1 DEF Told, Coming, Going, Users
  <2> QED
    BY <2>1, <2>2
<1>5. CASE IsNewName(l)
  BY <1>0, <1>i, <1>5 DEF IsNewName, Told, Coming, Going, Users
<1>6. CASE RefuseName(l)
  <2>1. pc[l] = "isNewName" /\ pc'[l] = "idle" /\ UNCHANGED <<nameConn, view, client>>
    BY <1>0, <1>6 DEF RefuseName
  <2>2. c # conn[l]
    BY <1>0, <1>6, <2>1 DEF RefuseName, ClientAt, RunsFor
  <2> QED
    BY <1>i, <2>1, <2>2 DEF Told, Coming, Going, Users
<1>7. CASE BeginAnnounce(l)
  <2>1. /\ UNCHANGED <<nameConn, connName, conn, req, view, client>>
        /\ todo'[l] = Recipients(l)
    BY <1>0, <1>7 DEF BeginAnnounce
  <2>2. \/ pc[l] = "toJoin" /\ pc'[l] = "joining"
        \/ pc[l] = "toLeave" /\ pc'[l] = "leaving"
        \/ pc[l] = "toTalk" /\ pc'[l] = "talking"
    BY <1>0, <1>7 DEF BeginAnnounce
  <2>3. CASE c = conn[l] /\ pc[l] = "toJoin"
    BY <1>i, <2>1, <2>2, <2>3 DEF Told, Coming, Going, Users
  <2>4. CASE c = conn[l] /\ pc[l] = "toLeave"
    BY <1>0, <2>1, <2>4 DEF HandlerAt, ClientAt, ExitPcs
  <2>5. CASE pc[l] = "toTalk"
    BY <1>i, <2>1, <2>2, <2>5 DEF Told, Coming, Going, Users
  <2>6. CASE c # conn[l] /\ pc[l] # "toTalk"
    <3>1. Registered(c)
      BY <1>0, <2>1, <2>6 DEF ClientAt, RunsFor
    <3>2. connName[c] \in Names /\ nameConn[connName[c]] = c
      BY <3>1 DEF OneLoopInv, MapsAgree, Registered
    <3>3. c \in todo'[l]
      BY <1>0, <2>1, <2>6, <3>2
    <3> QED
      BY <1>i, <2>1, <2>2, <2>6, <3>3 DEF Told, Coming, Going, Users
  <2> QED
    BY <2>2, <2>3, <2>4, <2>5, <2>6
<1>8. CASE Announce(l)
  <2>1. PICK d \in todo[l] : SendTo(l, d, Announcement(l)) /\ todo' = [todo EXCEPT ![l] = @ \ {d}]
    BY <1>8 DEF Announce
  <2>2. d \in Conns /\ todo'[l] = todo[l] \ {d}
    BY <1>0, <2>1
  <2>3. /\ UNCHANGED <<nameConn, connName, conn, req, pc, client>>
        /\ pc[l] \in Broadcasting
    BY <1>8 DEF Announce
  <2>4. /\ state[d] = "kConnected" => Write(d, Announcement(l))
        /\ state[d] # "kConnected" => UNCHANGED stream
    BY <2>1, <2>2, OneLoopSend
  <2>5. CASE c # d
    <3>1. view'[c] = view[c]
      <4>1. CASE state[d] = "kConnected"
        BY <1>0, <2>2, <2>4, <2>5, <4>1, WriteView
      <4> QED
        BY <2>4, <4>1
    <3> QED
      BY <1>i, <2>2, <2>3, <2>5, <3>1 DEF Told, Coming, Going, Users
  <2>6. CASE c = d
    <3>1. state[c] = "kConnected" /\ Write(c, Announcement(l)) /\ client[c] = "in"
      BY <1>0, <2>3, <2>4, <2>6 DEF ClientAt
    <3>2. /\ Announcement(l).kind = "chat" => view'[c] = view[c]
          /\ Announcement(l).kind = "joined" => view'[c] = view[c] \cup {Announcement(l).name}
          /\ Announcement(l).kind = "left" => view'[c] = view[c] \ {Announcement(l).name}
      BY <1>0, <3>1, WriteView
    <3>3. CASE pc[l] = "joining"
      <4>1. view'[c] = view[c] \cup {req[l].text}
        BY <3>2, <3>3 DEF Announcement, Joined
      <4>2. view[c] = Users
        BY <1>i, <2>1, <2>6, <3>1, <3>3 DEF Told, Coming, Going
      <4> QED
        BY <2>2, <2>3, <2>6, <3>3, <4>1, <4>2 DEF Told, Coming, Users
    <3>4. CASE pc[l] = "leaving"
      <4>1. view'[c] = view[c] \ {connName[conn[l]]}
        BY <3>2, <3>4 DEF Announcement, Left
      <4>2. view[c] = Users
        BY <1>i, <2>1, <2>6, <3>1, <3>4 DEF Told, Coming, Going
      <4> QED
        BY <2>2, <2>3, <2>6, <3>4, <4>1, <4>2 DEF Told, Coming, Going, Users
    <3>5. CASE pc[l] = "talking"
      <4>1. view'[c] = view[c]
        BY <3>2, <3>5 DEF Announcement, GroupMsg, Chat
      <4> QED
        BY <1>i, <2>3, <3>1, <3>5, <4>1 DEF Told, Coming, Going, Users
    <3> QED
      BY <2>3, <3>3, <3>4, <3>5 DEF Broadcasting
  <2> QED
    BY <2>5, <2>6
<1>9. CASE AnnounceDone(l)
  <2>1. /\ UNCHANGED <<nameConn, connName, todo, view, client>> /\ todo[l] = {}
        /\ pc[l] \in Broadcasting
    BY <1>9 DEF AnnounceDone
  <2>2. /\ pc[l] = "joining" => pc'[l] = "insert" /\ UNCHANGED <<conn, req>>
        /\ pc[l] = "leaving" => pc'[l] = "erase" /\ UNCHANGED <<conn, req>>
        /\ pc[l] = "talking" => pc'[l] = "idle"
    BY <1>0, <1>9 DEF AnnounceDone
  <2> QED
    BY <1>i, <2>1, <2>2 DEF Told, Coming, Going, Users, Broadcasting
<1>10. CASE Insert(l)
  <2>1. /\ pc[l] = "insert" /\ pc'[l] = "idle" /\ UNCHANGED <<view, client>>
        /\ nameConn' = [nameConn EXCEPT ![req[l].text] = conn[l]]
    BY <1>0, <1>10 DEF Insert
  <2>2. conn[l] # NoConn /\ req[l].text \in Names
    BY <1>0, <2>1, RequestText DEF HandlerAt, ExitPcs
  <2>3. Users' = Users \cup {req[l].text}
    BY <1>0, <2>1, <2>2 DEF Users
  <2>4. view'[c] = Users \cup {req[l].text}
    BY <1>i, <2>1 DEF Told, Coming
  <2> QED
    BY <2>1, <2>3, <2>4 DEF Told, Coming, Going
<1>11. CASE Erase(l)
  <2>1. /\ pc[l] = "erase" /\ pc'[l] = "idle" /\ UNCHANGED <<view, client>>
        /\ nameConn' = [nameConn EXCEPT ![connName[conn[l]]] = NoConn]
    BY <1>0, <1>11 DEF Erase
  <2>2. connName[conn[l]] \in Names
    BY <1>0, <2>1 DEF HandlerAt, Registered
  <2>3. Users' = Users \ {connName[conn[l]]}
    BY <1>0, <2>1, <2>2 DEF Users
  <2>4. view'[c] = Users \ {connName[conn[l]]}
    BY <1>i, <2>1 DEF Told, Coming, Going
  <2> QED
    BY <2>1, <2>3, <2>4 DEF Told, Coming, Going
<1>12. CASE Forget(l) \/ Find(l) \/ LogPrivate(l)
  <2>1. UNCHANGED <<nameConn, view, client>> /\ pc[l] \in {"forget", "find", "log"}
    BY <1>12 DEF Forget, Find, LogPrivate
  <2>2. pc'[l] \in {"idle", "use", "log"}
    BY <1>0, <1>12 DEF Forget, Find, LogPrivate
  <2> QED
    BY <1>i, <2>1, <2>2 DEF Told, Coming, Going, Users
<1>13. CASE Use(l)
  <2> DEFINE d == HolderOf(req[l].to)
  <2>1. UNCHANGED <<nameConn, client>> /\ pc[l] = "use" /\ pc'[l] \in {"use", "log"}
    BY <1>0, <1>13 DEF Use
  <2>2. view'[c] = view[c]
    <3>1. CASE d = NoConn
      BY <1>13, <3>1 DEF Use
    <3>2. CASE d # NoConn
      <4>1. d \in Conns
        BY <1>0, <3>2
      <4>2. SendTo(l, d, Chat(conn[l], req[l].n))
        BY <1>13, <3>2 DEF Use
      <4> HIDE DEF d
      <4>3. UNCHANGED stream \/ Write(d, Chat(conn[l], req[l].n))
        BY <4>1, <4>2, OneLoopSend
      <4> QED
        BY <1>0, <4>1, <4>3, WriteView DEF Chat
    <3> QED
      BY <3>1, <3>2
  <2> QED
    BY <1>i, <2>1, <2>2 DEF Told, Coming, Going, Users
<1> QED
  BY <1>1, <1>2, <1>3, <1>4, <1>5, <1>6, <1>7, <1>8, <1>9, <1>10, <1>11, <1>12, <1>13,
     OneLoopMail DEF LoopStep

\* What the clients do fits too.
LEMMA ToldClientStep ==
  ASSUME OneLoop, OneLoopInv, MailInv, TodoInv, ClientsInv, ViewsInv,
         NEW d \in Conns, ClientStep(d)
  PROVE  MailInv' /\ TodoInv' /\ ClientsInv' /\ ViewsInv'
<1>0. MapType /\ RestType /\ UNCHANGED <<maps, server, handler, mail, view>>
  BY TypeParts DEF OneLoopInv, RoomInv, ClientStep, Connect, SendGroup, SendPrivate, Send,
                   Close, stream
<1>1. MailInv' /\ TodoInv'
  BY <1>0 DEF MailInv, TodoInv, handler
<1>2. ViewsInv'
  <2>1. \A c \in Conns : client'[c] = "in" => client[c] = "in"
    BY <1>0 DEF ClientStep, Connect, SendGroup, SendPrivate, Send, Close, RestType
  <2> QED
    BY <1>0, <2>1 DEF ViewsInv, Told, Coming, Going, Users, maps, handler
<1>3. ASSUME NEW l \in Loops, NEW c \in Conns PROVE ClientAt(l, c)'
  <2>0. ClientAt(l, c) /\ UNCHANGED <<nameConn, connName, state, shut, ended, pc, conn, req>>
    BY <1>0 DEF ClientsInv, maps, server, handler
  <2>1. CASE client'[c] = client[c] /\ inbox'[c] = inbox[c]
    BY <2>0, <2>1 DEF ClientAt, RunsFor, Registered
  <2>2. CASE client[c] = "away" /\ client'[c] = "waiting" /\ Len(inbox'[c]) = 1
    BY <2>0, <2>2 DEF ClientAt, RunsFor, Registered
  <2>3. CASE client[c] = "in" /\ client'[c] = "in"
    BY <2>0, <2>3 DEF ClientAt, RunsFor, Registered
  <2>4. CASE client[c] # "away" /\ client'[c] = "closed"
    BY <2>0, <2>4 DEF ClientAt, RunsFor, Registered
  <2> QED
    <3>1. CASE Connect(d)
      BY <1>0, <2>1, <2>2, <3>1 DEF Connect, MapType, RestType
    <3>2. CASE SendGroup(d) \/ SendPrivate(d)
      BY <1>0, <2>1, <2>3, <3>2 DEF SendGroup, SendPrivate, Send, MapType, RestType
    <3>3. CASE Close(d)
      BY <1>0, <2>1, <2>4, <3>3 DEF Close, MapType, RestType
    <3> QED
      BY <3>1, <3>2, <3>3 DEF ClientStep
<1> QED
  BY <1>1, <1>2, <1>3 DEF ClientsInv

\* What clients have been told, together.
ToldInv == OneLoopInv /\ MailInv /\ TodoInv /\ ClientsInv /\ ViewsInv

\* Every step keeps it.
LEMMA ToldStep ==
  ASSUME OneLoop
  PROVE  ToldInv /\ [Next]_vars => ToldInv'
<1> SUFFICES ASSUME ToldInv, [Next]_vars PROVE ToldInv'
  OBVIOUS
<1>1. OneLoopInv'
  BY OneLoopStep DEF ToldInv
<1>2. ASSUME NEW l \in Loops, LoopStep(l) PROVE ToldInv'
  <2>1. MailInv' /\ TodoInv'
    BY <1>2, OneLoopMail DEF ToldInv
  <2>2. \A c \in Conns : ClientAt(l, c)'
    BY <1>2, ClientsStep DEF ToldInv
  <2>3. \A c \in Conns : client'[c] = "in" => view'[c] = Told(l, c)'
    BY <1>2, ViewsStep DEF ToldInv
  <2>4. \A k \in Loops : k = l
    BY DEF OneLoop
  <2>5. ClientsInv' /\ ViewsInv'
    BY <2>2, <2>3, <2>4 DEF ClientsInv, ViewsInv
  <2> QED
    BY <1>1, <2>1, <2>5 DEF ToldInv
<1>3. ASSUME NEW l \in Loops, Race(l) PROVE FALSE
  BY <1>3 DEF Race, Racing, OneLoop
<1>4. CASE \E c \in Conns : ClientStep(c)
  BY <1>1, <1>4, ToldClientStep DEF ToldInv
<1>5. CASE UNCHANGED vars
  <2> USE <1>5 DEF ToldInv, vars, maps, server, handler, peer, stream
  <2>1. MailInv' /\ TodoInv'
    BY DEF MailInv, TodoInv
  <2>2. ClientsInv'
    BY DEF ClientsInv, ClientAt, RunsFor, Registered
  <2>3. ViewsInv'
    BY DEF ViewsInv, Told, Coming, Going, Users
  <2> QED
    BY <1>1, <2>1, <2>2, <2>3
<1> QED
  BY <1>2, <1>3, <1>4, <1>5 DEF Next, Terminated

\* ToldInv is an invariant of a server with one io loop.
LEMMA ToldInvariant ==
  ASSUME OneLoop
  PROVE  SafeSpec => []ToldInv
<1>1. Init => ToldInv
  <2> SUFFICES ASSUME Init PROVE ToldInv
    OBVIOUS
  <2>1. OneLoopInv
    BY OneLoopInit
  <2>2. MailInv /\ TodoInv
    BY DEF Init, MailInv, TodoInv
  <2>3. ClientsInv /\ ViewsInv
    BY EmptySeq, ValueAssumption
       DEF Init, ClientsInv, ViewsInv, ClientAt, RunsFor, Registered
  <2> QED
    BY <2>1, <2>2, <2>3 DEF ToldInv
<1> QED
  BY <1>1, ToldStep, PTL DEF SafeSpec

\* On one loop every client in the room shows exactly the users the server has
\* whenever nothing is under way, for any number of connections and names: the
\* list and the announcements leave no gap and no one twice.
THEOREM OneLoopListsExact ==
  ASSUME OneLoop
  PROVE  SafeSpec => []ListsExact
<1>1. ToldInv => ListsExact
  <2> SUFFICES ASSUME ToldInv, Quiet, NEW c \in Conns, client[c] = "in"
               PROVE  view[c] = Users
    BY DEF ListsExact, Users
  <2>1. LoopOf[c] \in Loops
    BY LoopAssumption
  <2>2. pc[LoopOf[c]] = "idle" /\ view[c] = Told(LoopOf[c], c)
    BY <2>1 DEF Quiet, ToldInv, ViewsInv
  <2> QED
    BY <2>2 DEF Told, Coming, Going
<1> QED
  BY <1>1, ToldInvariant, PTL

\* On one loop client and server never differ on whether a name was free,
\* although each judges by a look at the map of its own.
THEOREM OneLoopSameVerdict ==
  ASSUME OneLoop
  PROVE  SafeSpec => []SameVerdict
<1>1. ToldInv => SameVerdict
  <2> SUFFICES ASSUME ToldInv, Quiet, NEW c \in Conns
               PROVE  /\ client[c] = "in" => Registered(c)
                      /\ client[c] = "dup" => ~Registered(c)
    BY DEF SameVerdict
  <2>1. LoopOf[c] \in Loops
    BY LoopAssumption
  <2>2. pc[LoopOf[c]] = "idle" /\ ClientAt(LoopOf[c], c)
    BY <2>1 DEF Quiet, ToldInv, ClientsInv
  <2> QED
    BY <2>2 DEF ClientAt, RunsFor
<1> QED
  BY <1>1, ToldInvariant, PTL
=============================================================================
