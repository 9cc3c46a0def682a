------------------------------- MODULE ChatRoom -------------------------------
(***************************************************************************)
(* The chat room (server/example/server.cpp): two maps shared by the io    *)
(* loops, the handlers that read and change them, and the clients at the   *)
(* other end of the connections.                                           *)
(*                                                                         *)
(* A loop runs one handler at a time.  A handler is split at every access  *)
(* to a map that another loop could come before: most reads and the        *)
(* insertions of operator[] take no lock, a broadcast holds map_mtx shared *)
(* from its first recipient to its last, and an insertion or erasure holds *)
(* it exclusively and is one step.  TcpConnection::Send() writes at once   *)
(* on the recipient's own loop and queues a functor on any other; the      *)
(* queue of functors of a loop is first-in first-out (LoopQueue.tla).      *)
(***************************************************************************)
EXTENDS Naturals, Sequences, FiniteSets

CONSTANTS
  Loops,         \* the io loops: set_thread_num(3)
  Conns,         \* the connections
  Names,         \* what the server may take for a user name
  LoopOf,        \* LoopOf[c]: get_next_loop() when c was accepted
  NameOf,        \* NameOf[c]: the name typed into the login window of c
  Junk,          \* the name the server sees if it reads a chat line as a login
  NoConn,        \* no entry in name_conn_map_
  NoName,        \* entry "" in conn_name_map_, left by operator[]; a name
                 \* nobody has
  NoEntry,       \* no entry in conn_name_map_
  MaxSaid        \* bound: chat lines each client sends

ASSUME LoopAssumption == LoopOf \in [Conns -> Loops]
ASSUME NameAssumption == NameOf \in [Conns -> Names] /\ Junk \in Names
ASSUME ValueAssumption ==
  /\ NoConn \notin Conns
  /\ NoName \notin Names
  /\ NoEntry \notin Names \cup {NoName}
ASSUME BoundAssumption == MaxSaid \in Nat

VARIABLES
  nameConn,      \* name_conn_map_
  connName,      \* conn_name_map_
  state,         \* state_ of each connection
  shut,          \* connections whose reading side was shut down by Shutdown()
  ended,         \* connections whose HandleClose() has run
  pc,            \* where each loop is
  conn,          \* the connection whose handler each loop runs
  req,           \* what that handler has read
  todo,          \* recipients left in the broadcast each loop is making
  mail,          \* mail[l]: SendInLoop functors queued on loop l
  client,        \* what the program at the other end is doing
  inbox,         \* bytes of the client the server has not read, as requests
  said,          \* said[c]: number of chat lines client c has sent
  view,          \* view[c]: user list client c shows for what it was sent
  seen,          \* seen[c]: names that list has ever had
  got,           \* got[c][d]: number of d's chat line that c got last
  crashed        \* the server process has died

maps == <<nameConn, connName>>
server == <<state, shut, ended>>
handler == <<pc, conn, req, todo>>
stream == <<view, seen, got>>
peer == <<client, inbox, said>>
vars == <<maps, server, handler, mail, peer, stream, crashed>>

\* A request as the handlers tell them apart.  "text" is the name that
\* UserLogin() would take it for, "to" the addressee of a private message.
Requests ==
  [kind : {"login"}, text : Names] \cup
  [kind : {"group"}, text : {Junk}, n : 1..MaxSaid] \cup
  [kind : {"private"}, text : {Junk}, to : Names \cup {NoName}, n : 1..MaxSaid]

Joined(n) == [kind |-> "joined", name |-> n]       \* char(23) + name
Left(n) == [kind |-> "left", name |-> n]           \* char(22) + name
Chat(c, n) == [kind |-> "chat", from |-> c, n |-> n]  \* char(20) or char(21)

Messages ==
  [kind : {"joined", "left"}, name : Names] \cup
  [kind : {"chat"}, from : Conns, n : 1..MaxSaid]

Nothing == [kind |-> "nothing"]

Init ==
  /\ nameConn = [n \in Names |-> NoConn]
  /\ connName = [c \in Conns |-> NoEntry]
  /\ state = [c \in Conns |-> "kConnecting"]
  /\ shut = {} /\ ended = {} /\ crashed = FALSE
  /\ pc = [l \in Loops |-> "idle"] /\ conn = [l \in Loops |-> NoConn]
  /\ req = [l \in Loops |-> Nothing] /\ todo = [l \in Loops |-> {}]
  /\ mail = [l \in Loops |-> <<>>]
  /\ client = [c \in Conns |-> "away"] /\ inbox = [c \in Conns |-> <<>>]
  /\ said = [c \in Conns |-> 0] /\ view = [c \in Conns |-> {}]
  /\ seen = [c \in Conns |-> {}]
  /\ got = [c \in Conns |-> [d \in Conns |-> 0]]

-----------------------------------------------------------------------------
(* The clients (EasyChat.cpp): connect and send the name, read the list,   *)
(* close at once if the own name is in it twice, chat otherwise.           *)

Connect(c) ==
  /\ client[c] = "away"
  /\ client' = [client EXCEPT ![c] = "waiting"]
  /\ inbox' = [inbox EXCEPT ![c] =
                 <<[kind |-> "login", text |-> NameOf[c]]>>]
  /\ UNCHANGED <<maps, server, handler, mail, said, stream, crashed>>

Send(c, line) ==
  /\ client[c] = "in"
  /\ said[c] < MaxSaid
  /\ said' = [said EXCEPT ![c] = @ + 1]
  /\ inbox' = [inbox EXCEPT ![c] = Append(@, line)]
  /\ UNCHANGED <<maps, server, handler, mail, client, stream, crashed>>

SendGroup(c) ==
  Send(c, [kind |-> "group", text |-> Junk, n |-> said[c] + 1])

\* toBox(): the name clicked in the list, which stays when its row has gone.
\* The own name has a suffix there that makes it nobody's, as it is before
\* anything is clicked.
Addressees(c) ==
  {m \in seen[c] : m = NameOf[c] => \E d \in Conns \ {c} : NameOf[d] = m} \cup {NoName}

SendPrivate(c) ==
  \E n \in Addressees(c) :
    Send(c, [kind |-> "private", text |-> Junk, to |-> n, n |-> said[c] + 1])

\* closesocket() for a name met twice, or the window closed at any moment.
\* If the reset overtakes what was sent, the server never reads it.
Close(c) ==
  /\ client[c] \notin {"away", "closed"}
  /\ client' = [client EXCEPT ![c] = "closed"]
  /\ \E unread \in {inbox[c], <<>>} : inbox' = [inbox EXCEPT ![c] = unread]
  /\ UNCHANGED <<maps, server, handler, mail, said, stream, crashed>>

-----------------------------------------------------------------------------
(* Sending to a client.                                                    *)

\* SendInLoop(): nothing is written to a connection already marked
\* kDisconnected.  What is written changes what the client shows.
Write(c, m) ==
  IF state[c] = "kDisconnected" THEN UNCHANGED stream
  ELSE
    /\ view' = [view EXCEPT ![c] =
         CASE m.kind = "joined" -> @ \cup {m.name}
           [] m.kind = "left" -> @ \ {m.name}
           [] m.kind = "chat" -> @]
    /\ seen' = IF m.kind = "joined"
                 THEN [seen EXCEPT ![c] = @ \cup {m.name}] ELSE seen
    /\ got' = IF m.kind = "chat"
                THEN [got EXCEPT ![c][m.from] = m.n] ELSE got

\* Wrong on purpose: the newest functor is run first.
QueuedInFront(l, f) == [mail EXCEPT ![l] = <<f>> \o @]

\* QueueInLoop().
Queued(l, f) == [mail EXCEPT ![l] = Append(@, f)]

\* TcpConnection::Send(), called on loop l.
SendTo(l, c, m) ==
  IF state[c] # "kConnected" THEN UNCHANGED <<stream, mail>>
  ELSE IF LoopOf[c] = l
    THEN Write(c, m) /\ UNCHANGED mail
    ELSE mail' = Queued(LoopOf[c], [to |-> c, msg |-> m]) /\ UNCHANGED stream

\* The next functor of loop l, between two handlers.
RunMail(l) ==
  /\ pc[l] = "idle"
  /\ mail[l] # <<>>
  /\ mail' = [mail EXCEPT ![l] = Tail(@)]
  /\ Write(Head(mail[l]).to, Head(mail[l]).msg)
  /\ UNCHANGED <<maps, server, handler, peer, crashed>>

-----------------------------------------------------------------------------
(* Control of a handler.                                                   *)

At(l, where) == pc[l] = where
Goto(l, where) == pc' = [pc EXCEPT ![l] = where]

\* The handler of loop l returns.
Return(l) ==
  /\ Goto(l, "idle")
  /\ conn' = [conn EXCEPT ![l] = NoConn]
  /\ req' = [req EXCEPT ![l] = Nothing]

Enter(l, c, where, what) ==
  /\ pc[l] = "idle"
  /\ Goto(l, where)
  /\ conn' = [conn EXCEPT ![l] = c]
  /\ req' = [req EXCEPT ![l] = what]

\* map_mtx: a broadcast holds it shared across its steps.
Broadcasting == {"joining", "leaving", "talking"}
NoReader(l) == \A k \in Loops \ {l} : pc[k] \notin Broadcasting

Registered(c) == connName[c] \in Names

\* conn_name_map_[conn], which inserts "" for a connection it does not know.
LookUp(c) ==
  connName' = [connName EXCEPT ![c] = IF Registered(c) THEN @ ELSE NoName]

\* name_conn_map_.find().
HolderOf(n) == IF n \in Names THEN nameConn[n] ELSE NoConn

OnLoop(l) == {c \in Conns : LoopOf[c] = l}

-----------------------------------------------------------------------------
(* The handlers of a connection, on its loop.                              *)

\* ConnectionEstablished() and the "up" branch of OnConnection().
Establish(l) ==
  /\ pc[l] = "idle"
  /\ \E c \in OnLoop(l) :
       /\ client[c] # "away"
       /\ state[c] = "kConnecting"
       /\ state' = [state EXCEPT ![c] = "kConnected"]
  /\ UNCHANGED <<maps, shut, ended, handler, mail, peer, stream, crashed>>

\* HandleRead() with n > 0: ReadFd() takes all that has arrived, and the
\* handlers look at the first request in it only.
HandleRead(l) ==
  /\ \E c \in OnLoop(l) \ ended : \E k \in 1..Len(inbox[c]) :
       /\ state[c] # "kConnecting"
       /\ Enter(l, c, "isNewClient", Head(inbox[c]))
       /\ inbox' = [inbox EXCEPT ![c] = SubSeq(@, k + 1, Len(@))]
  /\ UNCHANGED <<maps, server, todo, mail, client, said, stream, crashed>>

\* Wrong on purpose: end-of-file counts only while state_ is kConnected.
AtEndConnected(c) ==
  state[c] = "kConnected" /\ client[c] = "closed" /\ inbox[c] = <<>>

\* What Read() takes for the end: the peer has closed, or Shutdown() has shut
\* the reading side down, and everything sent before has been read.
AtEnd(c) == (client[c] = "closed" \/ c \in shut) /\ inbox[c] = <<>>

\* HandleRead() with n = 0, then HandleClose() up to UserExit().
HandleClose(l) ==
  /\ \E c \in OnLoop(l) \ ended :
       /\ state[c] # "kConnecting"
       /\ AtEnd(c)
       /\ Enter(l, c, "userExit", Nothing)
       /\ state' = [state EXCEPT ![c] = "kDisconnected"]
       /\ ended' = ended \cup {c}
  /\ UNCHANGED <<maps, shut, todo, mail, peer, stream, crashed>>

\* ReadCb(), line 164: whatever a connection without a name sent is taken for
\* one.  Otherwise the first byte tells a private message from one to all.
IsNewClient(l) ==
  LET c == conn[l] IN
  /\ At(l, "isNewClient")
  /\ LookUp(c)
  /\ \/ ~Registered(c) /\ Goto(l, "list")
     \/ Registered(c) /\ req[l].kind = "private" /\ Goto(l, "find")
     \/ Registered(c) /\ req[l].kind = "group" /\ Goto(l, "toTalk")
  /\ UNCHANGED <<nameConn, server, conn, req, todo, mail, peer, stream, crashed>>

\* UserLogin(), lines 75-82.  A client that finds its own name among the
\* others will close, any other one enters the room.
SendList(l) ==
  LET c == conn[l]
      others == {n \in Names : nameConn[n] # NoConn}
      list == others \cup {req[l].text}
  IN
  /\ At(l, "list")
  /\ Goto(l, "isNewName")
  /\ IF state[c] # "kConnected" THEN UNCHANGED <<view, seen, client>>
     ELSE /\ view' = [view EXCEPT ![c] = list]
          /\ seen' = [seen EXCEPT ![c] = list]
          /\ client' = IF client[c] # "waiting" THEN client
                       ELSE [client EXCEPT ![c] =
                              IF req[l].text \in others THEN "dup" ELSE "in"]
  /\ UNCHANGED <<maps, server, conn, req, todo, mail, inbox, said, got,
                 crashed>>

\* Wrong on purpose: any name will do.
IsFreeAlways(n) == TRUE

\* name_conn_map_ has no such name.
IsFree(n) == HolderOf(n) = NoConn

\* Line 83: the name is looked up without the lock; a free one goes on to be
\* announced and inserted.
IsNewName(l) ==
  /\ At(l, "isNewName")
  /\ IsFree(req[l].text)
  /\ Goto(l, "toJoin")
  /\ UNCHANGED <<maps, server, conn, req, todo, mail, peer, stream, crashed>>

\* Line 97: Shutdown(), which shuts the reading side down, not the writing
\* one, so that the connection reads end-of-file by itself.
RefuseName(l) ==
  LET c == conn[l] IN
  /\ At(l, "isNewName")
  /\ ~IsFree(req[l].text)
  /\ Return(l)
  /\ IF state[c] = "kConnected"
       THEN /\ state' = [state EXCEPT ![c] = "kDisconnected"]
            /\ shut' = shut \cup {c}
       ELSE UNCHANGED <<state, shut>>
  /\ UNCHANGED <<maps, ended, todo, mail, peer, stream, crashed>>

\* SendGroupMsg(): a line goes to all with its sender's name before it.
GroupMsg(l) == Chat(conn[l], req[l].n)

\* What the broadcast of loop l says.
Announcement(l) ==
  CASE pc[l] = "joining" -> Joined(req[l].text)
    [] pc[l] = "leaving" -> Left(connName[conn[l]])
    [] pc[l] = "talking" -> GroupMsg(l)

\* Wrong on purpose: names without a connection are sent to as well.
RecipientsAll(l) == {nameConn[n] : n \in Names} \ {conn[l]}

\* Broadcast() has the sender among the recipients, BroadcastNoSelf() not.
Recipients(l) ==
  {nameConn[n] : n \in Names} \
    (IF At(l, "toTalk") THEN {NoConn} ELSE {NoConn, conn[l]})

\* Broadcast() and BroadcastNoSelf(): map_mtx is taken, and held until
\* AnnounceDone.
BeginAnnounce(l) ==
  /\ \/ At(l, "toJoin") /\ Goto(l, "joining")
     \/ At(l, "toLeave") /\ Goto(l, "leaving")
     \/ At(l, "toTalk") /\ Goto(l, "talking")
  /\ todo' = [todo EXCEPT ![l] = Recipients(l)]
  /\ UNCHANGED <<maps, server, conn, req, mail, peer, stream, crashed>>

\* One recipient.
Announce(l) ==
  /\ pc[l] \in Broadcasting
  /\ \E c \in todo[l] :
       /\ SendTo(l, c, Announcement(l))
       /\ todo' = [todo EXCEPT ![l] = @ \ {c}]
  /\ UNCHANGED <<maps, server, pc, conn, req, peer, crashed>>

\* The shared lock is released.
AnnounceDone(l) ==
  /\ pc[l] \in Broadcasting
  /\ todo[l] = {}
  /\ CASE pc[l] = "joining" -> Goto(l, "insert") /\ UNCHANGED <<conn, req>>
       [] pc[l] = "leaving" -> Goto(l, "erase") /\ UNCHANGED <<conn, req>>
       [] pc[l] = "talking" -> Return(l)
  /\ UNCHANGED <<maps, server, todo, mail, peer, stream, crashed>>

\* Lines 91-95, under the exclusive lock.
Insert(l) ==
  /\ At(l, "insert")
  /\ NoReader(l)
  /\ connName' = [connName EXCEPT ![conn[l]] = req[l].text]
  /\ nameConn' = [nameConn EXCEPT ![req[l].text] = conn[l]]
  /\ Return(l)
  /\ UNCHANGED <<server, todo, mail, peer, stream, crashed>>

\* Wrong on purpose: nobody is told of the exit.
ExitPathSilent(c) == IF Registered(c) THEN "erase" ELSE "forget"

\* A user leaves the others a message, a connection without a name does not.
ExitPath(c) == IF Registered(c) THEN "toLeave" ELSE "forget"

\* UserExit(), lines 102-105 and 112.
UserExit(l) ==
  LET c == conn[l] IN
  /\ At(l, "userExit")
  /\ LookUp(c)
  /\ Goto(l, ExitPath(c))
  /\ UNCHANGED <<nameConn, server, conn, req, todo, mail, peer, stream, crashed>>

\* Wrong on purpose: one of the two maps is not changed.
KeepName(n) == nameConn
KeepConn(c) == connName

\* name_conn_map_.erase() and conn_name_map_.erase().
WithoutName(n) == [nameConn EXCEPT ![n] = NoConn]
WithoutConn(c) == [connName EXCEPT ![c] = NoEntry]

\* Lines 106-111: the name goes, whoever holds it by now.
Erase(l) ==
  /\ At(l, "erase")
  /\ NoReader(l)
  /\ nameConn' = WithoutName(connName[conn[l]])
  /\ connName' = WithoutConn(conn[l])
  /\ Return(l)
  /\ UNCHANGED <<server, todo, mail, peer, stream, crashed>>

\* Lines 113-116.
Forget(l) ==
  /\ At(l, "forget")
  /\ NoReader(l)
  /\ connName' = WithoutConn(conn[l])
  /\ Return(l)
  /\ UNCHANGED <<nameConn, server, todo, mail, peer, stream, crashed>>

\* Wrong on purpose: the addressee is not looked for.
IsFoundAlways(n) == TRUE

IsFound(n) == HolderOf(n) # NoConn

\* SendPrivateMsg(), line 137: an addressee that is not found ends it.
Find(l) ==
  /\ At(l, "find")
  /\ IF IsFound(req[l].to) THEN Goto(l, "use") /\ UNCHANGED <<conn, req>>
     ELSE Return(l)
  /\ UNCHANGED <<maps, server, todo, mail, peer, stream, crashed>>

\* Line 140: operator[] again.  If the name has gone meanwhile it inserts a
\* null pointer, and Send() on it kills the process.
Use(l) ==
  LET c == HolderOf(req[l].to) IN
  /\ At(l, "use")
  /\ IF c = NoConn
       THEN crashed' = TRUE /\ UNCHANGED <<pc, mail, stream>>
       ELSE /\ SendTo(l, c, Chat(conn[l], req[l].n))
            /\ Goto(l, "log")
            /\ UNCHANGED crashed
  /\ UNCHANGED <<maps, server, conn, req, todo, peer>>

\* Lines 141-143: both names are looked up by operator[] once more.
LogPrivate(l) ==
  /\ At(l, "log")
  /\ IF NoConn \in {HolderOf(connName[conn[l]]), HolderOf(req[l].to)}
       THEN crashed' = TRUE /\ UNCHANGED <<pc, conn, req>>
       ELSE Return(l) /\ UNCHANGED crashed
  /\ UNCHANGED <<maps, server, todo, mail, peer, stream>>

-----------------------------------------------------------------------------
(* Data races.  Two loops that are about to touch the same map, one of     *)
(* them to change its structure and not both under map_mtx, may corrupt    *)
(* it: either the accesses happen to take effect one after the other, as   *)
(* above, or the process dies.                                             *)

\* The maps loop l is about to read or change, and whether map_mtx is held.
ReadsMap(l) ==
  CASE pc[l] \in {"isNewClient", "userExit"} -> {"conn"}
    [] pc[l] = "find" -> {"conn", "name"}
    [] pc[l] \in {"list", "isNewName", "use", "log"} \cup Broadcasting -> {"name"}
    [] OTHER -> {}

WritesMap(l) ==
  CASE pc[l] \in {"isNewClient", "userExit"} ->
         IF connName[conn[l]] = NoEntry THEN {"conn"} ELSE {}
    [] pc[l] = "use" -> IF HolderOf(req[l].to) = NoConn THEN {"name"} ELSE {}
    [] pc[l] \in {"insert", "erase"} -> {"conn", "name"}
    [] pc[l] = "forget" -> {"conn"}
    [] OTHER -> {}

Locked(l) == pc[l] \in {"list", "insert", "erase", "forget"} \cup Broadcasting

Racing(l, k) ==
  /\ l # k
  /\ ~(Locked(l) /\ Locked(k))
  /\ WritesMap(l) \cap (ReadsMap(k) \cup WritesMap(k)) # {}

Race(l) ==
  /\ \E k \in Loops : Racing(l, k)
  /\ crashed' = TRUE
  /\ UNCHANGED <<maps, server, handler, mail, peer, stream>>

-----------------------------------------------------------------------------
LoopStep(l) ==
  /\ ~crashed
  /\ \/ RunMail(l) \/ Establish(l) \/ HandleRead(l) \/ HandleClose(l)
     \/ IsNewClient(l) \/ SendList(l) \/ IsNewName(l) \/ RefuseName(l)
     \/ BeginAnnounce(l) \/ Announce(l) \/ AnnounceDone(l) \/ Insert(l)
     \/ UserExit(l) \/ Erase(l) \/ Forget(l)
     \/ Find(l) \/ Use(l) \/ LogPrivate(l)

ClientStep(c) ==
  /\ ~crashed
  /\ Connect(c) \/ SendGroup(c) \/ SendPrivate(c) \/ Close(c)

\* Every connection has come and gone, or the process has.
Terminated ==
  /\ crashed \/ (ended = Conns /\ \A l \in Loops : pc[l] = "idle" /\ mail[l] = <<>>)
  /\ UNCHANGED vars

Next ==
  \/ \E l \in Loops : LoopStep(l)
  \/ \E l \in Loops : ~crashed /\ Race(l)
  \/ \E c \in Conns : ClientStep(c)
  \/ Terminated

SafeSpec == Init /\ [][Next]_vars

\* A loop with something to do goes on doing it; a client that found its
\* name taken closes.  Nobody has to log in, to chat or to leave.
Fairness ==
  /\ \A l \in Loops : WF_vars(LoopStep(l))
  /\ \A c \in Conns : WF_vars(client[c] = "dup" /\ ~crashed /\ Close(c))

Spec == SafeSpec /\ Fairness

-----------------------------------------------------------------------------
(* Properties.                                                             *)

Pcs == {"idle", "isNewClient", "list", "isNewName", "toJoin", "joining",
        "insert", "userExit", "toLeave", "leaving", "erase", "forget",
        "toTalk", "talking", "find", "use", "log"}

\* Type invariant.
TypeOK ==
  /\ nameConn \in [Names -> Conns \cup {NoConn}]
  /\ connName \in [Conns -> Names \cup {NoName, NoEntry}]
  /\ state \in [Conns -> {"kConnecting", "kConnected", "kDisconnected"}]
  /\ shut \subseteq Conns /\ ended \subseteq Conns
  /\ pc \in [Loops -> Pcs]
  /\ conn \in [Loops -> Conns \cup {NoConn}]
  /\ req \in [Loops -> Requests \cup {Nothing}]
  /\ todo \in [Loops -> SUBSET Conns]
  /\ mail \in [Loops -> Seq([to : Conns, msg : Messages])]
  /\ client \in [Conns -> {"away", "waiting", "dup", "in", "closed"}]
  /\ inbox \in [Conns -> Seq(Requests)] /\ said \in [Conns -> 0..MaxSaid]
  /\ view \in [Conns -> SUBSET Names] /\ seen \in [Conns -> SUBSET Names]
  /\ got \in [Conns -> [Conns -> 0..MaxSaid]]
  /\ crashed \in BOOLEAN

\* A name leads to a connection only if that connection goes by that name,
\* whatever the loops do to the two maps at the same time: a private message
\* never reaches somebody who does not have the name it is addressed to.
NamesLeadHome ==
  \A n \in Names : nameConn[n] # NoConn => connName[nameConn[n]] = n

\* No two connections go by the same name.  Holds with one loop only.
NamesUnique ==
  \A c, d \in Conns : Registered(c) /\ connName[d] = connName[c] => c = d

\* Every user in the room has the name typed in: no line of chat was ever
\* taken for a login.  Fails with two loops, where a user that was refused may
\* have been let in by its own check.
NamesTyped == \A c \in Conns : Registered(c) => connName[c] = NameOf[c]

\* The two maps are inverses of each other.  Holds with one loop only.
MapsAgree ==
  \A c \in Conns : \A n \in Names : nameConn[n] = c <=> connName[c] = n

\* Loop l has returned from the handlers of c.
Idle(c) == conn[LoopOf[c]] # c

\* A connection that has ended is in neither map once its last handler has
\* returned, so that the maps do not keep it alive, and nothing that happens
\* later puts it back.
ExitForgets ==
  \A c \in ended : Idle(c) =>
    connName[c] = NoEntry /\ \A n \in Names : nameConn[n] # c

\* When nothing is under way, every client in the room shows exactly the
\* users the server has.
Quiet == \A l \in Loops : pc[l] = "idle" /\ mail[l] = <<>>

ListsExact ==
  Quiet => \A c \in Conns : client[c] = "in" /\ Registered(c) =>
             view[c] = {n \in Names : nameConn[n] # NoConn}

\* A client that was let in was let in by the server too, or is on its way.
\* Server and client judge the name by different looks at the map.
SameVerdict ==
  Quiet => \A c \in Conns :
    /\ client[c] = "in" => Registered(c)
    /\ client[c] = "dup" => ~Registered(c)

\* No handler dereferences a null pointer, no map is corrupted.
NoCrash == ~crashed

\* The lines of one client reach each other one in the order they were sent,
\* whether written at once or queued on another loop, private or to all.
LinesInOrder ==
  [][\A c, d \in Conns : got'[c][d] # got[c][d] => got'[c][d] > got[c][d]]_got

\* A connection its peer has closed, or whose name was refused, ends and is
\* forgotten.
EveryExitEnds ==
  \A c \in Conns :
    (client[c] = "closed" \/ c \in shut) ~> (c \in ended /\ Idle(c)) \/ crashed

Names1To1 == INSTANCE Roster
  WITH holder <- nameConn, gone <- {c \in ended : Idle(c)}

\* With one loop the handlers together keep the promise of Roster.
KeepsRoster == Names1To1!Spec
=============================================================================
