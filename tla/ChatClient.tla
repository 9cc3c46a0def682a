------------------------------ MODULE ChatClient ------------------------------
(***************************************************************************)
(* One Qt client (login.cpp, EasyChat.cpp): the window's thread, which     *)
(* logs in, receives the user list and then runs Flush_Ui() for every      *)
(* flush() signal, the RecvThread, which appends what it receives to the   *)
(* global now_content and emits flush(), and the server's messages on the  *)
(* way.                                                                    *)
(*                                                                         *)
(* now_content is shared without a lock.  The window reads it in one step  *)
(* and clears it in another, and the RecvThread may append in between, or  *)
(* the two accesses collide and the client dies.  recv() returns one or    *)
(* more messages that have arrived, as TCP delivers them; a message longer *)
(* than the receive buffer is not modelled, nor a second user called Self. *)
(***************************************************************************)
EXTENDS Integers, Sequences, FiniteSets, SequencesExt

CONSTANTS
  Self,          \* info::name
  Others,        \* the other users
  Group,         \* the row of the chat with all
  Garbled,       \* text taken for a name that is none, no two the same
  Paces,         \* the values of paced: FALSE, TRUE or both
  MaxMsgs        \* bound: messages after the user list

ASSUME NameAssumption ==
  {Self} \cap Others = {} /\ {Group, Garbled} \cap ({Self} \cup Others) = {}
ASSUME OthersAssumption == IsFiniteSet(Others)
ASSUME ModeAssumption == Paces \subseteq BOOLEAN
ASSUME BoundAssumption == MaxMsgs \in Nat

VARIABLES
  list,          \* the user list the server has sent, not received yet
  wire,          \* messages sent after it and not received
  link,          \* "none" yet, "failed" to connect, "asked" with the name,
                 \* "open", "closed" by the server, or "reset"
  paced,         \* the server sends when the client has nothing left to do
  count,         \* number of messages sent after the user list
  online,        \* the users the server has told the client of
  users,         \* User_list
  rows,          \* the items of ui->UserList
  shown,         \* the messages that were shown
  unknown,       \* the exit of a user that is not in User_list was shown
  content,       \* now_content
  flushes,       \* flush() signals queued for the window
  unheard,       \* now_content grew, and no flush() was queued then or since
  main,          \* the window: "form", "list", "started" the RecvThread,
                 \* "loop", "flushing", "closed" or "dead"
  recv           \* the RecvThread: "none", "recv" or "ended"

server == <<paced, count, online>>
window == <<users, rows, shown, unknown>>
inbox == <<content, flushes, unheard>>
vars == <<list, wire, link, server, window, inbox, main, recv>>

\* char(23) + name, char(22) + name, and char(20) and char(21) for chat.
Kinds == {"joined", "left", "private", "group"}
Messages == [kind : Kinds, user : Others, n : 1..MaxMsgs]

Init ==
  /\ list = <<>> /\ wire = <<>> /\ link = "none"
  /\ paced \in Paces /\ count = 0 /\ online = {}
  /\ users = <<>> /\ rows = <<>> /\ shown = <<>> /\ unknown = FALSE
  /\ content = <<>> /\ flushes = 0 /\ unheard = FALSE
  /\ main = "form" /\ recv = "none"

-----------------------------------------------------------------------------
(* The server: external here, see ChatRoom.tla.                            *)

AllDone == wire = <<>> /\ flushes = 0 /\ main = "loop"

\* The list of the users, the own name last; among the others, too, if it is
\* taken.
ServerAnswer ==
  /\ link = "asked"
  /\ link' = "open"
  /\ online' \in SUBSET Others
  /\ \E taken \in {<<>>, <<Self>>} :
       list' = taken \o SetToSeq(online') \o <<Self>>
  /\ UNCHANGED <<wire, paced, count, window, inbox, main, recv>>

ServerSend ==
  /\ link = "open"
  /\ count < MaxMsgs
  /\ paced => AllDone
  /\ \E u \in Others, k \in Kinds :
       /\ k = "joined" <=> u \notin online
       /\ wire' = Append(wire, [kind |-> k, user |-> u, n |-> count + 1])
       /\ online' = CASE k = "joined" -> online \cup {u}
                      [] k = "left" -> online \ {u}
                      [] OTHER -> online
  /\ count' = count + 1
  /\ UNCHANGED <<list, link, paced, window, inbox, main, recv>>

\* The server closes, in order or by a reset.
ServerClose ==
  /\ link \in {"asked", "open"}
  /\ link' \in {"closed", "reset"}
  /\ UNCHANGED <<list, wire, server, window, inbox, main, recv>>

-----------------------------------------------------------------------------
(* The window.                                                             *)

\* Lines 41-56: the result of connect() is not looked at, and the name is
\* sent.
Connect == link' \in {"asked", "failed"}

\* Login_Success(): with a name and an address that are accepted the slot
\* reciveLogin() is called, and blocks in recv(); otherwise the form stays.
LoginSuccess ==
  /\ main = "form"
  /\ main' = "list"
  /\ Connect
  /\ UNCHANGED <<list, wire, server, window, inbox, recv>>

\* Lines 61-64: what the first recv() returns is taken for the list.  If
\* messages have come with it they make one more entry, after the last "+".
\* If recv() fails or returns 0 the list is empty.
ReceiveList ==
  \/ /\ list # <<>> /\ link # "reset"
     /\ \E k \in 0..Len(wire) :
          /\ wire' = SubSeq(wire, k + 1, Len(wire))
          /\ users' = list \o (IF k > 0 THEN <<Garbled>> ELSE <<>>)
  \/ /\ link \in {"failed", "reset"} \/ (link = "closed" /\ list = <<>>)
     /\ wire' = <<>>
     /\ users' = <<>>

\* The own name is in the list more than once.
MetTwice(s) == \E i, j \in DOMAIN s : i # j /\ s[i] = Self /\ s[j] = Self

\* Lines 65-104: closesocket() if the own name is there twice.  Otherwise a
\* row for the chat with all and one for each user are made, then the
\* RecvThread is started, before anything is connected to its signal.
ReciveLogin ==
  /\ main = "list"
  /\ ReceiveList
  /\ list' = <<>>
  /\ \/ /\ MetTwice(users')
        /\ main' = "closed"
        /\ UNCHANGED <<rows, recv>>
     \/ /\ ~MetTwice(users')
        /\ main' = "started"
        /\ rows' = <<Group>> \o users'
        /\ recv' = "recv"
  /\ UNCHANGED <<link, server, shown, unknown, inbox>>

\* Lines 107-111: flush() is connected to Flush_Ui().
ConnectFlush ==
  /\ main = "started"
  /\ main' = "loop"
  /\ UNCHANGED <<list, wire, link, server, window, inbox, recv>>

\* Treated_Msg[1]: what now_content has between its first byte and the next
\* one like it.  A message of another kind that follows is taken in.
TreatedName ==
  IF Len(content) > 1 /\ content[2].kind # content[1].kind THEN Garbled
  ELSE content[1].user

\* indexOf(): counted from 0, -1 if there is none.
IndexOf(u) == IF u = Garbled THEN -1 ELSE SelectInSeq(users, LAMBDA x : x = u) - 1

\* Wrong on purpose: the row of the chat with all is not counted.
RowNoGroup(u) == IndexOf(u)

\* Line 183: the row of a user, or of the chat with all for nobody's name.
RowOf(u) == IndexOf(u) + 1

\* takeItem(i) takes row i, counted from 0, if there is one.
TakeItem(i) == IF i + 1 \in DOMAIN rows THEN RemoveAt(rows, i + 1) ELSE rows

\* Wrong on purpose: User_list keeps the name.
RemovedNot(u) == users

\* User_list.removeOne(u).
Removed(u) == IF IndexOf(u) < 0 THEN users ELSE RemoveAt(users, IndexOf(u) + 1)

\* Lines 181-186.
UserLeft(u) ==
  /\ rows' = TakeItem(RowOf(u))
  /\ users' = Removed(u)
  /\ unknown' = (unknown \/ IndexOf(u) < 0)

\* Lines 190-201.
UserJoined(u) ==
  /\ users' = Append(users, u)
  /\ rows' = Append(rows, u)
  /\ UNCHANGED unknown

\* Flush_Ui(), lines 155-202: the first message in now_content is shown.  If
\* there is none, at(0) reads the terminator and nothing matches.
Flush ==
  /\ main = "loop"
  /\ flushes > 0
  /\ flushes' = flushes - 1
  /\ main' = "flushing"
  /\ \/ content = <<>> /\ UNCHANGED window
     \/ /\ content # <<>>
        /\ shown' = Append(shown, Head(content).n)
        /\ CASE Head(content).kind = "joined" -> UserJoined(TreatedName)
             [] Head(content).kind = "left" -> UserLeft(TreatedName)
             [] OTHER -> UNCHANGED <<users, rows, unknown>>
  /\ UNCHANGED <<list, wire, link, server, content, unheard, recv>>

\* Wrong on purpose: now_content is kept.
NotCleared == content

\* now_content.clear(): whatever else it holds goes too.
Cleared == <<>>

\* Line 203.
FlushClear ==
  /\ main = "flushing"
  /\ content' = Cleared
  /\ main' = "loop"
  /\ UNCHANGED <<list, wire, link, server, window, flushes, unheard, recv>>

-----------------------------------------------------------------------------
(* RecvThread::run().                                                      *)

\* Wrong on purpose: flush() is not emitted.
EmitNot == flushes

\* emit flush(): a call queued for the window's thread.
Emit == flushes + 1

\* append(buffer) takes the bytes up to the first NUL.  Only a line to all has
\* any: it was sent with length()*3 bytes, and the server passes them on.
UpToNul(s) ==
  LET i == SelectInSeq(s, LAMBDA m : m.kind = "group") IN
  IF i = 0 THEN s ELSE SubSeq(s, 1, i)

\* recv() returns k messages, which are appended to now_content, and flush()
\* is emitted: to nobody as long as it is not connected.
RecvSome ==
  /\ recv = "recv"
  /\ link # "reset"
  /\ \E k \in 1..Len(wire) :
       /\ content' = content \o UpToNul(SubSeq(wire, 1, k))
       /\ wire' = SubSeq(wire, k + 1, Len(wire))
  /\ flushes' = IF main = "started" THEN flushes ELSE Emit
  /\ unheard' = (main = "started")
  /\ UNCHANGED <<list, link, server, window, main, recv>>

\* Wrong on purpose: flush() is emitted after recv() has returned 0, too.
RecvNothingFlush ==
  /\ recv = "recv"
  /\ wire = <<>>
  /\ link = "closed"
  /\ flushes' = Emit
  /\ UNCHANGED <<list, wire, link, server, window, content, unheard, main, recv>>

\* recv() returns 0 after the server has closed: the loop calls it again.
RecvNothing ==
  /\ recv = "recv"
  /\ wire = <<>>
  /\ link = "closed"
  /\ UNCHANGED vars

\* recv() fails; what had come and was not received is lost.
RecvError ==
  /\ recv = "recv"
  /\ link \in {"failed", "reset"}
  /\ recv' = "ended"
  /\ wire' = <<>>
  /\ UNCHANGED <<list, link, server, window, inbox, main>>

\* now_content is appended to while Flush_Ui() reads or clears it: if the two
\* do not happen to take effect one after the other, the string is corrupted
\* and the client dies.
Race ==
  /\ recv = "recv"
  /\ wire # <<>>
  /\ main = "flushing"
  /\ main' = "dead"
  /\ recv' = "ended"
  /\ UNCHANGED <<list, wire, link, server, window, inbox>>

-----------------------------------------------------------------------------
WindowStep == ReciveLogin \/ ConnectFlush \/ Flush \/ FlushClear
RecvStep == RecvSome \/ RecvNothing \/ RecvError

\* The user may sit before the window for ever.
Idle ==
  /\ main \in {"closed", "dead"} \/ (AllDone /\ (count = MaxMsgs \/ link # "open"))
  /\ UNCHANGED vars

Next ==
  \/ ServerAnswer \/ ServerSend \/ ServerClose
  \/ LoginSuccess \/ WindowStep \/ RecvStep \/ Race \/ Idle

\* Both threads go on; nobody need log in, answer, send or close.
Spec == Init /\ [][Next]_vars /\ WF_vars(WindowStep) /\ WF_vars(RecvStep)

-----------------------------------------------------------------------------
(* Properties.                                                             *)

\* Type invariant.
TypeOK ==
  /\ list \in Seq({Self} \cup Others)
  /\ wire \in Seq(Messages) /\ content \in Seq(Messages)
  /\ link \in {"none", "failed", "asked", "open", "closed", "reset"}
  /\ paced \in BOOLEAN /\ count \in 0..MaxMsgs /\ online \subseteq Others
  /\ users \in Seq({Self, Garbled} \cup Others)
  /\ rows \in Seq({Self, Garbled, Group} \cup Others)
  /\ shown \in Seq(1..MaxMsgs) /\ unknown \in BOOLEAN
  /\ flushes \in 0..MaxMsgs /\ unheard \in BOOLEAN
  /\ main \in {"form", "list", "started", "loop", "flushing", "closed", "dead"}
  /\ recv \in {"none", "recv", "ended"}

\* The rows of the window are the chat with all and then User_list, one by
\* one, as takeItem(index + 1) presumes, until an exit is shown whose name
\* User_list does not have: index is -1 then, and the row of the chat with all
\* is taken.  That never happens if every message is handled before the next
\* one comes.
RowsMatch ==
  main \in {"started", "loop", "flushing"} /\ (paced \/ ~unknown) =>
    rows = <<Group>> \o users

\* No message is shown twice or before an earlier one, however recv() cuts
\* the stream and whenever flush() is handled.
ShownInOrder == \A i, j \in DOMAIN shown : i < j => shown[i] < shown[j]

\* When nothing is under way User_list is the users the server told of.
ListFollows ==
  AllDone /\ link = "open" =>
    Len(users) = Cardinality(online) + 1 /\ ToSet(users) = online \cup {Self}

\* It is, and every message has been shown, if every message is handled before
\* the next one comes, for which the code makes no provision.
ListFollowsPaced ==
  paced /\ AllDone /\ link = "open" => ListFollows /\ Len(shown) = count

\* What was received does not stay in now_content: a flush() is queued for
\* whatever came, even while an earlier one is handled.  It may stay if it came
\* before flush() was connected, until the next message comes.
ContentTaken ==
  content # <<>> /\ ~unheard ~> content = <<>> \/ main = "dead"
=============================================================================
