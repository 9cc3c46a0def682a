# ChatRoom_CQt in TLA+

A chat room for a local network: a Qt client (`src/*.cpp`, Windows sockets) and a C++ server
(`src/server`), built on a small reactor library after muduo (`src/server/src`, `include`) and one
application file, `src/server/example/server.cpp`. This directory models the server from the
eventfd up to the two maps of the chat room, and the client from its login form to its user list,
checks the models with TLC and proves their safety properties with TLAPS, for every value of the
constants.

## 1. The system

| part | state | operations | interacts with |
|---|---|---|---|
| `EventLoop` | `quit_`, `pending_functors_` (under `mtx_`), `calling_pending_functors_`, `wakeup_fd_`, `active_channels_` | `Loop`, `Quit`, `RunInLoop`, `QueueInLoop`, `DoPendingFunctors` | every thread that holds a pointer to it; the poller; its channels |
| `Channel`, `EpollPoller` | `events_`, `index_`, the tie; `channels_`, what epoll has | `Enable*/Disable*`, `Remove`, `HandleEvent`, `Poll` | called on the loop's thread only |
| `TcpConnection` | `state_`, input and output buffer, its channel and socket | `Send`, `Shutdown`, `HandleRead/Write/Close/Error`, `ConnectionEstablished`, `ConnectDestroyed` | `Send` from any thread, the rest on its io loop; callbacks into server and application |
| `TcpServer`, `Acceptor` | `connections_`, `next_connection_id_`, the listening socket | `Start`, `HandleRead` (accept), `NewConnection`, `RemoveConnection(InLoop)` | runs on the base loop, queues functors on io loops and gets some from them |
| `EventLoopThreadPool`, `EventLoopThread`, `Thread` | `loops_`, `next_`; `loop_`; `started_`, `joined_` | `Start`, `get_next_loop`, `StartLoop`, destructors | mutex, condition variable and semaphore between owner and thread |
| `Buffer` | a vector, reader and writer index | `Append`, `ReadFd`, `WriteFd`, `Retrive*` | owned by a connection |
| `ChatRoomServer` | `name_conn_map_`, `conn_name_map_`, `map_mtx` | `OnConnection`, `ReadCb` and what they call | its handlers run on all io loops at once |
| Qt `login`, `Widget`, `RecvThread` | `User_list`, the rows of the list, `now_chat_user`, the global `now_content` | `Login_Success`, `reciveLogin`, `toBox`, `Send_Message`, `Flush_Ui`, `run` | two threads share `now_content`; a queued signal between them |
| looks of windows and list items, logger, addresses, time stamps | – | – | user interface, formatting and I/O, not modelled |

A connection is accepted on the base loop, handed to an io loop by a functor, read there; the
application is called back on the io loop and sends to connections of other loops by functors;
when it ends, the removal goes to the base loop and the destruction back to the io loop.

What is hard in this code, and what the properties are for, is listed line by line as the
`hazards` of `PROJECT.json`. In short:

- *EventLoop*: a functor queued at a bad moment whose wakeup is not written; functors out of order
  across batches; `Quit()` before `Loop()`, or whose `WakeUp()` comes after the loop is gone.
- *TcpConnection*: short writes, sends that overtake buffered bytes, events after the end,
  a shutdown that found output waiting.
- *TcpServer*: raw `this` in queued functors, raw `Channel *` in epoll, the order of the last
  functors of a connection on two loops, a private line whose addressee is freed while it is being
  sent, an accept that fails while no descriptor is left.
- *ChatRoomServer*: reads of the maps without the lock, insertion by `operator[]`, test and
  insertion of a name in two steps, list, announcement and insertion in three.
- *Buffer*: index arithmetic, including eight bytes counted as free that are not given up.
- *Client*: messages that arrive together, with the list, or before anything is connected to the
  signal that announces them, two lists indexed in step, a NUL in the
  middle of what was received, a connect that fails, an addressee that has gone, end-of-file.

## 2. The modules

| module | models | notes |
|---|---|---|
| `LoopQueue` | what an event loop promises: one FIFO queue of functors | abstract |
| `EventLoop` | `event_loop.cpp` and the poll of `epollpoller.cpp` | implements `LoopQueue` |
| `Channel` | `channel.h`, `UpdateChannel`/`RemoveChannel` of `epollpoller.cpp` | operators on a record, used by `Connection` |
| `Connection` | `tcp_connection.cpp`, `ShutdownWrite` of `m_socket.cpp`, dispatch of `channel.cpp` | one connection, its loop, other threads, the peer |
| `ConnLife` | the life of a connection: up once, served while up, down once, freed | abstract |
| `TcpServer` | `tcp_server.cpp`, `acceptor.cpp`, `Accept` of `m_socket.cpp`, `get_next_loop`, the tie of `channel.cpp` | base loop and io loops, shared pointers; implements `ConnLife` |
| `LoopThreads` | `event_loop_thread.cpp`, `event_loop_thread_pool.cpp`, `m_thread.cpp` | start and destruction |
| `Buffer` | `m_buffer.h`, `m_buffer.cpp` | with the bytes that ought to be in it beside it |
| `Roster` | what the two maps are for: one name, one owner | abstract |
| `ChatRoom` | `server.cpp`, with the clients' part of the protocol | implements `Roster` on one loop |
| `ChatClient` | `EasyChat.cpp` but for sending, the form of `login.cpp` | the server external |
| `LoopQueueProofs`, `EventLoopProofs`, `ConnectionProofs`, `TcpServerProofs`, `LoopThreadsProofs`, `BufferProofs`, `ChatRoomProofs`, `ChatClientProofs` | theorems about the module of that name | each extends the module it is about |
| `MC*` | definitions for TLC | one `.cfg` for each run |

Definitions have the names of the functions they model; `map` in `PROJECT.json` gives the lines of
each. Operators commented *Wrong on purpose* are no part of a specification: each is a plausible
bug, and putting it in the place of the definition that follows it breaks a property.

**How code becomes steps.** A critical section of a mutex is one step. A handler on a loop's own
thread is one step where nothing of it can be seen from another thread, and is split wherever
another thread can come between two accesses to shared state:

- `EventLoop`: `QueueInLoop()` is the append (lines 82-84) and the wakeup (85-87), `Quit()` the flag
  and the wakeup, `DoPendingFunctors()` line 112, the swap, each functor, line 122.
- `ChatRoom`: `pc[l]` is where loop `l` is in a handler; each access to a map is a step. A
  broadcast holds `map_mtx` shared from `BeginAnnounce` to `AnnounceDone`, one recipient a step;
  `Insert`, `Erase` and `Forget` need that no other loop is in one. Accesses that collide without
  the lock are data races: `Race` lets the process die, the other outcome is that they take effect
  one after the other.
- `Connection`: reading `state_` in `Send()` and queueing the functor are two steps.
- `TcpServer`: an accept is one step, `HandleAccept`, up to the functor that hands the connection
  over; when no descriptor is left it does nothing, the peer stays in the backlog, and the event,
  level-triggered, comes again. `Send()` to a connection of another loop is two steps, as above. The
  ones of a broadcast are made under `map_mtx`, for which `Down` waits; that of a private line
  (`PrivateFind`, `PrivateCheck`, `PrivateQueue`) is made under no lock, and nothing waits for it. A
  freed connection reads as any value (`Read`), or its use ends the process (`UseAfterFree`).
- `ChatRoom`, clients: the name clicked in the list (`toBox`) is any that list has ever shown (`seen`),
  since the choice stays when the row goes; a name with nobody behind it is `NoName`.
- `ChatClient`: the first `recv()` is taken for the list with whatever has come with it
  (`ReceiveList`); what `append()` takes ends at the first NUL (`UpToNul`). `reciveLogin()` is a step up
  to the start of the `RecvThread` (line 104) and another one for the `connect()` of its signal
  (`ConnectFlush`, line 109): a `flush()` emitted in between reaches nobody (`unheard`). `Flush_Ui()` reads `now_content` in one step and clears it in another; a collision
  with the `RecvThread` may also kill the client (`Race`).

Where a module needs what another one is about it uses its promise: `ChatRoom` and `TcpServer` take
a loop for a FIFO queue of functors, which `EventLoop` shows; `LoopThreads` takes it that a loop told
to quit leaves `Loop()`, which is `QuitEndsLoop`. `Connection` lets its down callback come in the
middle of any `Send()`, as it may in that of a private line: `SendInLoop()` then finds `kDisconnected`
and drops the message (`tcp_connection.cpp` 139). Whether the connection is still there at that point
is the subject of `TcpServer`.

## 3. What the runs check

Each run of `PROJECT.json` has a question of its own. All bounds are constants, named in the module
and set in the `.cfg`.

| run | instance | shows |
|---|---|---|
| `event_loop` | one foreign thread and the owner, two functors each, one channel | no wakeup is lost; functors run once, in each thread's order, and in the end; `Quit()` after `Loop()` was entered ends it; the loop implements `LoopQueue` with its progress |
| `connection` | three messages of two bytes from the loop's thread and two others, room for one byte in the kernel, high water mark 4, two requests of the peer | the stream is exact under all short writes; EPOLLOUT is on exactly when output waits; epoll agrees with the channel and `epoll_ctl` never fails; output flows; a peer that has gone, or a shutdown that found no output waiting, ends the connection and removes its channel |
| `tcp_server` | two connections on two io loops, two broadcasts or private lines, one descriptor or two | nothing queued or registered, and nothing a broadcast is about to send to, has been freed, and `ConnectDestroyed` comes last: both with the exception of private lines, of which neither is true; each connection lives as in `ConnLife` (up once, served while up, down once), and one that ends is freed; a peer that found no descriptor left is accepted in the end; the last two unless a private line to a freed connection ends the process |
| `loop_threads` | three threads, as in the program | only complete loops are handed out; all threads are joined; the destructor returns unless it came before `Loop()` or used a loop that had just ended |
| `buffer` | 2 + 3 bytes, 9 bytes put in, as input and as output buffer | contents, strings, and the overrun of at most `kCheapPrepend` |
| `room_one_loop` | three connections, two with one name, one loop, a line each | the maps are inverses, lists are exact, client and server agree, nothing crashes, `Roster` is kept |
| `room_two_loops` | two connections with one name on two loops, two lines each | what survives concurrency: a name leads home, exits end and are forgotten, lines stay in order |
| `client` | two other users, a connect that may fail, a list that may refuse the name, 4 messages, at any pace or with pauses | at any pace: nothing is shown twice or out of order; what was received is taken, or, if it came before `flush()` was connected, waits for the next message; rows and list stay in step until an exit of a name that is not in the list takes the row of the chat with all; with pauses: that never happens, and the list follows the server's |

Four runs end in a violation, and each is a finding: with two loops `NamesUnique`, `ListsExact` and
`NamesTyped` fail (`room_names`, `room_lists`, `room_typed`), and on the client `ListFollows`
(`client_list`). `ListsExact` holds in `room_one_loop`, where `MapsAgree` also gives `NamesUnique`,
and `ListFollows` in the paced part of `client`, which shows what each failure is due to:
overlapping handlers, and messages that come close together. With two loops `SameVerdict` and
`MapsAgree` fail for the reasons of the first two findings, and `NoCrash` because the maps are read and
changed by `operator[]` without the lock; they have no run of their own.

**Why the bounds are enough.** Two functors per thread let one be queued before and one during a
batch. On one loop two connections of one name and a third of another are the least in which a login, a
second login and a bystander meet; the properties relate at most two connections and an observer. On
two loops one connection for each, with one name for both, has every overlap of two handlers, and
two lines are the least that can change places; the invariants of that run and `LinesInOrder`
are also proved, for any number of loops.
Three two-byte messages with room for one byte give every split of a write, a message behind a
buffered one, and both sides of the high water mark; two foreign threads and the loop's own are the
least in which two threads are inside `Send()` while the loop sends by itself. Two connections with
one descriptor make the second wait for the end of the first; with two descriptors both live on
different loops at once. Two lines (`MaxSends`) are a broadcast and a private line that overlap, or two
of a kind in both directions; what a third one meets is what the first or the second does. Nine bytes through a buffer of five make the
move, the growth, the overrun and the split into `extra_buf` all occur. The sizes of the code
(8, 1024, 65536 bytes, 64 MB) are constants.

Deadlock is checked in every run but those of `Buffer`, which ends when all bytes have been put in;
the other modules have a `Terminated` or `Idle` step that states when they may stop.

**Fairness.** `WF` on the steps of each loop and thread that has something to do: a thread that can
run runs, and callbacks return. In `TcpServer` the loops
run until the process ends. Nothing is assumed of traffic, of the 10 s timeout of `epoll_wait`,
of new calls, of clients that log in, chat or leave, or of data races. In `ChatRoom` a client that
finds its name twice closes (`EasyChat.cpp` 65-69); in `Connection` the peer goes on reading, as the
`RecvThread` does.

## 4. What is proved

Every invariant and safety action property of a passing run is the statement of a theorem, as are the
refinements of `LoopQueue`, `ConnLife` (their safety parts) and `Roster`. All hold for every value of
the constants, under the `ASSUME`s of the modules only: the owner of a loop is none of its other callers,
the special values are none of the proper ones, sizes and bounds are naturals, and in `ChatClient` the
other users are finitely many (`OthersAssumption`: their names come in one message). `SafeSpec` is the
specification without fairness.

In each proof an inductive invariant, checked by TLC on a small instance before, is shown to hold at
the start and to survive every action, one step of the proof for each; the theorems then follow from
it. What makes the invariants different from the properties is the following.

| module | invariant | why the properties alone are not inductive |
|---|---|---|
| `EventLoopProofs` | `LoopInv` | `NoLostWakeup` speaks of `epoll_wait` only, and a functor may be queued at any point of the loop. `WakeupInv`: wherever functors are queued a wakeup is in flight or the thread swaps before it polls; `CallInv` ties `calling_pending_functors_` to those points, which is what makes the test of line 85 right |
| `ConnectionProofs` | `ConnInv` | a connection is `Fresh`, `Open` or `Closed`, and each says what channel, epoll, events of the dispatch and queue may be; each property is about the channel alone, but whether a step keeps it depends on which handlers can still run: none that changes the channel once `HandleClose()` has, but `ConnectDestroyed()` |
| `TcpServerProofs` | `ServerInv` | `StageInv` derives the stage of a life from members and epoll; `PlaceInv` and `CastInv` say where a connection may be found at each stage; `QueueInv` that a functor waits on the right loop at the right stage and, of two functors of a connection, the earlier is a `SendInLoop()`. That the `SendInLoop()` of a broadcast, bound to a raw `this`, is safe rests on that order: the last shared pointer goes with `ConnectDestroyed()`, behind it. Of what a private line points to `QueueInv` says nothing; that private lines disturb nothing else is proved with each step, and that a process ends only by a use of freed memory is `OnlyUseAfterFree` |
| `LoopThreadsProofs` | `ThreadsInv` | how far the owner is says where each thread can be (`ServingInv`), which makes the reads of `loop_` without the lock right |
| `BufferProofs` | `BufferInv` | what lies between the indices (`Holds`) is known only while the writer has not run over the end; the overrun is tied to the indices, and an input buffer's reader to the prefix, since `ReadFd()` fills what the indices say is free |
| `ChatRoomProofs`, any number of loops | `RoomInv`, `LinesInv` | `HandlerInv` says for each place of a handler whose it is, what it has read, and whether its connection has a name; it survives the other loops, since a loop changes only the `conn_name_map_` entry of its own connection (`ConnNameStep`). `LinesInv` follows the lines from the client's socket through request and mail queue: each stage is older than the next (`BelowAll`, `Follows`). A line is queued on another loop than its sender's only, so none is overtaken by one written at once |
| `ChatRoomProofs`, one loop | `OneLoopInv`, `ToldInv` | `StillTrue`: what a handler has read of `name_conn_map_` is still so when it acts on it. `Told` is what a client has been told at each point of a broadcast that is under way; `ClientAt` ties what a client is doing to the handler that runs for it. With two loops all of this fails |
| `ChatClientProofs` | `ClientInv` | `OrderInv` numbers what is shown, in `now_content` and on the wire; `Paced` says which one of the three places the only message is in, and that the list lacks just that message (`Behind`), hence that the name of an exit is in the list (`LeaverKnown`); `KnownInv` draws from it that `RowsMatch` has no exception there |

*Refinements.* `KeepsQueue` maps the batch followed by `pending_functors_` to the queue of `LoopQueue`;
a swap is then a stutter. `InOrder` is proved of `LoopQueue` alone, by numbering what is queued
(`Numbered`), and `StartedInOrder` carries it over to the event loop. `LifeIsKept` maps a connection to
its phase in `ConnLife`: `HeldWhen` says who holds a shared pointer at each stage, so that "freed" is
reached only by the last functor or the end of its batch, and the lemmas `Kept*` that nothing else lets
go. `OneLoopKeepsRoster` is the full property: `Roster` has no fairness.

*What the proofs showed about the models.* `ReciveLogin` counted the own name with
`SelectSeq`, which is defined by recursion; it now asks for two places with that name
(`MetTwice`), which is what `count() > 1` means. No property had to be weakened.

## 5. What is only model-checked

- Liveness, everywhere: `QuitEndsLoop`, `OutputFlows`, `EndsForGood`, `EveryEndIsFreed`,
  `AcceptedInTheEnd`, `ContentTaken`, `DestructorReturns`, `EveryExitEnds`, and the progress part of
  `KeepsPromise` and of `KeepsLife`. `ENABLED` and fairness are out of the prover's reach.
- Induction over data: the library's induction theorems take an operator as a parameter. The modules
  declare no `RECURSIVE` operator; the proofs need of `SetToSeq`, `SelectInSeq` and the like only what
  their definitions by `CHOOSE` say.
- The four runs that end in a violation: a theorem about them would say nothing more.

## 6. What is not modelled

- `~TcpServer()`, `~Acceptor()` and the end of the base loop: `main()` never tells its loop to quit, so
  the program does not reach them. The end of a pool of threads, which a user of the library can
  reach, is in `LoopThreads`.
- `write_complete_cb_`, which nothing sets; a pool without threads (the program sets three);
  `DisableReading()` and `HasChannel()`, which nothing calls.
- Requests cut in the middle. `ChatRoom` and `ChatClient` take a message for a unit and cut between two
  of them at will; `Connection` and `Buffer` have the bytes. So the case in which TCP delivers a line in
  two pieces, and the second one, which begins neither with 20 nor with 21, stays in front of all that
  its sender says later (`server.cpp` 165-172), is a hazard listed without a property. The same holds for
  a message longer than a receive buffer.
- The text of names: one with a `+` splits into two entries of the list (`EasyChat.cpp` 63). The tests of
  the login form's fields, whose pattern for the port accepts 65536 to 65999: a port that leads nowhere is
  `connect()` failing, which is modelled.
- In `ChatClient`, a second user with the client's own name (the two-loop runs of `ChatRoom` have it).
  `Flush` follows a release build, where `at(0)` of an empty string reads the terminator; a debug build
  of Qt asserts there.
- Failures of `socket`, `bind`, `listen`, `eventfd`, and of memory.
- What becomes of the `RecvThread` after an orderly close is a step (`RecvNothing`, it calls `recv()`
  again and again), but no property: nothing in the repository says what it should do.
- Writers starved by readers of `map_mtx`: broadcasts are bounded.
- What a use of freed memory does beyond one of two outcomes: the process ends, or arbitrary values are
  read and nothing is changed. `TcpServer` has it for private lines, from the raw pointer taken at
  `server.cpp` 140 to the `SendInLoop()` queued with it. It takes the addressee from the maps as they are: a
  name erased between lines 137 and 140, for which `operator[]` makes an empty pointer, is in `ChatRoom`,
  which has no memory. No text in the repository says that a private line may be sent to somebody
  who is leaving, so this is a hazard and not a finding. The `get_fd()` of line 143 is used for the log.
- Logger (the level that threads overwrite for each other changes the tag of a line, nothing else), time
  stamps, addresses, looks of windows and list items.

## 7. Plan

Done: the modules above, in the order event loop, chat room, connection, server, buffer, client,
threads; the accept path and its limit, the login of the client, the addressees of private lines, the
third sender of a connection; the theorems of section 4, which cover every safety property.

Left to prove: lemmas that the modules now prove each for itself (prefix, rest and append of a
sequence; a first-in first-out queue with something taken out or put in) could be stated once; and, of
`ChatRoom` with two loops, the part of `SameVerdict` that survives, which has to be found first.
