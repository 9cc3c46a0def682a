------------------------------ MODULE EventLoop ------------------------------
(***************************************************************************)
(* One mtd::EventLoop (server/src/event_loop.cpp): the thread that runs    *)
(* Loop(), the threads that call QueueInLoop(), RunInLoop() and Quit() on  *)
(* it, and the eventfd that wakes it out of epoll_wait.                    *)
(*                                                                         *)
(* Every critical section of mtx_ is one step.  A call is split where      *)
(* another thread can come between its accesses to shared state: after     *)
(* the functor is appended and before WakeUp(), after quit_ is set and     *)
(* before WakeUp(), between setting calling_pending_functors_ and the      *)
(* swap.  RunInLoop() from another thread is QueueInLoop(); on the loop's  *)
(* own thread it calls the functor inside the body that is already         *)
(* running, which changes nothing of the state below.                      *)
(***************************************************************************)
EXTENDS Naturals, Sequences

CONSTANTS
  Owner,         \* thread_id_: the thread that built the loop and runs it
  Callers,       \* the other threads that hold a pointer to the loop
  Fds,           \* channels other than wakeup_channel_ registered with it
  MaxPosts       \* bound: calls of QueueInLoop() by each thread

ASSUME ThreadAssumption == Owner \notin Callers
ASSUME BoundAssumption == MaxPosts \in Nat

Wakeup == "wakeup_fd"
ASSUME FdAssumption == Wakeup \notin Fds

Threads == Callers \cup {Owner}

VARIABLES
  pc,            \* where the loop's thread is in Loop()
  quit,          \* quit_
  calling,       \* calling_pending_functors_
  pending,       \* pending_functors_
  batch,         \* what is left of the local vector of DoPendingFunctors()
  eventfd,       \* counter of wakeup_fd_
  active,        \* what is left of active_channels_ in this iteration
  call,          \* call[t]: where thread t is inside QueueInLoop() or Quit()
  sent,          \* sent[t]: how many functors t has appended
  ran            \* ran[t]: number of t's functor that was started last

vars == <<pc, quit, calling, pending, batch, eventfd, active, call, sent, ran>>

Functors == [from : Threads, n : Nat \ {0}]

\* The loop's thread runs code of a user: a channel's callback or a functor.
InBody == pc \in {"handler", "functor"}

Init ==
  /\ pc = "start" /\ quit = FALSE /\ calling = FALSE
  /\ pending = <<>> /\ batch = <<>> /\ eventfd = 0 /\ active = {}
  /\ call = [t \in Threads |-> "none"]
  /\ sent = [t \in Threads |-> 0]
  /\ ran = [t \in Threads |-> 0]

-----------------------------------------------------------------------------
(* Loop(), on the loop's own thread.                                       *)

Goto(from, to) == pc = from /\ pc' = to

\* Lines 52-53: a quit_ set before this step is overwritten.
LoopEnter ==
  /\ Goto("start", "check")
  /\ quit' = FALSE
  /\ UNCHANGED <<calling, pending, batch, eventfd, active, call, sent, ran>>

\* while (!quit_), then active_channels_.clear().
Check ==
  /\ Goto("check", IF quit THEN "exited" ELSE "poll")
  /\ active' = {}
  /\ UNCHANGED <<quit, calling, pending, batch, eventfd, call, sent, ran>>

\* epoll_wait hands back some of the ready descriptors: all of them, or as
\* many as the event list holds.
PollReturn(ready) ==
  /\ Goto("poll", "dispatch")
  /\ ready # {}
  /\ Wakeup \in ready => eventfd > 0
  /\ active' = ready
  /\ UNCHANGED <<quit, calling, pending, batch, eventfd, call, sent, ran>>

\* epoll_wait hands back nothing: kPollTimeout has passed, or EINTR.
PollNothing ==
  /\ Goto("poll", "dispatch")
  /\ UNCHANGED <<quit, calling, pending, batch, eventfd, active, call, sent,
                 ran>>

\* EventLoop::HandleRead(): one read of the eventfd takes the whole counter.
HandleWakeup ==
  /\ pc = "dispatch"
  /\ Wakeup \in active
  /\ eventfd' = 0
  /\ active' = active \ {Wakeup}
  /\ UNCHANGED <<pc, quit, calling, pending, batch, call, sent, ran>>

\* Any other channel: its callback is a body that may call the loop back.
HandleChannel(fd) ==
  /\ fd \in active \ {Wakeup}
  /\ Goto("dispatch", "handler")
  /\ active' = active \ {fd}
  /\ UNCHANGED <<quit, calling, pending, batch, eventfd, call, sent, ran>>

HandlerDone ==
  /\ Goto("handler", "dispatch")
  /\ call[Owner] = "none"
  /\ UNCHANGED <<quit, calling, pending, batch, eventfd, active, call, sent,
                 ran>>

\* DoPendingFunctors(), line 112.
DrainBegin ==
  /\ active = {}
  /\ Goto("dispatch", "swap")
  /\ calling' = TRUE
  /\ UNCHANGED <<quit, pending, batch, eventfd, active, call, sent, ran>>

\* Wrong on purpose: pending_functors_ is copied and not emptied.
NotEmptied == pending

\* What the swap leaves in pending_functors_: the empty local vector.
Emptied == <<>>

\* Lines 113-116: the swap under mtx_.
Swap ==
  /\ Goto("swap", "run")
  /\ batch' = pending
  /\ pending' = Emptied
  /\ UNCHANGED <<quit, calling, eventfd, active, call, sent, ran>>

\* Lines 118-119: the next functor of the batch is called.
RunFunctor ==
  /\ batch # <<>>
  /\ Goto("run", "functor")
  /\ ran' = [ran EXCEPT ![Head(batch).from] = Head(batch).n]
  /\ batch' = Tail(batch)
  /\ UNCHANGED <<quit, calling, pending, eventfd, active, call, sent>>

FunctorDone ==
  /\ Goto("functor", "run")
  /\ call[Owner] = "none"
  /\ UNCHANGED <<quit, calling, pending, batch, eventfd, active, call, sent,
                 ran>>

\* Wrong on purpose: calling_pending_functors_ stays set.
StillCalling == calling

\* Line 122.
NotCalling == FALSE

\* Line 122, then back to the test of the while loop.
DrainEnd ==
  /\ batch = <<>>
  /\ Goto("run", "check")
  /\ calling' = NotCalling
  /\ UNCHANGED <<quit, pending, batch, eventfd, active, call, sent, ran>>

-----------------------------------------------------------------------------
(* The calls.  Another thread may make one at any time, the loop's own     *)
(* thread only from a body.                                                *)

MayCall(t) == call[t] = "none" /\ (t = Owner => InBody)

\* Wrong on purpose: the functor goes to the front.
QueuedInFront(f) == <<f>> \o pending

\* emplace_back().
Queued(f) == Append(pending, f)

\* QueueInLoop(), lines 82-84: append under mtx_.
QueueInLoop(t) ==
  /\ MayCall(t)
  /\ sent[t] < MaxPosts
  /\ sent' = [sent EXCEPT ![t] = @ + 1]
  /\ pending' = Queued([from |-> t, n |-> sent[t] + 1])
  /\ call' = [call EXCEPT ![t] = "queued"]
  /\ UNCHANGED <<pc, quit, calling, batch, eventfd, active, ran>>

\* Wrong on purpose: calling_pending_functors_ is not asked.
OthersMustWake(t) == t # Owner

\* Line 85: the loop will not look at pending_functors_ of itself.
MustWake(t) == t # Owner \/ calling

\* QueueInLoop(), lines 85-87.
WakeAfterQueue(t) ==
  /\ call[t] = "queued"
  /\ eventfd' = IF MustWake(t) THEN eventfd + 1 ELSE eventfd
  /\ call' = [call EXCEPT ![t] = "none"]
  /\ UNCHANGED <<pc, quit, calling, pending, batch, active, sent, ran>>

\* Wrong on purpose: no wakeup follows.
QuitsSilently(t) == "none"

\* Where Quit() goes from line 66: another thread still has to call WakeUp().
Quits(t) == IF t = Owner THEN "none" ELSE "quitting"

\* Quit(), line 66.  A call that finds quit_ set adds nothing but a second
\* wakeup and is left out, which bounds the calls.
Quit(t) ==
  /\ MayCall(t)
  /\ ~quit
  /\ quit' = TRUE
  /\ call' = [call EXCEPT ![t] = Quits(t)]
  /\ UNCHANGED <<pc, calling, pending, batch, eventfd, active, sent, ran>>

\* Quit(), lines 67-69.
WakeAfterQuit(t) ==
  /\ call[t] = "quitting"
  /\ eventfd' = eventfd + 1
  /\ call' = [call EXCEPT ![t] = "none"]
  /\ UNCHANGED <<pc, quit, calling, pending, batch, active, sent, ran>>

-----------------------------------------------------------------------------
\* The steps the loop's thread takes by itself: an idle epoll_wait returns
\* for the eventfd, for no other reason.
LoopStep ==
  \/ LoopEnter \/ Check
  \/ eventfd > 0 /\ \E ready \in SUBSET (Fds \cup {Wakeup}) : PollReturn(ready)
  \/ HandleWakeup
  \/ \E fd \in Fds : HandleChannel(fd)
  \/ HandlerDone
  \/ DrainBegin \/ Swap \/ RunFunctor \/ FunctorDone \/ DrainEnd

\* What the outside world causes: traffic, the 10 s timeout, signals.
PollOther ==
  \/ \E ready \in SUBSET Fds : PollReturn(ready)
  \/ PollNothing

CallStep(t) == WakeAfterQueue(t) \/ WakeAfterQuit(t)

NewCall(t) == QueueInLoop(t) \/ Quit(t)

\* The loop has returned and every thread has made its calls.
Terminated ==
  /\ pc = "exited"
  /\ \A t \in Threads : call[t] = "none"
  /\ UNCHANGED vars

Next ==
  \/ LoopStep
  \/ PollOther
  \/ \E t \in Threads : CallStep(t) \/ NewCall(t)
  \/ Terminated

SafeSpec == Init /\ [][Next]_vars

\* A thread that runs goes on running; callbacks and functors return.
\* Nothing is assumed of traffic, of the poll timeout, or of new calls.
Fairness == WF_vars(LoopStep) /\ \A t \in Threads : WF_vars(CallStep(t))

Spec == SafeSpec /\ Fairness

-----------------------------------------------------------------------------
(* Properties.                                                             *)

LoopPcs == {"start", "check", "poll", "dispatch", "handler", "swap", "run",
            "functor", "exited"}

\* Type invariant; and the test of line 85 can go by calling, which is TRUE
\* during DoPendingFunctors() and at no other time.
TypeOK ==
  /\ pc \in LoopPcs /\ quit \in BOOLEAN
  /\ calling \in BOOLEAN /\ (calling <=> pc \in {"swap", "run", "functor"})
  /\ pending \in Seq(Functors) /\ batch \in Seq(Functors) /\ eventfd \in Nat
  /\ active \in SUBSET (Fds \cup {Wakeup})
  /\ call \in [Threads -> {"none", "queued", "quitting"}]
  /\ sent \in [Threads -> Nat] /\ ran \in [Threads -> Nat]

\* A write to the eventfd has been made and not been read, or a thread is
\* about to make one.
WakeupInFlight == eventfd > 0 \/ \E t \in Threads : call[t] # "none"

\* No lost wakeup: while the loop sits in epoll_wait with a functor queued or
\* quit_ set, the eventfd is readable or somebody is about to write it.  So
\* no functor and no Quit() ever waits for traffic or the 10 s timeout.
NoLostWakeup == pc = "poll" /\ (pending # <<>> \/ quit) => WakeupInFlight

\* Handed over but not started, oldest first.
Backlog == batch \o pending

\* Each thread's functors are started in the order it queued them, each
\* exactly once, whatever batches they fall into.
RunsInOrder ==
  [][\A t \in Threads : ran'[t] # ran[t] => ran'[t] = ran[t] + 1]_ran

\* Quit() on a loop that has entered Loop() ends it.  (One made earlier is
\* overwritten by LoopEnter.)
QuitEndsLoop == quit /\ pc # "start" ~> pc = "exited"

Queue == INSTANCE LoopQueue WITH queue <- Backlog, stopped <- (pc = "exited")

\* The loop keeps the promise of LoopQueue, progress included.
KeepsPromise == Queue!Spec
=============================================================================
