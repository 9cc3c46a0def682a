----------------------------- MODULE LoopThreads -----------------------------
(***************************************************************************)
(* The threads of an EventLoopThreadPool (event_loop_thread_pool.cpp,      *)
(* event_loop_thread.cpp, m_thread.cpp): the owner starts them one after   *)
(* the other, each builds its EventLoop on its own stack and hands out a   *)
(* pointer to it, and the owner's destructors tell each loop to quit and   *)
(* join its thread.  Loop() itself is in EventLoop.tla; here it is entered *)
(* and, once told to quit, left.                                           *)
(***************************************************************************)
EXTENDS Naturals, Sequences

CONSTANT NumThreads    \* num_threads_

ASSUME NumAssumption == NumThreads \in Nat \ {0}

Threads == 1..NumThreads

VARIABLES
  owner,       \* where the owner is in StartLoop() or ~EventLoopThread()
  turn,        \* the thread it is at
  loops,       \* loops_: the threads whose loops were handed out
  tpc,         \* where each thread is
  loopPtr,     \* loopPtr[t]: loop_ of EventLoopThread t is not null
  quit,        \* quit_ of each loop
  inited,      \* threads whose cb_ was called
  lost,        \* threads whose quit_ was overwritten when Loop() began
  detached,    \* threads that were detached
  crashed      \* a loop was used after its end, and that had consequences

pool == <<owner, turn, loops>>
thread == <<loopPtr, quit, inited>>
fates == <<lost, detached, crashed>>
vars == <<pool, tpc, thread, fates>>

Init ==
  /\ owner = "start" /\ turn = 1 /\ loops = <<>>
  /\ tpc = [t \in Threads |-> "none"]
  /\ loopPtr = [t \in Threads |-> FALSE] /\ quit = [t \in Threads |-> FALSE]
  /\ inited = {} /\ lost = {} /\ detached = {} /\ crashed = FALSE

\* The EventLoop of thread t exists.
Alive(t) ==
  tpc[t] \in {"built", "inited", "published", "looping", "left", "cleared"}

-----------------------------------------------------------------------------
(* The owner: Start(), then the destructors.                               *)

OwnerGoto(from, to) == owner = from /\ owner' = to

\* Thread::Start(): the thread is created.
StartThread ==
  /\ OwnerGoto("start", "semWait")
  /\ tpc' = [tpc EXCEPT ![turn] = "created"]
  /\ UNCHANGED <<turn, loops, thread, fates>>

SemWait ==
  /\ OwnerGoto("semWait", "cvWait")
  /\ tpc[turn] # "created"
  /\ UNCHANGED <<turn, loops, tpc, thread, fates>>

\* Wrong on purpose: StartLoop() returns without waiting.
NoWait(t) == TRUE

\* The predicate of cv_.wait().
LoopSet(t) == loopPtr[t]

\* Wrong on purpose: the for loop is run through once more.
MoreThreadsOver == turn <= NumThreads

\* The for loop of EventLoopThreadPool::Start() goes on.
MoreThreads == turn < NumThreads

\* StartLoop() returns the pointer, and EventLoopThreadPool::Start() goes on.
CvWait ==
  /\ LoopSet(turn)
  /\ loops' = Append(loops, turn)
  /\ OwnerGoto("cvWait", IF MoreThreads THEN "start" ELSE "serving")
  /\ turn' = IF MoreThreads THEN turn + 1 ELSE turn
  /\ UNCHANGED <<tpc, thread, fates>>

\* The pool is destroyed, its threads in the order of threads_.
Destroy ==
  /\ OwnerGoto("serving", "dtor")
  /\ turn' = 1
  /\ UNCHANGED <<loops, tpc, thread, fates>>

\* The destructor of this EventLoopThread is through.
NextThread ==
  IF turn < NumThreads THEN owner' = "dtor" /\ turn' = turn + 1
  ELSE owner' = "done" /\ UNCHANGED turn

\* ~EventLoopThread(), line 16: loop_ is read without the lock.  If it is null
\* nothing is joined, and ~Thread() detaches.
DtorReadsLoop ==
  /\ owner = "dtor"
  /\ IF loopPtr[turn]
       THEN owner' = "quit" /\ UNCHANGED <<turn, detached>>
       ELSE detached' = detached \cup {turn} /\ NextThread
  /\ UNCHANGED <<loops, tpc, thread, lost, crashed>>

\* Wrong on purpose: quit_ is left as it is.
QuitForgotten == quit

QuitTold == [quit EXCEPT ![turn] = TRUE]

\* Quit(): quit_ is set ...
QuitSet ==
  /\ OwnerGoto("quit", "wake")
  /\ quit' = QuitTold
  /\ UNCHANGED <<turn, loops, tpc, loopPtr, inited, fates>>

\* ... and then WakeUp() is called, on a loop that may have seen quit_ by
\* itself and be gone.
QuitWake ==
  /\ OwnerGoto("wake", "join")
  /\ crashed' \in {crashed, ~Alive(turn) \/ crashed}
  /\ UNCHANGED <<turn, loops, tpc, thread, lost, detached>>

\* Wrong on purpose: the thread is not waited for.
NotJoined == TRUE

Joined == tpc[turn] = "ended"

Join ==
  /\ owner = "join"
  /\ Joined
  /\ NextThread
  /\ UNCHANGED <<loops, tpc, thread, fates>>

-----------------------------------------------------------------------------
(* A thread: the lambda of Thread::Start() and ThreadFunc().               *)

Goto(t, from, to) ==
  tpc[t] = from /\ tpc' = [tpc EXCEPT ![t] = to] /\ UNCHANGED <<pool, detached, crashed>>

\* sem_post().
SemPost(t) == Goto(t, "created", "running") /\ UNCHANGED <<thread, lost>>

\* EventLoop loop;
Build(t) == Goto(t, "running", "built") /\ UNCHANGED <<thread, lost>>

\* cb_(&loop).
InitCb(t) ==
  /\ Goto(t, "built", "inited")
  /\ inited' = inited \cup {t}
  /\ UNCHANGED <<loopPtr, quit, lost>>

\* loop_ = &loop under the lock.
Publish(t) ==
  /\ Goto(t, "inited", "published")
  /\ loopPtr' = [loopPtr EXCEPT ![t] = TRUE]
  /\ UNCHANGED <<quit, inited, lost>>

\* Loop() begins with quit_ = false.
LoopEnter(t) ==
  /\ Goto(t, "published", "looping")
  /\ quit' = [quit EXCEPT ![t] = FALSE]
  /\ lost' = IF quit[t] THEN lost \cup {t} ELSE lost
  /\ UNCHANGED <<loopPtr, inited>>

\* Loop() returns.
LoopLeave(t) == quit[t] /\ Goto(t, "looping", "left") /\ UNCHANGED <<thread, lost>>

\* loop_ = nullptr under the lock.
Clear(t) ==
  /\ Goto(t, "left", "cleared")
  /\ loopPtr' = [loopPtr EXCEPT ![t] = FALSE]
  /\ UNCHANGED <<quit, inited, lost>>

\* The loop goes with the stack.
End(t) == Goto(t, "cleared", "ended") /\ UNCHANGED <<thread, lost>>

-----------------------------------------------------------------------------
OwnerStep ==
  /\ ~crashed
  /\ \/ StartThread \/ SemWait \/ CvWait
     \/ DtorReadsLoop \/ QuitSet \/ QuitWake \/ Join

ThreadStep(t) ==
  /\ ~crashed
  /\ \/ SemPost(t) \/ Build(t) \/ InitCb(t) \/ Publish(t)
     \/ LoopEnter(t) \/ LoopLeave(t) \/ Clear(t) \/ End(t)

\* The pool is destroyed, or the owner waits for a loop that was not told.
Terminated ==
  /\ crashed \/ owner = "done" \/ (owner = "join" /\ turn \in lost)
  /\ UNCHANGED vars

Next ==
  \/ OwnerStep
  \/ ~crashed /\ Destroy
  \/ \E t \in Threads : ThreadStep(t)
  \/ Terminated

SafeSpec == Init /\ [][Next]_vars

\* Threads run; a loop that has been told to quit leaves Loop()
\* (QuitEndsLoop of EventLoop.tla).  The pool need not be destroyed.
Spec ==
  /\ SafeSpec
  /\ WF_vars(OwnerStep)
  /\ \A t \in Threads : WF_vars(ThreadStep(t))

-----------------------------------------------------------------------------
(* Properties.                                                             *)

\* Type invariant.
TypeOK ==
  /\ owner \in {"start", "semWait", "cvWait", "serving", "dtor", "quit",
                "wake", "join", "done"}
  /\ turn \in Threads
  /\ loops \in Seq(Threads)
  /\ tpc \in [Threads -> {"none", "created", "running", "built", "inited",
                          "published", "looping", "left", "cleared", "ended"}]
  /\ loopPtr \in [Threads -> BOOLEAN] /\ quit \in [Threads -> BOOLEAN]
  /\ inited \subseteq Threads /\ lost \subseteq Threads
  /\ detached \subseteq Threads /\ crashed \in BOOLEAN

\* Until it is destroyed the pool hands out only loops that exist, each of
\* another thread, in order, after the thread's cb_ has been called.
LoopsReady ==
  owner \in {"start", "semWait", "cvWait", "serving"} =>
    \A i \in DOMAIN loops :
      loops[i] = i /\ Alive(i) /\ loopPtr[i] /\ i \in inited

\* No thread outlives the EventLoopThread it belongs to, although loop_ is
\* read without the lock and a null would detach the thread.
NoneLeftBehind ==
  /\ detached = {}
  /\ \A t \in Threads :
       owner = "done" \/ (owner \in {"dtor", "quit", "wake", "join"} /\ t < turn)
         => tpc[t] = "ended"

\* The destructor returns, unless it told a loop to quit before the thread
\* had entered Loop(), or used one that was gone.
DestructorReturns == owner = "dtor" ~> owner = "done" \/ lost # {} \/ crashed
=============================================================================
