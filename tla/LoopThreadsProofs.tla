-------------------------- MODULE LoopThreadsProofs --------------------------
(***************************************************************************)
(* Theorems about LoopThreads.tla, for every number of threads.            *)
(***************************************************************************)
EXTENDS LoopThreads, SequenceTheorems, TLAPS

\* The one-line operators are expanded throughout.
USE DEF LoopSet, QuitTold, Joined

\* The places of the owner while it starts the threads.
Starting == {"start", "semWait", "cvWait"}

\* Thread t has been started and not told to quit.
Serves(t) ==
  \/ owner \in Starting /\ t < turn
  \/ owner = "serving"
  \/ owner \in {"dtor", "quit"} /\ t >= turn
  \/ owner \in {"wake", "join"} /\ t > turn

\* Thread t has been told to quit.
Told(t) ==
  \/ owner \in {"dtor", "quit"} /\ t < turn
  \/ owner \in {"wake", "join"} /\ t <= turn
  \/ owner = "done"

\* The destructor is through with thread t.
Through(t) ==
  \/ owner \in {"dtor", "quit", "wake", "join"} /\ t < turn
  \/ owner = "done"

\* Thread t has not been created.
Waits(t) ==
  \/ owner \in Starting /\ t > turn
  \/ owner = "start" /\ t = turn

\* What loop_ and cb_ say of where a thread is: loop_ is set under the lock
\* from the publication of the loop to its end.
PointerInv ==
  \A t \in Threads :
    /\ loopPtr[t] <=> tpc[t] \in {"published", "looping", "left"}
    /\ tpc[t] \in {"inited", "published", "looping", "left"} => t \in inited

\* How far the owner is with each thread says where that thread can be: its
\* loop is left only when it was told to quit, and that comes after the
\* thread was started.
ServingInv ==
  \A t \in Threads :
    /\ Serves(t) => tpc[t] \in {"published", "looping"}
    /\ quit[t] \/ tpc[t] \in {"left", "cleared", "ended"} => Told(t)
    /\ Through(t) => tpc[t] = "ended"
    /\ Waits(t) => tpc[t] = "none"

\* The pool has handed out the loops it has started, in order.
LoopsInv ==
  /\ owner \in Starting => Len(loops) = turn - 1
  /\ \A i \in 1..Len(loops) : loops[i] = i

\* The invariant of the pool.
ThreadsInv ==
  TypeOK /\ PointerInv /\ ServingInv /\ LoopsInv /\ detached = {}

-----------------------------------------------------------------------------
\* The invariant holds before anything was started.
LEMMA ThreadsInit == Init => ThreadsInv
<1> SUFFICES ASSUME Init PROVE ThreadsInv
  OBVIOUS
<1> USE NumAssumption DEF Init, Threads
<1>1. TypeOK /\ PointerInv /\ detached = {}
  <2>1. loops \in Seq(Threads)
    BY EmptySeq
  <2>2. 1 \in Threads
    OBVIOUS
  <2>3. PointerInv /\ detached = {}
    BY DEF PointerInv
  <2> QED
    BY <2>1, <2>2, <2>3 DEF TypeOK
<1>2. ServingInv
  BY DEF ServingInv, Serves, Told, Through, Waits, Starting
<1>3. LoopsInv
  BY DEF LoopsInv, Starting
<1> QED
  BY <1>1, <1>2, <1>3 DEF ThreadsInv

\* A step of the owner keeps the invariant.
LEMMA OwnerKeeps == ThreadsInv /\ (OwnerStep \/ Destroy) => ThreadsInv'
<1> SUFFICES ASSUME ThreadsInv, OwnerStep \/ Destroy PROVE ThreadsInv'
  OBVIOUS
<1> USE NumAssumption DEF Threads, thread, fates, OwnerGoto, ThreadsInv
<1> USE DEF ServingInv, Serves, Told, Through, Waits, Starting
<1>1. CASE StartThread
  <2>1. TypeOK' /\ LoopsInv'
    BY <1>1 DEF StartThread, TypeOK, LoopsInv
  <2>2. PointerInv' /\ ServingInv' /\ detached' = {}
    BY <1>1 DEF StartThread, TypeOK, PointerInv
  <2> QED
    BY <2>1, <2>2
<1>2. CASE SemWait
  <2>1. TypeOK' /\ LoopsInv'
    BY <1>2 DEF SemWait, TypeOK, LoopsInv
  <2>2. PointerInv' /\ ServingInv' /\ detached' = {}
    BY <1>2 DEF SemWait, TypeOK, PointerInv
  <2> QED
    BY <2>1, <2>2
<1>3. CASE CvWait
  <2>1. tpc[turn] \in {"published", "looping"}
    BY <1>3 DEF CvWait, MoreThreads, TypeOK, PointerInv
  <2>2. TypeOK' /\ LoopsInv'
    BY <1>3, AppendProperties DEF CvWait, MoreThreads, TypeOK, LoopsInv
  <2>3. PointerInv' /\ detached' = {}
    BY <1>3 DEF CvWait, MoreThreads, TypeOK, PointerInv
  <2>4. ServingInv'
    <3>1. CASE turn < NumThreads
      BY <1>3, <2>1, <3>1 DEF CvWait, MoreThreads, TypeOK
    <3>2. CASE turn = NumThreads
      BY <1>3, <2>1, <3>2 DEF CvWait, MoreThreads, TypeOK
    <3> QED
      BY <3>1, <3>2 DEF TypeOK
  <2> QED
    BY <2>2, <2>3, <2>4
<1>4. CASE Destroy
  <2>1. TypeOK' /\ LoopsInv'
    BY <1>4 DEF Destroy, TypeOK, LoopsInv
  <2>2. PointerInv' /\ ServingInv' /\ detached' = {}
    BY <1>4 DEF Destroy, TypeOK, PointerInv
  <2> QED
    BY <2>1, <2>2
<1>5. CASE DtorReadsLoop
  <2>1. loopPtr[turn]
    BY <1>5 DEF DtorReadsLoop, TypeOK, PointerInv
  <2>2. TypeOK' /\ LoopsInv'
    BY <1>5, <2>1 DEF DtorReadsLoop, TypeOK, LoopsInv
  <2>3. PointerInv' /\ ServingInv' /\ detached' = {}
    BY <1>5, <2>1 DEF DtorReadsLoop, TypeOK, PointerInv
  <2> QED
    BY <2>2, <2>3
<1>6. CASE QuitSet
  <2>1. TypeOK' /\ LoopsInv'
    BY <1>6 DEF QuitSet, TypeOK, LoopsInv
  <2>2. PointerInv' /\ ServingInv' /\ detached' = {}
    BY <1>6 DEF QuitSet, TypeOK, PointerInv
  <2> QED
    BY <2>1, <2>2
<1>7. CASE QuitWake
  <2>1. TypeOK' /\ LoopsInv'
    BY <1>7 DEF QuitWake, TypeOK, LoopsInv
  <2>2. PointerInv' /\ ServingInv' /\ detached' = {}
    BY <1>7 DEF QuitWake, TypeOK, PointerInv
  <2> QED
    BY <2>1, <2>2
<1>8. CASE Join
  <2>1. TypeOK' /\ LoopsInv'
    BY <1>8 DEF Join, NextThread, TypeOK, LoopsInv
  <2>2. PointerInv' /\ ServingInv' /\ detached' = {}
    BY <1>8 DEF Join, NextThread, TypeOK, PointerInv
  <2> QED
    BY <2>1, <2>2
<1> QED
  BY <1>1, <1>2, <1>3, <1>4, <1>5, <1>6, <1>7, <1>8 DEF OwnerStep

\* A step of a thread keeps the invariant.
LEMMA ThreadKeeps ==
  ASSUME ThreadsInv, NEW t \in Threads, ThreadStep(t)
  PROVE  ThreadsInv'
<1> USE NumAssumption DEF Threads, thread, pool, ThreadsInv, Goto
<1>1. UNCHANGED <<owner, turn, loops, detached>>
  BY DEF ThreadStep, SemPost, Build, InitCb, Publish, LoopEnter, LoopLeave, Clear, End
<1>2. TypeOK' /\ LoopsInv'
  <2>1. LoopsInv'
    BY <1>1 DEF LoopsInv, Starting
  <2>2. TypeOK'
    BY DEF TypeOK, ThreadStep, SemPost, Build, InitCb, Publish, LoopEnter,
           LoopLeave, Clear, End
  <2> QED
    BY <2>1, <2>2
<1>3. PointerInv'
  BY DEF TypeOK, PointerInv, ThreadStep, SemPost, Build, InitCb, Publish,
         LoopEnter, LoopLeave, Clear, End
<1>4. ServingInv'
  <2> USE DEF ServingInv, Serves, Told, Through, Waits, Starting
  <2>1. CASE LoopLeave(t) \/ Clear(t) \/ End(t)
    <3>1. Told(t)
      BY <2>1 DEF LoopLeave, Clear, End
    <3>2. ~Serves(t) /\ ~Waits(t)
      BY <3>1 DEF TypeOK
    <3> QED
      BY <1>1, <2>1, <3>1, <3>2 DEF TypeOK, LoopLeave, Clear, End
  <2>2. CASE SemPost(t) \/ Build(t) \/ InitCb(t)
    BY <1>1, <2>2 DEF TypeOK, SemPost, Build, InitCb
  <2>3. CASE Publish(t) \/ LoopEnter(t)
    BY <1>1, <2>3 DEF TypeOK, Publish, LoopEnter
  <2> QED
    BY <2>1, <2>2, <2>3 DEF ThreadStep
<1> QED
  BY <1>1, <1>2, <1>3, <1>4

\* A thread has a loop between its start and the end of its Loop(), and the
\* owner knows which threads those are.
THEOREM ThreadsInvariant == Spec => []ThreadsInv
<1>1. ThreadsInv /\ UNCHANGED vars => ThreadsInv'
  BY DEF ThreadsInv, TypeOK, PointerInv, ServingInv, LoopsInv, Serves, Told,
         Through, Waits, vars, pool, thread, fates
<1>2. ThreadsInv /\ [Next]_vars => ThreadsInv'
  BY <1>1, OwnerKeeps, ThreadKeeps DEF Next, Terminated
<1> QED
  BY <1>2, ThreadsInit, PTL DEF Spec, SafeSpec

\* The types of the pool, the threads and their loops are kept.
THEOREM TypeCorrect == Spec => []TypeOK
<1>1. ThreadsInv => TypeOK
  BY DEF ThreadsInv
<1> QED
  BY <1>1, ThreadsInvariant, PTL

\* Whatever the pool hands out is the loop of a thread that is in Loop() or
\* on its way there, for any number of threads.
THEOREM PoolReady == Spec => []LoopsReady
<1>1. ThreadsInv => LoopsReady
  <2> SUFFICES ASSUME ThreadsInv,
                      owner \in {"start", "semWait", "cvWait", "serving"},
                      NEW i \in DOMAIN loops
               PROVE  loops[i] = i /\ Alive(i) /\ loopPtr[i] /\ i \in inited
    BY DEF LoopsReady
  <2>1. loops[i] = i /\ i \in Threads
    BY ElementOfSeq DEF ThreadsInv, TypeOK, LoopsInv
  <2>2. Serves(i)
    BY <2>1, NumAssumption DEF ThreadsInv, TypeOK, LoopsInv, Serves, Starting, Threads
  <2> QED
    BY <2>1, <2>2 DEF ThreadsInv, ServingInv, PointerInv, Alive
<1> QED
  BY <1>1, ThreadsInvariant, PTL

\* No thread is detached, and every thread the destructor is through with has
\* ended: the read of loop_ without the lock in line 16 never finds a null.
THEOREM AllJoined == Spec => []NoneLeftBehind
<1>1. ThreadsInv => NoneLeftBehind
  BY DEF ThreadsInv, ServingInv, Through, NoneLeftBehind
<1> QED
  BY <1>1, ThreadsInvariant, PTL
=============================================================================
