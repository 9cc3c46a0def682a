--------------------------- MODULE EventLoopProofs ---------------------------
(***************************************************************************)
(* Theorems about EventLoop.tla, for every set of threads and channels and *)
(* every bound on the calls.                                               *)
(***************************************************************************)
EXTENDS EventLoop, SequenceTheorems, TLAPS

\* The one-line operators are expanded throughout.
USE DEF Emptied, NotCalling, Queued, MustWake, Quits

\* The loop's thread is between the test of quit_ and the next DrainBegin,
\* or about to swap: whatever is queued now is taken by that swap.
WillSwap == pc \in {"dispatch", "handler", "swap"}

\* calling_pending_functors_ is set exactly while a batch is taken and run,
\* and the loop's own thread makes its calls from a body only.
CallInv ==
  /\ calling <=> pc \in {"swap", "run", "functor"}
  /\ call[Owner] # "none" => InBody
  /\ call[Owner] # "quitting"

\* The local vector of DoPendingFunctors() exists while it runs the batch.
BatchInv == batch # <<>> => pc \in {"run", "functor"}

\* NoLostWakeup strengthened to every point of the loop: only where a swap is
\* certain to come first may functors be queued with no wakeup on its way.
WakeupInv ==
  /\ pending # <<>> => WillSwap \/ WakeupInFlight
  /\ pc = "poll" /\ quit => WakeupInFlight

\* The invariant of the loop.
LoopInv == TypeOK /\ CallInv /\ BatchInv /\ WakeupInv

-----------------------------------------------------------------------------
(* One lemma per step for the types, then one for the rest.                *)

\* Every variable keeps its type.
LEMMA TypeStep == TypeOK /\ [Next]_vars => TypeOK'
<1> SUFFICES ASSUME TypeOK, [Next]_vars PROVE TypeOK'
  OBVIOUS
<1> USE DEF TypeOK
<1>1. CASE LoopStep
  <2>1. CASE LoopEnter
    BY <2>1 DEF LoopEnter, Goto, LoopPcs
  <2>2. CASE Check
    BY <2>2 DEF Check, Goto, LoopPcs
  <2>3. ASSUME NEW ready \in SUBSET (Fds \cup {Wakeup}), PollReturn(ready)
        PROVE  TypeOK'
    BY <2>3 DEF PollReturn, Goto, LoopPcs
  <2>4. CASE HandleWakeup
    BY <2>4 DEF HandleWakeup
  <2>5. ASSUME NEW fd \in Fds, HandleChannel(fd) PROVE TypeOK'
    BY <2>5 DEF HandleChannel, Goto, LoopPcs
  <2>6. CASE HandlerDone
    BY <2>6 DEF HandlerDone, Goto, LoopPcs
  <2>7. CASE DrainBegin
    BY <2>7 DEF DrainBegin, Goto, LoopPcs
  <2>8. CASE Swap
    BY <2>8 DEF Swap, Goto, LoopPcs
  <2>9. CASE RunFunctor
    <3>1. Head(batch) \in Functors /\ Tail(batch) \in Seq(Functors)
      BY <2>9 DEF RunFunctor
    <3>2. Head(batch).from \in Threads /\ Head(batch).n \in Nat
      BY <3>1 DEF Functors
    <3> QED
      BY <2>9, <3>1, <3>2 DEF RunFunctor, Goto, LoopPcs
  <2>10. CASE FunctorDone
    BY <2>10 DEF FunctorDone, Goto, LoopPcs
  <2>11. CASE DrainEnd
    BY <2>11 DEF DrainEnd, Goto, LoopPcs
  <2> QED
    BY <1>1, <2>1, <2>2, <2>3, <2>4, <2>5, <2>6, <2>7, <2>8, <2>9, <2>10,
       <2>11 DEF LoopStep
<1>2. CASE PollOther
  <2>1. ASSUME NEW ready \in SUBSET Fds, PollReturn(ready) PROVE TypeOK'
    BY <2>1 DEF PollReturn, Goto, LoopPcs
  <2>2. CASE PollNothing
    BY <2>2 DEF PollNothing, Goto, LoopPcs
  <2> QED
    BY <1>2, <2>1, <2>2 DEF PollOther
<1>3. ASSUME NEW t \in Threads, QueueInLoop(t) PROVE TypeOK'
  <2>1. [from |-> t, n |-> sent[t] + 1] \in Functors
    BY DEF Functors
  <2> QED
    BY <1>3, <2>1, AppendProperties DEF QueueInLoop
<1>4. ASSUME NEW t \in Threads, WakeAfterQueue(t) PROVE TypeOK'
  BY <1>4 DEF WakeAfterQueue
<1>5. ASSUME NEW t \in Threads, Quit(t) PROVE TypeOK'
  BY <1>5 DEF Quit
<1>6. ASSUME NEW t \in Threads, WakeAfterQuit(t) PROVE TypeOK'
  BY <1>6 DEF WakeAfterQuit
<1>7. CASE UNCHANGED vars
  BY <1>7 DEF vars
<1> QED
  BY <1>1, <1>2, <1>3, <1>4, <1>5, <1>6, <1>7
     DEF Next, CallStep, NewCall, Terminated

\* The strengthened invariant survives every step.
LEMMA WakeupStep == LoopInv /\ [Next]_vars => (CallInv /\ BatchInv /\ WakeupInv)'
<1> SUFFICES ASSUME LoopInv, [Next]_vars PROVE (CallInv /\ BatchInv /\ WakeupInv)'
  OBVIOUS
<1> USE DEF LoopInv, TypeOK, CallInv, BatchInv, WakeupInv, WakeupInFlight, WillSwap,
            InBody, Threads
<1>1. CASE LoopStep
  <2>1. CASE LoopEnter
    BY <2>1 DEF LoopEnter, Goto
  <2>2. CASE Check
    BY <2>2 DEF Check, Goto
  <2>3. ASSUME NEW ready, PollReturn(ready) PROVE (CallInv /\ BatchInv /\ WakeupInv)'
    BY <2>3 DEF PollReturn, Goto
  <2>4. CASE HandleWakeup
    BY <2>4 DEF HandleWakeup
  <2>5. ASSUME NEW fd, HandleChannel(fd) PROVE (CallInv /\ BatchInv /\ WakeupInv)'
    BY <2>5 DEF HandleChannel, Goto
  <2>6. CASE HandlerDone
    BY <2>6 DEF HandlerDone, Goto
  <2>7. CASE DrainBegin
    BY <2>7 DEF DrainBegin, Goto
  <2>8. CASE Swap
    BY <2>8 DEF Swap, Goto
  <2>9. CASE RunFunctor
    BY <2>9 DEF RunFunctor, Goto
  <2>10. CASE FunctorDone
    BY <2>10 DEF FunctorDone, Goto
  <2>11. CASE DrainEnd
    BY <2>11 DEF DrainEnd, Goto
  <2> QED
    BY <1>1, <2>1, <2>2, <2>3, <2>4, <2>5, <2>6, <2>7, <2>8, <2>9, <2>10,
       <2>11 DEF LoopStep
<1>2. CASE PollOther
  <2>1. ASSUME NEW ready, PollReturn(ready) PROVE (CallInv /\ BatchInv /\ WakeupInv)'
    BY <2>1 DEF PollReturn, Goto
  <2>2. CASE PollNothing
    BY <2>2 DEF PollNothing, Goto
  <2> QED
    BY <1>2, <2>1, <2>2 DEF PollOther
<1>3. ASSUME NEW t \in Threads, QueueInLoop(t)
      PROVE  (CallInv /\ BatchInv /\ WakeupInv)'
  <2>1. call'[t] = "queued"
    BY <1>3 DEF QueueInLoop
  <2> QED
    BY <1>3, <2>1 DEF QueueInLoop, MayCall
<1>4. ASSUME NEW t \in Threads, WakeAfterQueue(t)
      PROVE  (CallInv /\ BatchInv /\ WakeupInv)'
  \* A loop thread that did not write the eventfd is in a channel's callback.
  <2>1. eventfd' > 0 \/ pc = "handler"
    BY <1>4 DEF WakeAfterQueue
  <2> QED
    BY <1>4, <2>1 DEF WakeAfterQueue
<1>5. ASSUME NEW t \in Threads, Quit(t) PROVE (CallInv /\ BatchInv /\ WakeupInv)'
  <2>1. CASE t = Owner
    BY <1>5, <2>1 DEF Quit, MayCall
  <2>2. CASE t # Owner
    BY <1>5, <2>2 DEF Quit, MayCall
  <2> QED
    BY <2>1, <2>2
<1>6. ASSUME NEW t \in Threads, WakeAfterQuit(t)
      PROVE  (CallInv /\ BatchInv /\ WakeupInv)'
  BY <1>6 DEF WakeAfterQuit
<1>7. CASE UNCHANGED vars
  BY <1>7 DEF vars
<1> QED
  BY <1>1, <1>2, <1>3, <1>4, <1>5, <1>6, <1>7
     DEF Next, CallStep, NewCall, Terminated

\* LoopInv is an invariant.
LEMMA LoopInvariant == SafeSpec => []LoopInv
<1>1. Init => LoopInv
  <2> SUFFICES ASSUME Init PROVE LoopInv
    OBVIOUS
  <2>1. TypeOK
    BY EmptySeq DEF Init, TypeOK, LoopPcs
  <2>2. CallInv
    BY DEF Init, CallInv, Threads
  <2>3. BatchInv /\ WakeupInv
    BY DEF Init, BatchInv, WakeupInv
  <2> QED
    BY <2>1, <2>2, <2>3 DEF LoopInv
<1>2. LoopInv /\ [Next]_vars => LoopInv'
  BY TypeStep, WakeupStep DEF LoopInv
<1> QED
  BY <1>1, <1>2, PTL DEF SafeSpec

-----------------------------------------------------------------------------
\* Type correctness.
THEOREM TypeCorrect == SafeSpec => []TypeOK
<1>1. LoopInv => TypeOK
  BY DEF LoopInv
<1> QED
  BY <1>1, LoopInvariant, PTL

\* No wakeup is ever lost between QueueInLoop() or Quit() and epoll_wait, with
\* any number of threads calling at any moment.
THEOREM NoWakeupLost == SafeSpec => []NoLostWakeup
<1>1. LoopInv => NoLostWakeup
  BY DEF LoopInv, WakeupInv, NoLostWakeup, WillSwap
<1> QED
  BY <1>1, LoopInvariant, PTL

-----------------------------------------------------------------------------
(* The loop implements LoopQueue.                                          *)

\* Concatenation facts the refinement needs.
LEMMA BacklogFacts ==
  ASSUME NEW S, NEW s \in Seq(S), NEW u \in Seq(S), NEW x \in S
  PROVE  /\ s \o Append(u, x) = Append(s \o u, x)
         /\ s # <<>> => /\ s \o u # <<>>
                        /\ Head(s \o u) = Head(s)
                        /\ Tail(s \o u) = Tail(s) \o u
<1>1. s \o Append(u, x) = Append(s \o u, x)
  <2>1. <<x>> \in Seq(S)
    OBVIOUS
  <2>2. Append(u, x) = u \o <<x>>
    BY AppendIsConcat
  <2>3. s \o u \in Seq(S)
    BY ConcatProperties
  <2>4. Append(s \o u, x) = (s \o u) \o <<x>>
    BY <2>3, AppendIsConcat
  <2> QED
    BY <2>1, <2>2, <2>4, ConcatAssociative
<1>2. ASSUME s # <<>>
      PROVE  /\ s \o u # <<>>
             /\ Head(s \o u) = Head(s)
             /\ Tail(s \o u) = Tail(s) \o u
  <2> DEFINE c == s \o u
             d == Tail(s) \o u
  <2>1. Len(s) \in Nat /\ Len(s) >= 1 /\ Len(u) \in Nat
    BY <1>2, EmptySeq, LenProperties
  <2>2. /\ c \in Seq(S)
        /\ Len(c) = Len(s) + Len(u)
        /\ \A i \in 1..Len(c) : c[i] = IF i <= Len(s) THEN s[i] ELSE u[i - Len(s)]
    BY ConcatProperties
  <2>3. /\ Tail(s) \in Seq(S)
        /\ Len(Tail(s)) = Len(s) - 1
        /\ \A i \in 1..Len(Tail(s)) : Tail(s)[i] = s[i + 1]
    BY <1>2, HeadTailProperties
  <2>4. /\ d \in Seq(S)
        /\ Len(d) = Len(s) - 1 + Len(u)
        /\ \A i \in 1..Len(d) :
             d[i] = IF i <= Len(s) - 1 THEN Tail(s)[i] ELSE u[i - (Len(s) - 1)]
    <3>1. /\ d \in Seq(S)
          /\ Len(d) = Len(Tail(s)) + Len(u)
          /\ \A i \in 1..Len(Tail(s)) + Len(u) :
               d[i] = IF i <= Len(Tail(s)) THEN Tail(s)[i] ELSE u[i - Len(Tail(s))]
      BY <2>3, ConcatProperties
    <3> QED
      BY <3>1, <2>3
  <2> HIDE DEF c, d
  <2>5. c # <<>>
    BY <2>1, <2>2, EmptySeq
  <2>6. Head(c) = Head(s)
    BY <1>2, <2>1, <2>2, <2>5
  <2>7. /\ Tail(c) \in Seq(S)
        /\ Len(Tail(c)) = Len(c) - 1
        /\ \A i \in 1..Len(Tail(c)) : Tail(c)[i] = c[i + 1]
    BY <2>2, <2>5, HeadTailProperties
  <2>8. \A i \in 1..Len(d) : d[i] = Tail(c)[i]
    <3> SUFFICES ASSUME NEW i \in 1..Len(d) PROVE d[i] = Tail(c)[i]
      OBVIOUS
    <3>1. i + 1 \in 1..Len(c) /\ i \in 1..Len(Tail(c))
      BY <2>1, <2>2, <2>4, <2>7
    <3>2. CASE i <= Len(s) - 1
      <4>1. i \in 1..Len(Tail(s)) /\ i + 1 <= Len(s)
        BY <3>2, <2>1, <2>3
      <4>2. d[i] = s[i + 1]
        BY <4>1, <3>2, <2>3, <2>4
      <4>3. Tail(c)[i] = s[i + 1]
        BY <4>1, <3>1, <2>2, <2>7
      <4> QED
        BY <4>2, <4>3
    <3>3. CASE ~(i <= Len(s) - 1)
      <4>1. i - (Len(s) - 1) = i + 1 - Len(s) /\ ~(i + 1 <= Len(s))
        BY <3>3, <2>1
      <4>2. d[i] = u[i - (Len(s) - 1)]
        BY <3>3, <2>4
      <4>3. Tail(c)[i] = c[i + 1]
        BY <3>1, <2>7
      <4>4. c[i + 1] = u[i + 1 - Len(s)]
        BY <4>1, <3>1, <2>2
      <4> QED
        BY <4>1, <4>2, <4>3, <4>4
    <3> QED
      BY <3>2, <3>3
  <2>9. Len(d) = Len(Tail(c))
    BY <2>1, <2>2, <2>4, <2>7
  <2>10. Tail(c) = d
    BY <2>4, <2>7, <2>8, <2>9, SeqEqual
  <2> QED
    BY <2>5, <2>6, <2>10 DEF c, d
<1> QED
  BY <1>1, <1>2

\* Every step of the loop and of its callers is a step of LoopQueue or leaves
\* what LoopQueue sees alone.
LEMMA QueueStep ==
  LoopInv /\ [Next]_vars => [Queue!Next]_(Queue!vars)
<1> SUFFICES ASSUME LoopInv, [Next]_vars, Queue!vars' # Queue!vars
             PROVE  Queue!Next
  OBVIOUS
<1> USE DEF Backlog, Queue!vars
<1>1. batch \in Seq(Functors) /\ pending \in Seq(Functors)
  BY DEF LoopInv, TypeOK
<1>2. CASE LoopStep
  <2>1. CASE LoopEnter
    BY <2>1 DEF LoopEnter, Goto
  <2>2. CASE Check
    BY <2>2 DEF Check, Goto, Queue!Next, Queue!Stop
  <2>3. ASSUME NEW ready, PollReturn(ready) PROVE FALSE
    BY <2>3 DEF PollReturn, Goto
  <2>4. CASE HandleWakeup
    BY <2>4 DEF HandleWakeup
  <2>5. ASSUME NEW fd, HandleChannel(fd) PROVE FALSE
    BY <2>5 DEF HandleChannel, Goto
  <2>6. CASE HandlerDone
    BY <2>6 DEF HandlerDone, Goto
  <2>7. CASE DrainBegin
    BY <2>7 DEF DrainBegin, Goto
  <2>8. CASE Swap
    \* The whole of pending becomes the batch: the backlog is the same.
    <3>1. batch = <<>> /\ batch' = pending /\ pending' = <<>>
      BY <2>8 DEF Swap, Goto, LoopInv, BatchInv
    <3>2. batch' \o pending' = batch \o pending
      BY <3>1, <1>1, ConcatEmptySeq
    <3> QED
      BY <2>8, <3>2 DEF Swap, Goto
  <2>9. CASE RunFunctor
    <3>1. batch # <<>> /\ batch' = Tail(batch) /\ pending' = pending
      BY <2>9 DEF RunFunctor
    <3>2. [from |-> Owner, n |-> 1] \in Functors
      BY DEF Functors, Threads
    <3>3. /\ Backlog # <<>>
          /\ Head(Backlog) = Head(batch)
          /\ Backlog' = Tail(Backlog)
      BY <3>1, <3>2, <1>1, BacklogFacts
    <3> QED
      BY <2>9, <3>3 DEF RunFunctor, Goto, Queue!Next, Queue!Run
  <2>10. CASE FunctorDone
    BY <2>10 DEF FunctorDone, Goto
  <2>11. CASE DrainEnd
    BY <2>11 DEF DrainEnd, Goto
  <2> QED
    BY <1>2, <2>1, <2>2, <2>3, <2>4, <2>5, <2>6, <2>7, <2>8, <2>9, <2>10,
       <2>11 DEF LoopStep
<1>3. CASE PollOther
  BY <1>3 DEF PollOther, PollReturn, PollNothing, Goto
<1>4. ASSUME NEW t \in Threads, QueueInLoop(t) PROVE Queue!Next
  <2> DEFINE f == [from |-> t, n |-> sent[t] + 1]
  <2>1. f \in Functors
    <3>1. sent[t] \in Nat
      BY DEF LoopInv, TypeOK
    <3> QED
      BY <3>1 DEF Functors
  <2>2. Backlog' = Append(Backlog, f)
    BY <1>4, <2>1, <1>1, BacklogFacts DEF QueueInLoop
  <2> QED
    BY <1>4, <2>2 DEF QueueInLoop, Queue!Next, Queue!Post
<1>5. ASSUME NEW t \in Threads, CallStep(t) \/ Quit(t) PROVE FALSE
  BY <1>5 DEF CallStep, WakeAfterQueue, WakeAfterQuit, Quit
<1>6. CASE UNCHANGED vars
  BY <1>6 DEF vars
<1> QED
  BY <1>2, <1>3, <1>4, <1>5, <1>6 DEF Next, NewCall, Terminated

\* The safety part of KeepsPromise: mutex, batches, swap and wakeups together
\* are one first-in first-out queue.
THEOREM KeepsQueue == SafeSpec => Queue!SafeSpec
<1>1. Init => Queue!Init
  BY EmptySeq, ConcatEmptySeq DEF Init, Queue!Init, Backlog
<1> QED
  BY <1>1, QueueStep, LoopInvariant, PTL DEF SafeSpec, Queue!SafeSpec

\* LoopQueue's own theorem, read of the queue this loop implements.
Promise == INSTANCE LoopQueueProofs
             WITH queue <- Backlog, stopped <- (pc = "exited")

\* Functors are started in each caller's order, exactly once, for any number
\* of callers and calls.
THEOREM StartedInOrder == SafeSpec => RunsInOrder
<1>1. Queue!SafeSpec => RunsInOrder
  BY Promise!InOrder DEF RunsInOrder, Promise!SafeSpec, Queue!SafeSpec,
     Promise!Init, Queue!Init, Promise!Next, Queue!Next, Promise!vars,
     Queue!vars, Promise!Post, Queue!Post, Promise!Run, Queue!Run,
     Promise!Stop, Queue!Stop
<1> QED
  BY <1>1, KeepsQueue
=============================================================================
