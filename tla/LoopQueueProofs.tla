--------------------------- MODULE LoopQueueProofs ---------------------------
(***************************************************************************)
(* What follows from the promise of LoopQueue.tla alone, for every set of  *)
(* threads.                                                                *)
(***************************************************************************)
EXTENDS LoopQueue, SequenceTheorems, TLAPS

\* The functors and the types of the queue.
Functors == [from : Threads, n : Nat \ {0}]

QueueType ==
  /\ queue \in Seq(Functors)
  /\ sent \in [Threads -> Nat]
  /\ ran \in [Threads -> Nat]

\* What is queued of one thread is what it handed over and was not started,
\* numbers rising towards the tail.
Numbered ==
  /\ \A t \in Threads : ran[t] <= sent[t]
  /\ \A i \in 1..Len(queue) :
       ran[queue[i].from] < queue[i].n /\ queue[i].n <= sent[queue[i].from]
  /\ \A i, j \in 1..Len(queue) :
       i < j /\ queue[i].from = queue[j].from => queue[i].n < queue[j].n
  /\ \A t \in Threads : \A k \in (ran[t] + 1)..sent[t] :
       \E i \in 1..Len(queue) : queue[i].from = t /\ queue[i].n = k

\* The invariant of the queue.
QueueInv == QueueType /\ Numbered

\* Every functor in the queue has an owner and a number.
LEMMA Queued ==
  ASSUME QueueType
  PROVE  \A i \in 1..Len(queue) : queue[i].from \in Threads /\ queue[i].n \in Nat
<1>1. ASSUME NEW i \in 1..Len(queue) PROVE queue[i] \in Functors
  BY ElementOfSeq DEF QueueType
<1> QED
  BY <1>1 DEF Functors

\* Handing over a functor keeps the numbering.
LEMMA PostKeeps ==
  ASSUME QueueInv, NEW t \in Threads, Post(t)
  PROVE  QueueInv'
<1> DEFINE f == [from |-> t, n |-> sent[t] + 1]
<1> USE DEF QueueInv, QueueType
<1>1. f \in Functors /\ f.from = t /\ f.n = sent[t] + 1
  BY DEF Functors
<1>2. /\ queue' = Append(queue, f)
      /\ sent' = [sent EXCEPT ![t] = sent[t] + 1]
      /\ ran' = ran
  BY DEF Post
<1> HIDE DEF f
<1>3. /\ queue' \in Seq(Functors)
      /\ Len(queue') = Len(queue) + 1
      /\ \A i \in 1..Len(queue) : queue'[i] = queue[i]
      /\ queue'[Len(queue) + 1] = f
  BY <1>1, <1>2, AppendProperties
<1>4. Len(queue) \in Nat
  BY LenProperties
<1>5. \A i \in 1..Len(queue) : queue[i].from \in Threads /\ queue[i].n \in Nat
  BY Queued
<1>6. QueueType'
  BY <1>2, <1>3
<1>7. \A u \in Threads : ran'[u] <= sent'[u]
  BY <1>2 DEF Numbered
<1>8. ASSUME NEW i \in 1..Len(queue')
      PROVE  ran'[queue'[i].from] < queue'[i].n
             /\ queue'[i].n <= sent'[queue'[i].from]
  <2>1. CASE i = Len(queue) + 1
    BY <2>1, <1>1, <1>2, <1>3 DEF Numbered
  <2>2. CASE i \in 1..Len(queue)
    BY <2>2, <1>2, <1>3, <1>5 DEF Numbered
  <2> QED
    BY <2>1, <2>2, <1>3, <1>4
<1>9. ASSUME NEW i \in 1..Len(queue'), NEW j \in 1..Len(queue'),
             i < j, queue'[i].from = queue'[j].from
      PROVE  queue'[i].n < queue'[j].n
  <2>1. i \in 1..Len(queue)
    BY <1>3, <1>4, <1>9
  <2>2. CASE j = Len(queue) + 1
    \* The new functor: every older one of t is numbered sent[t] at most.
    BY <2>1, <2>2, <1>1, <1>3, <1>5, <1>9 DEF Numbered
  <2>3. CASE j \in 1..Len(queue)
    BY <2>1, <2>3, <1>3, <1>9 DEF Numbered
  <2> QED
    BY <2>2, <2>3, <1>3, <1>4
<1>10. ASSUME NEW u \in Threads, NEW k \in (ran'[u] + 1)..sent'[u]
       PROVE  \E i \in 1..Len(queue') : queue'[i].from = u /\ queue'[i].n = k
  <2>1. CASE k \in (ran[u] + 1)..sent[u]
    <3>1. PICK i \in 1..Len(queue) : queue[i].from = u /\ queue[i].n = k
      BY <2>1 DEF Numbered
    <3>2. i \in 1..Len(queue') /\ queue'[i] = queue[i]
      BY <1>3, <1>4
    <3> QED
      BY <3>1, <3>2
  <2>2. CASE k \notin (ran[u] + 1)..sent[u]
    <3>1. u = t /\ k = sent[t] + 1
      BY <2>2, <1>2, <1>10
    <3>2. Len(queue) + 1 \in 1..Len(queue')
      BY <1>3, <1>4
    <3> QED
      BY <3>1, <3>2, <1>1, <1>3
  <2> QED
    BY <2>1, <2>2
<1>11. Numbered'
  BY <1>7, <1>8, <1>9, <1>10 DEF Numbered
<1> QED
  BY <1>6, <1>11

\* The head of the queue is its thread's next functor.
LEMMA HeadIsNext ==
  ASSUME QueueInv, queue # <<>>
  PROVE  /\ Head(queue).from \in Threads
         /\ Head(queue).n = ran[Head(queue).from] + 1
<1> USE DEF QueueInv, QueueType
<1> DEFINE t == queue[1].from
<1>1. Len(queue) \in Nat /\ Len(queue) >= 1 /\ Head(queue) = queue[1]
  BY EmptySeq, LenProperties
<1>2. \A i \in 1..Len(queue) : queue[i].from \in Threads /\ queue[i].n \in Nat
  BY Queued
<1>3. 1 \in 1..Len(queue) /\ t \in Threads
  BY <1>1, <1>2
<1> HIDE DEF t
<1>4. ran[t] < queue[1].n /\ queue[1].n <= sent[t]
  BY <1>3 DEF Numbered, t
<1>5. ran[t] \in Nat /\ sent[t] \in Nat /\ queue[1].n \in Nat
  BY <1>2, <1>3
<1>6. PICK i \in 1..Len(queue) : queue[i].from = t /\ queue[i].n = ran[t] + 1
  <2>1. ran[t] + 1 \in (ran[t] + 1)..sent[t]
    BY <1>4, <1>5
  <2> QED
    BY <2>1, <1>3 DEF Numbered
<1>7. CASE i > 1
  <2>1. queue[1].n < queue[i].n
    BY <1>3, <1>6, <1>7 DEF Numbered, t
  <2> QED
    BY <2>1, <1>4, <1>5, <1>6
<1>8. CASE i = 1
  BY <1>1, <1>3, <1>6, <1>8 DEF t
<1> QED
  BY <1>1, <1>7, <1>8

\* Starting the head keeps the numbering.
LEMMA RunKeeps ==
  ASSUME QueueInv, Run
  PROVE  QueueInv'
<1> DEFINE t == Head(queue).from
<1> USE DEF QueueInv, QueueType
<1>1. /\ queue # <<>>
      /\ queue' = Tail(queue)
      /\ sent' = sent
      /\ ran' = [ran EXCEPT ![t] = Head(queue).n]
  BY DEF Run
<1>2. t \in Threads /\ Head(queue).n = ran[t] + 1
  BY <1>1, HeadIsNext
<1>3. Len(queue) \in Nat /\ Len(queue) >= 1 /\ Head(queue) = queue[1]
  BY <1>1, EmptySeq, LenProperties
<1>4. \A i \in 1..Len(queue) : queue[i].from \in Threads /\ queue[i].n \in Nat
  BY Queued
<1>5. queue[1].from = t /\ queue[1].n = ran[t] + 1
  BY <1>2, <1>3
<1> HIDE DEF t
<1>6. ran'[t] = ran[t] + 1 /\ \A u \in Threads \ {t} : ran'[u] = ran[u]
  BY <1>1, <1>2
<1>7. /\ queue' \in Seq(Functors)
      /\ Len(queue') = Len(queue) - 1
      /\ \A i \in 1..Len(queue') : queue'[i] = queue[i + 1]
  BY <1>1, HeadTailProperties
<1>8. \A i \in 1..Len(queue') : i + 1 \in 1..Len(queue) /\ i + 1 > 1
  BY <1>3, <1>7
<1>9. QueueType'
  BY <1>1, <1>2, <1>7
<1>10. \A u \in Threads : ran'[u] <= sent'[u]
  <2>1. ran[t] + 1 <= sent[t]
    BY <1>3, <1>5 DEF Numbered
  <2> QED
    BY <2>1, <1>1, <1>6 DEF Numbered
<1>11. ASSUME NEW i \in 1..Len(queue')
       PROVE  ran'[queue'[i].from] < queue'[i].n
              /\ queue'[i].n <= sent'[queue'[i].from]
  <2>1. /\ queue'[i] = queue[i + 1]
        /\ i + 1 \in 1..Len(queue) /\ 1 \in 1..Len(queue) /\ 1 < i + 1
    BY <1>3, <1>7, <1>8
  <2>2. CASE queue[i + 1].from = t
    BY <2>1, <2>2, <1>1, <1>4, <1>5, <1>6 DEF Numbered
  <2>3. CASE queue[i + 1].from # t
    BY <2>1, <2>3, <1>1, <1>4, <1>6 DEF Numbered
  <2> QED
    BY <2>2, <2>3
<1>12. ASSUME NEW i \in 1..Len(queue'), NEW j \in 1..Len(queue'),
              i < j, queue'[i].from = queue'[j].from
       PROVE  queue'[i].n < queue'[j].n
  BY <1>7, <1>8, <1>12 DEF Numbered
<1>13. ASSUME NEW u \in Threads, NEW k \in (ran'[u] + 1)..sent'[u]
       PROVE  \E i \in 1..Len(queue') : queue'[i].from = u /\ queue'[i].n = k
  <2>1. ran[u] \in Nat /\ sent[u] \in Nat /\ sent'[u] = sent[u]
    BY <1>1
  <2>2. k \in (ran[u] + 1)..sent[u]
    BY <2>1, <1>2, <1>6
  <2>3. PICK i \in 1..Len(queue) : queue[i].from = u /\ queue[i].n = k
    BY <2>2 DEF Numbered
  <2>4. i # 1
    BY <2>1, <2>3, <1>2, <1>5, <1>6
  <2>5. i - 1 \in 1..Len(queue') /\ queue'[i - 1] = queue[i]
    BY <2>4, <1>3, <1>7
  <2> QED
    BY <2>3, <2>5
<1>14. Numbered'
  BY <1>10, <1>11, <1>12, <1>13 DEF Numbered
<1> QED
  BY <1>9, <1>14

\* QueueInv is an invariant.
LEMMA QueueInvariant == SafeSpec => []QueueInv
<1>1. Init => QueueInv
  BY EmptySeq DEF Init, QueueInv, QueueType, Numbered
<1>2. QueueInv /\ [Next]_vars => QueueInv'
  <2> SUFFICES ASSUME QueueInv, [Next]_vars PROVE QueueInv'
    OBVIOUS
  <2>1. ASSUME NEW t \in Threads, Post(t) PROVE QueueInv'
    BY <2>1, PostKeeps
  <2>2. CASE Run
    BY <2>2, RunKeeps
  <2>3. CASE Stop \/ UNCHANGED vars
    BY <2>3 DEF Stop, vars, QueueInv, QueueType, Numbered
  <2> QED
    BY <2>1, <2>2, <2>3 DEF Next
<1> QED
  BY <1>1, <1>2, PTL DEF SafeSpec

-----------------------------------------------------------------------------
\* A loop that keeps the promise starts each thread's functors one by one in
\* the order they were handed over: none twice, none left out.
THEOREM InOrder ==
  SafeSpec => [][\A t \in Threads : ran'[t] # ran[t] => ran'[t] = ran[t] + 1]_ran
<1> DEFINE OneMore == \A t \in Threads : ran'[t] # ran[t] => ran'[t] = ran[t] + 1
<1>1. QueueInv /\ [Next]_vars => [OneMore]_ran
  <2> SUFFICES ASSUME QueueInv, [Next]_vars, ran' # ran PROVE OneMore
    OBVIOUS
  <2>1. Run
    BY DEF Next, Post, Stop, vars
  <2> QED
    BY <2>1, HeadIsNext DEF Run, QueueInv, QueueType
<1> QED
  BY <1>1, QueueInvariant, PTL DEF SafeSpec
=============================================================================
